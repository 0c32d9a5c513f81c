----------------------------- MODULE TestRunnerProofs ---------------------------
(***************************************************************************)
(* The host is not deceived, for any number of repetitions and vectors,    *)
(* wherever an earlier program is caught, until one other than the one it  *)
(* flashed comes to its opening marker: what the host reads between two    *)
(* markers it has read from the program it flashed, or it is not enough to *)
(* pass.                                                                   *)
(***************************************************************************)
EXTENDS TestRunner, FiniteSetTheorems, SequenceTheorems, TLAPS

Token == {"$", "nl", "OK", "ERROR", "otherhash", "HardFault_Handler",
          "hash512", "hash768", "hash1024"}

(* What the board has sent, or is sending, and the host has not read.      *)
Unread == line \o tx

Types ==
  /\ platform \in {"board", "qemu"} /\ kind \in Kinds /\ quiet \in BOOLEAN
  /\ pc \in {"start", "marker", "payload", "wait", "check", "exit0", "exit1"}
  /\ i \in 1 .. 3 /\ x \in Seq(Token) /\ line \in Seq(Token) /\ tx \in Seq(Token)
  /\ program \in [kind : Kinds, scheme : 1 .. 3, ours : BOOLEAN]
  /\ at \in Stages /\ rounds \in Nat /\ good \in BOOLEAN /\ faulted \in BOOLEAN

None(o, token) == \A j \in DOMAIN o : o[j] # token
AllNewlines(o) == \A j \in DOMAIN o : o[j] = "nl"

(* After a marker nothing comes but the newline.                           *)
LastMarker(o) == \A p, q \in DOMAIN o : p < q /\ o[p] = "$" => o[q] = "nl"

(* What o, all that came after the opening marker, gives away of the       *)
(* program that sent it: nothing it has not done ...                       *)
Truthful(o) ==
  /\ rounds <= Rounds
  /\ kind # "nistkat" =>
       Count(o, "OK") <= rounds /\ (Count(o, "OK") = rounds => good = TRUE)
  /\ ~ None(o, Hash[i]) =>
       rounds = Rounds /\ good = TRUE /\ at \in {"closing", "off", "hung"}
  /\ ~ None(o, "$") => platform = "board" /\ at = "off" /\ faulted = FALSE
  /\ faulted = TRUE =>
       IF platform = "board" THEN at = "hung"
                             ELSE at = "off" /\ ~ None(o, "HardFault_Handler")

(* ... and all that it has done, if nothing went wrong.                    *)
OneHash(o) ==
  \E j \in DOMAIN o : o[j] = Hash[i] /\ \A l \in DOMAIN o : l # j => o[l] \in {"nl", "$"}
Complete(o) ==
  good = TRUE /\ faulted = FALSE =>
    /\ kind # "nistkat" => Count(o, "OK") = rounds
    /\ at \in {"closing", "off"} => rounds = Rounds
    /\ kind = "nistkat" /\ at \in {"opening", "body"} => AllNewlines(o)
    /\ kind = "nistkat" /\ at \in {"closing", "off"} => OneHash(o)
    /\ platform = "board" => Len(o) >= 1 /\ o[1] = "nl"

Payload(o) ==
  /\ Mine /\ Truthful(o) /\ Complete(o) /\ LastMarker(o)
  /\ platform = "board" => at # "opening"
  /\ platform = "qemu" => at # "hung"

(* All that the program sent since it was flashed.                         *)
Sent(o) ==
  IF o = <<>>
  THEN /\ Mine
       /\ \/ at = "hung"
          \/ at = "opening" /\ rounds = 0 /\ good = TRUE /\ faulted = FALSE
  ELSE o[1] = "$" /\ Payload(Tail(o))

(* An earlier program, or none, is on the board: it has one marker left to *)
(* send at most, unless it is about to start.                              *)
Earlier ==
  /\ LastMarker(Unread) /\ (at = "opening" => ~ Mine)
  /\ at \in {"body", "closing"} => None(Unread, "$")
Ended ==
  /\ at \in {"off", "hung"} \/ (at = "opening" /\ ~ Mine)
  /\ None(Unread, "$")

(* The program of this scheme has been flashed; before what it sends there *)
(* may be something left that an earlier one has sent.                     *)
Flashed ==
  \E stale \in Seq(Token), sent \in Seq(Token) :
    /\ line = stale \o sent /\ Sent(sent \o tx)
    /\ LastMarker(stale) /\ (quiet = TRUE \/ i > 1 => None(stale, "$"))

(* The host has taken the last marker of the earlier program for the first *)
(* of this one.                                                            *)
Misled ==
  /\ quiet = FALSE /\ AllNewlines(x)
  /\ \E stale \in Seq(Token), sent \in Seq(Token) :
       line = stale \o sent /\ Sent(sent \o tx) /\ AllNewlines(stale)

Closed(o) == Len(o) >= 1 /\ o[Len(o)] = "$"
NothingElse == \A j \in DOMAIN x : j < Len(x) => x[j] = "nl"

OnBoard ==
  platform = "board" =>
    /\ pc # "wait"
    /\ pc = "start" =>
         /\ ~ Mine /\ Earlier
         /\ quiet = TRUE \/ i > 1 => at = "off" /\ None(Unread, "$")
    /\ pc = "marker" => Earlier \/ Flashed
    /\ pc = "payload" => Ended \/ Misled \/ Payload(x \o Unread)
    /\ pc = "check" =>
         /\ Closed(x)
         /\ (quiet = FALSE /\ NothingElse) \/ Payload(x \o Unread)
InQemu ==
  platform = "qemu" =>
    /\ pc \notin {"marker", "payload"}
    /\ pc # "wait" => at = "off" /\ tx = <<>>
    /\ pc = "wait" => Payload(Unread)
    /\ pc = "check" => Payload(x)
Failed ==
  quiet = TRUE /\ pc = "exit1" =>
    at = "off" /\ Mine /\ (good = FALSE \/ faulted = TRUE)

Told == Types /\ OnBoard /\ InQemu /\ Failed

(* All this for as long as nothing has strayed onto the line.              *)
IInv == Types /\ stray \in BOOLEAN /\ (stray = FALSE => Told)

--------------------------------------------------------------------------------
(* Sequences of tokens.                                                    *)

LEMMA Joined ==
  ASSUME NEW a \in Seq(Token), NEW b \in Seq(Token)
  PROVE  /\ a \o b \in Seq(Token) /\ Len(a \o b) = Len(a) + Len(b)
         /\ DOMAIN a = 1 .. Len(a) /\ DOMAIN (a \o b) = 1 .. Len(a) + Len(b)
         /\ \A j \in DOMAIN a : (a \o b)[j] = a[j]
         /\ \A j \in 1 .. Len(b) : (a \o b)[Len(a) + j] = b[j]
  OBVIOUS

LEMMA JoinEmpty ==
  ASSUME NEW a \in Seq(Token)
  PROVE  a \o <<>> = a /\ <<>> \o a = a
  OBVIOUS

(* A token that goes from the head of one to the end of the other.         *)
LEMMA Moved ==
  ASSUME NEW a \in Seq(Token), NEW b \in Seq(Token), b # <<>>
  PROVE  /\ Append(a, Head(b)) \in Seq(Token) /\ Tail(b) \in Seq(Token)
         /\ Head(b) \in Token /\ Append(a, Head(b)) \o Tail(b) = a \o b
  OBVIOUS

LEMMA Associative ==
  ASSUME NEW a \in Seq(Token), NEW b \in Seq(Token), NEW c \in Seq(Token)
  PROVE  (a \o b) \o c = a \o (b \o c)
  OBVIOUS

LEMMA MovedOn ==
  ASSUME NEW a \in Seq(Token), NEW b \in Seq(Token), NEW c \in Seq(Token), b # <<>>
  PROVE  Append(a, Head(b)) \o (Tail(b) \o c) = a \o (b \o c)
  BY SMTT(30)

LEMMA HeadTail ==
  ASSUME NEW a \in Seq(Token), NEW b \in Seq(Token), a # <<>>
  PROVE  /\ Head(a \o b) = Head(a) /\ Tail(a \o b) = Tail(a) \o b /\ a \o b # <<>>
         /\ (a \o b)[1] = a[1] /\ Head(a) = a[1]
  OBVIOUS

LEMMA NoneIn ==
  ASSUME NEW a \in Seq(Token), NEW b \in Seq(Token), NEW token
  PROVE  None(a \o b, token) <=> None(a, token) /\ None(b, token)
<1>. DEFINE m == Len(a)
<1>1. DOMAIN b = 1 .. Len(b) /\ DOMAIN a = 1 .. m /\ m \in Nat /\ Len(b) \in Nat
  OBVIOUS
<1>2. ASSUME None(a \o b, token)
      PROVE  None(a, token) /\ None(b, token)
  <2>1. \A j \in 1 .. m : j \in DOMAIN (a \o b) /\ (a \o b)[j] = a[j]
    BY <1>1, Joined
  <2>2. \A j \in 1 .. Len(b) : m + j \in DOMAIN (a \o b) /\ (a \o b)[m + j] = b[j]
    BY <1>1, Joined
  <2>. QED  BY <1>1, <1>2, <2>1, <2>2 DEF None
<1>3. ASSUME None(a, token), None(b, token)
      PROVE  None(a \o b, token)
  <2>1. \A j \in DOMAIN (a \o b) :
          \/ j \in 1 .. m /\ (a \o b)[j] = a[j]
          \/ j - m \in 1 .. Len(b) /\ (a \o b)[j] = b[j - m]
    BY <1>1
  <2>. QED  BY <1>1, <1>3, <2>1 DEF None
<1>. QED  BY <1>2, <1>3

LEMMA NewlinesIn ==
  ASSUME NEW a \in Seq(Token), NEW b \in Seq(Token)
  PROVE  AllNewlines(a \o b) <=> AllNewlines(a) /\ AllNewlines(b)
<1>. DEFINE m == Len(a)
<1>1. DOMAIN b = 1 .. Len(b) /\ DOMAIN a = 1 .. m /\ m \in Nat /\ Len(b) \in Nat
  OBVIOUS
<1>2. ASSUME AllNewlines(a \o b)
      PROVE  AllNewlines(a) /\ AllNewlines(b)
  <2>1. \A j \in 1 .. m : j \in DOMAIN (a \o b) /\ (a \o b)[j] = a[j]
    BY <1>1, Joined
  <2>2. \A j \in 1 .. Len(b) : m + j \in DOMAIN (a \o b) /\ (a \o b)[m + j] = b[j]
    BY <1>1, Joined
  <2>. QED  BY <1>1, <1>2, <2>1, <2>2 DEF AllNewlines
<1>3. ASSUME AllNewlines(a), AllNewlines(b)
      PROVE  AllNewlines(a \o b)
  <2>1. \A j \in DOMAIN (a \o b) :
          \/ j \in 1 .. m /\ (a \o b)[j] = a[j]
          \/ j - m \in 1 .. Len(b) /\ (a \o b)[j] = b[j - m]
    BY <1>1
  <2>. QED  BY <1>1, <1>3, <2>1 DEF AllNewlines
<1>. QED  BY <1>2, <1>3

(* Nothing comes after a marker in a part either; and after one in the     *)
(* first part the second is all newlines.                                  *)
LEMMA LastMarkerIn ==
  ASSUME NEW a \in Seq(Token), NEW b \in Seq(Token), LastMarker(a \o b)
  PROVE  /\ LastMarker(a) /\ LastMarker(b)
         /\ ~ None(a, "$") => AllNewlines(b)
<1>. DEFINE m == Len(a)
<1>1. DOMAIN b = 1 .. Len(b) /\ DOMAIN a = 1 .. m /\ m \in Nat /\ Len(b) \in Nat
  OBVIOUS
<1>2. \A j \in 1 .. m : j \in DOMAIN (a \o b) /\ (a \o b)[j] = a[j]
  BY <1>1, Joined
<1>3. \A j \in 1 .. Len(b) : m + j \in DOMAIN (a \o b) /\ (a \o b)[m + j] = b[j]
  BY <1>1, Joined
<1>4. LastMarker(a)
  BY <1>1, <1>2 DEF LastMarker
<1>5. LastMarker(b)
  <2>1. SUFFICES ASSUME NEW p \in 1 .. Len(b), NEW q \in 1 .. Len(b), p < q, b[p] = "$"
                 PROVE  b[q] = "nl"
    BY <1>1 DEF LastMarker
  <2>2. m + p < m + q
    BY <1>1, <2>1
  <2>. QED  BY <1>3, <2>1, <2>2 DEF LastMarker
<1>6. ASSUME NEW p \in 1 .. m, a[p] = "$", NEW q \in 1 .. Len(b)
      PROVE  b[q] = "nl"
  <2>1. p < m + q
    BY <1>1, <1>6
  <2>. QED  BY <1>2, <1>3, <1>6, <2>1 DEF LastMarker
<1>. QED  BY <1>1, <1>4, <1>5, <1>6 DEF None, AllNewlines

LEMMA NoMarker ==
  ASSUME NEW a, None(a, "$")
  PROVE  LastMarker(a)
  BY DEF None, LastMarker

(* A marker behind text without one.                                       *)
LEMMA MarkerLast ==
  ASSUME NEW a \in Seq(Token), None(a, "$")
  PROVE  LastMarker(a \o Marker)
<1>. DEFINE o == a \o Marker
            m == Len(a)
<1>1. m \in Nat /\ DOMAIN a = 1 .. m /\ DOMAIN o = 1 .. m + 2 /\ o[m + 2] = "nl"
      /\ \A j \in 1 .. m : o[j] = a[j]
  BY DEF Marker
<1>2. \A p, q \in DOMAIN o : p < q /\ o[p] = "$" => q = m + 2
  BY <1>1 DEF None
<1>. QED  BY <1>1, <1>2 DEF LastMarker

LEMMA TailIn ==
  ASSUME NEW a \in Seq(Token), a # <<>>
  PROVE  /\ Tail(a) \in Seq(Token) /\ a = <<a[1]>> \o Tail(a) /\ a[1] \in Token
         /\ <<a[1]>> \in Seq(Token) /\ Head(a) = a[1]
  OBVIOUS

LEMMA TailFacts ==
  ASSUME NEW a \in Seq(Token), a # <<>>
  PROVE  /\ \A token : None(a, token) <=> a[1] # token /\ None(Tail(a), token)
         /\ AllNewlines(a) <=> a[1] = "nl" /\ AllNewlines(Tail(a))
         /\ LastMarker(a) => LastMarker(Tail(a)) /\ (a[1] = "$" => AllNewlines(Tail(a)))
<1>. DEFINE h == <<a[1]>>
            b == Tail(a)
<1>1. b \in Seq(Token) /\ a = h \o b /\ h \in Seq(Token)
  BY TailIn
<1>2. \A token : None(h, token) <=> a[1] # token
  BY DEF None
<1>3. AllNewlines(h) <=> a[1] = "nl"
  BY DEF AllNewlines
<1>. HIDE DEF h, b
<1>4. \A token : None(a, token) <=> a[1] # token /\ None(b, token)
  BY <1>1, <1>2, NoneIn
<1>5. AllNewlines(a) <=> a[1] = "nl" /\ AllNewlines(b)
  BY <1>1, <1>3, NewlinesIn
<1>6. LastMarker(a) => LastMarker(b) /\ (a[1] = "$" => AllNewlines(b))
  BY <1>1, <1>2, LastMarkerIn
<1>. QED  BY <1>4, <1>5, <1>6 DEF b

--------------------------------------------------------------------------------
(* Counts.                                                                 *)

LEMMA CountType ==
  ASSUME NEW a \in Seq(Token), NEW token
  PROVE  Count(a, token) \in Nat /\ IsFiniteSet({j \in DOMAIN a : a[j] = token})
<1>1. IsFiniteSet(1 .. Len(a)) /\ DOMAIN a = 1 .. Len(a)
  BY FS_Interval
<1>2. IsFiniteSet({j \in DOMAIN a : a[j] = token})
  BY <1>1, FS_Subset
<1>. QED  BY <1>2, FS_CardinalityType DEF Count

LEMMA CountNone ==
  ASSUME NEW a \in Seq(Token), NEW token, None(a, token)
  PROVE  Count(a, token) = 0
<1>1. {j \in DOMAIN a : a[j] = token} = {}
  BY DEF None
<1>. QED  BY <1>1, FS_EmptySet DEF Count

LEMMA CountAppend ==
  ASSUME NEW a \in Seq(Token), NEW e \in Token, NEW token
  PROVE  Count(Append(a, e), token) = Count(a, token) + (IF e = token THEN 1 ELSE 0)
<1>. DEFINE S == {j \in DOMAIN a : a[j] = token}
            m == Len(a) + 1
            b == Append(a, e)
<1>1. DOMAIN a = 1 .. Len(a) /\ Len(a) \in Nat /\ DOMAIN b = 1 .. m /\ b[m] = e
      /\ \A j \in 1 .. Len(a) : b[j] = a[j]
  OBVIOUS
<1>2. m \notin S /\ IsFiniteSet(S) /\ Cardinality(S) \in Nat
  <2>1. m \notin S
    BY <1>1
  <2>2. IsFiniteSet(S)
    BY CountType
  <2>. HIDE DEF S
  <2>. QED  BY <2>1, <2>2, FS_CardinalityType
<1>. HIDE DEF b
<1>3. {j \in DOMAIN b : b[j] = token} = IF e = token THEN S \cup {m} ELSE S
  BY <1>1
<1>. HIDE DEF S, m
<1>4. Cardinality(S \cup {m}) = Cardinality(S) + 1
  BY <1>2, FS_AddElement
<1>5. Count(b, token) = Cardinality(S) + (IF e = token THEN 1 ELSE 0)
  <2>1. Count(b, token) = Cardinality({j \in DOMAIN b : b[j] = token})
    BY DEF Count
  <2>2. Count(b, token) = Cardinality(IF e = token THEN S \cup {m} ELSE S)
    BY ONLY <2>1, <1>3
  <2>. QED  BY <2>2, <1>2, <1>4
<1>6. Count(a, token) = Cardinality(S)
  BY DEF Count, S
<1>. QED  BY <1>5, <1>6 DEF b

(* What a step of a program sends.                                         *)
LEMMA CountText ==
  ASSUME NEW a \in Seq(Token), NEW e \in Token
  PROVE  /\ a \o <<e, "nl">> \in Seq(Token)
         /\ Count(a \o <<e, "nl">>, "OK") = Count(a, "OK") + (IF e = "OK" THEN 1 ELSE 0)
<1>. DEFINE b == Append(a, e)
<1>1. a \o <<e, "nl">> = Append(b, "nl") /\ b \in Seq(Token) /\ "nl" \in Token
  BY DEF Token
<1>2. Count(b, "OK") = Count(a, "OK") + (IF e = "OK" THEN 1 ELSE 0)
  BY CountAppend
<1>. HIDE DEF b
<1>3. Count(Append(b, "nl"), "OK") = Count(b, "OK") + (IF "nl" = "OK" THEN 1 ELSE 0)
  BY ONLY <1>1, CountAppend
<1>4. Count(b, "OK") \in Nat
  BY ONLY <1>1, CountType
<1>. DEFINE c == a \o <<e, "nl">>
<1>5. c \in Seq(Token)
  BY <1>1 DEF Token
<1>6. c = Append(b, "nl")
  BY <1>1
<1>. HIDE DEF c
<1>7. Count(c, "OK") = Count(b, "OK")
  BY ONLY <1>3, <1>4, <1>6
<1>. QED  BY <1>2, <1>5, <1>7 DEF c

LEMMA CountPart ==
  ASSUME NEW a \in Seq(Token), NEW b \in Seq(Token), NEW token
  PROVE  Count(a, token) <= Count(a \o b, token)
<1>. DEFINE S == {j \in DOMAIN a : a[j] = token}
            T == {j \in DOMAIN (a \o b) : (a \o b)[j] = token}
<1>1. S \subseteq T
  BY Joined
<1>2. IsFiniteSet(T)
  <2>1. a \o b \in Seq(Token)
    OBVIOUS
  <2>. QED  BY <2>1, CountType
<1>3. Cardinality(S) <= Cardinality(T)
  <2>. HIDE DEF S, T
  <2>. QED  BY <1>1, <1>2, FS_Subset
<1>. QED  BY <1>3 DEF Count

--------------------------------------------------------------------------------
(* The program under test takes a step: what it has told stays true.       *)

LEMMA HashIs ==
  ASSUME i \in 1 .. 3
  PROVE  /\ Hash[i] \in Token
         /\ Hash[i] \notin {"$", "nl", "OK", "ERROR", "otherhash", "HardFault_Handler"}
  BY DEF Hash, Token

(* Two tokens, none of which is another.                                   *)
LEMMA TextIs ==
  ASSUME NEW e \in Token
  PROVE  /\ <<e, "nl">> \in Seq(Token) /\ <<>> \in Seq(Token)
         /\ \A token : token # "nl" /\ token # e => None(<<e, "nl">>, token)
         /\ \A token : None(<<>>, token)
  BY DEF None, Token

LEMMA MineIs ==
  ASSUME Mine
  PROVE  /\ program.kind = kind /\ program.scheme = i /\ program.ours = TRUE
         /\ Rounds = CASE kind = "test" -> 3 * NTESTS
                       [] kind = "nistkat" -> counts
                       [] OTHER -> 1
         /\ Rounds \in Nat
  BY RunnerAssumption DEF Mine, New, Rounds

LEMMA StillRunning ==
  ASSUME Types, NEW o \in Seq(Token), Payload(o), at \in {"opening", "body", "closing"}
  PROVE  /\ None(o, "$") /\ faulted = FALSE
         /\ at # "closing" => None(o, Hash[i])
  BY DEF Types, Payload, Truthful

(* What does not change while a program runs.                              *)
Same == UNCHANGED <<platform, kind, quiet, pc, i, x, line, program>>

LEMMA SameMine ==
  ASSUME Same
  PROVE  (Mine => Mine') /\ Rounds' = Rounds /\ Hash[i]' = Hash[i]
  BY DEF Same, Mine, New, Rounds, Hash

LEMMA OpeningTells ==
  ASSUME Types, NEW o \in Seq(Token), Payload(o), Opening,
         NEW w, w = o \o tx'
  PROVE  Payload(w)'
<1>1. /\ Same /\ at = "opening" /\ at' = "body" /\ rounds' = rounds /\ good' = good
      /\ faulted' = faulted /\ platform = "qemu" /\ tx' = <<>>
  BY DEF Opening, Step, Same, host, fixed, Payload, Types, SERIAL_MARKER
<1>2. w = o
  BY <1>1
<1>3. None(o, "$") /\ faulted = FALSE /\ None(o, Hash[i])
  BY <1>1, StillRunning
<1>4. Truthful(o)'
  BY <1>1, <1>3, SameMine DEF Payload, Truthful, Same
<1>5. Complete(o)'
  BY <1>1, <1>3 DEF Payload, Complete, Same
<1>6. Payload(o)'
  BY <1>1, <1>4, <1>5, SameMine DEF Payload, Same
<1>. QED  BY <1>2, <1>6

LEMMA TestRoundTells ==
  ASSUME Types, NEW o \in Seq(Token), Payload(o), NEW right \in BOOLEAN,
         TestRound(right), NEW w, w = o \o tx'
  PROVE  Payload(w)'
<1>. DEFINE s == tx'
<1>1. /\ Same /\ at = "body" /\ at' = "body" /\ rounds' = rounds + 1 /\ rounds < Rounds
      /\ faulted' = faulted /\ program.kind # "nistkat"
      /\ s = IF right THEN <<"OK", "nl">>
             ELSE IF program.kind = "stack" THEN <<>> ELSE <<"ERROR", "nl">>
  BY DEF TestRound, Step, Same, host, fixed
<1>2. good' = (good /\ right)
  BY DEF TestRound
<1>3. /\ right = TRUE => good' = good
      /\ right = FALSE => good' = FALSE
  BY <1>2 DEF Types
<1>4. /\ None(o, "$") /\ faulted = FALSE /\ None(o, Hash[i]) /\ kind # "nistkat"
      /\ Count(o, "OK") \in Nat /\ rounds \in Nat
  BY <1>1, StillRunning, MineIs, CountType DEF Types, Payload
<1>5. /\ s \in Seq(Token) /\ w \in Seq(Token) /\ None(s, "$") /\ None(s, Hash[i])
      /\ Count(w, "OK") = Count(o, "OK") + (IF right THEN 1 ELSE 0)
  <2>1. "OK" \in Token /\ "ERROR" \in Token /\ o \o <<>> = o
    BY DEF Token
  <2>2. CASE right
    <3>1. s = <<"OK", "nl">>
      BY <1>1, <2>2
    <3>. QED  BY <2>1, <2>2, <3>1, TextIs, CountText, HashIs DEF Types
  <2>3. CASE ~ right /\ program.kind = "stack"
    <3>1. s = <<>> /\ w = o
      BY <1>1, <2>1, <2>3
    <3>2. s \in Seq(Token) /\ None(s, "$") /\ None(s, Hash[i])
      BY <2>1, <3>1, TextIs
    <3>. QED  BY <2>3, <3>1, <3>2, <1>4
  <2>4. CASE ~ right /\ program.kind # "stack"
    <3>1. s = <<"ERROR", "nl">>
      BY <1>1, <2>4
    <3>2. Count(w, "OK") = Count(o, "OK") + 0
      BY <2>1, <3>1, CountText
    <3>. QED  BY <2>1, <2>4, <3>1, <3>2, TextIs, CountText, HashIs DEF Types
  <2>. QED  BY <2>2, <2>3, <2>4
<1>6. None(w, "$") /\ None(w, Hash[i])
  BY <1>4, <1>5, NoneIn
<1>7. platform = "board" /\ good = TRUE => Len(w) >= 1 /\ w[1] = "nl"
  <2>1. SUFFICES ASSUME platform = "board", good = TRUE
                 PROVE  Len(w) >= 1 /\ w[1] = "nl"
    OBVIOUS
  <2>2. Len(o) >= 1 /\ o[1] = "nl"
    BY <1>4, <2>1 DEF Payload, Complete
  <2>3. 1 \in DOMAIN o /\ Len(w) = Len(o) + Len(s) /\ Len(s) \in Nat
    BY <1>5, <2>2
  <2>4. w[1] = o[1]
    BY <1>5, <2>3, Joined
  <2>. QED  BY <2>2, <2>3, <2>4
<1>. HIDE DEF s
<1>8. Rounds' = Rounds /\ Hash[i]' = Hash[i] /\ Mine' /\ Rounds \in Nat /\ kind' = kind
      /\ platform' = platform
  BY <1>1, SameMine, MineIs DEF Payload, Same
<1>9. Truthful(w)'
  <2>1. Count(o, "OK") <= rounds /\ (Count(o, "OK") = rounds => good = TRUE)
    BY <1>4 DEF Payload, Truthful
  <2>2. Count(w, "OK") <= rounds' /\ (Count(w, "OK") = rounds' => good' = TRUE)
    BY <1>1, <1>3, <1>4, <1>5, <2>1
  <2>3. faulted' = FALSE /\ rounds' <= Rounds'
    BY <1>1, <1>4, <1>8
  <2>. QED  BY <1>6, <1>8, <2>2, <2>3 DEF Truthful
<1>10. Complete(w)'
  <2>1. SUFFICES ASSUME good' = TRUE PROVE Complete(w)'
    BY DEF Complete
  <2>2. right = TRUE /\ good = TRUE
    BY <1>3, <2>1
  <2>3. Count(o, "OK") = rounds
    BY <1>4, <2>2 DEF Payload, Complete
  <2>4. Count(w, "OK") = rounds'
    BY <1>1, <1>5, <2>2, <2>3
  <2>. QED  BY <1>1, <1>4, <1>7, <1>8, <2>2, <2>4 DEF Complete
<1>11. LastMarker(w)
  BY <1>6, NoMarker
<1>. QED  BY <1>1, <1>8, <1>9, <1>10, <1>11 DEF Payload

LEMMA VectorTells ==
  ASSUME Types, NEW o \in Seq(Token), Payload(o), NEW right \in BOOLEAN,
         Vector(right), NEW w, w = o \o tx'
  PROVE  Payload(w)'
<1>1. /\ Same /\ at = "body" /\ at' = "body" /\ rounds' = rounds + 1 /\ rounds < Rounds
      /\ faulted' = faulted /\ program.kind = "nistkat" /\ tx' = <<>>
  BY DEF Vector, Step, Same, host, fixed
<1>2. good' = (good /\ right)
  BY DEF Vector
<1>3. good' = TRUE => good = TRUE
  BY <1>2 DEF Types
<1>4. /\ None(o, "$") /\ faulted = FALSE /\ None(o, Hash[i]) /\ kind = "nistkat"
      /\ rounds \in Nat /\ w = o
  <2>1. w = o
    BY <1>1, JoinEmpty
  <2>. QED  BY <1>1, <2>1, StillRunning, MineIs DEF Types, Payload
<1>5. Rounds' = Rounds /\ Hash[i]' = Hash[i] /\ Mine' /\ Rounds \in Nat /\ kind' = kind
      /\ platform' = platform
  BY <1>1, SameMine, MineIs DEF Payload, Same
<1>6. Truthful(o)'
  BY <1>1, <1>4, <1>5 DEF Truthful
<1>7. Complete(o)'
  BY <1>1, <1>3, <1>4, <1>5 DEF Payload, Complete
<1>8. Payload(o)'
  BY <1>1, <1>4, <1>5, <1>6, <1>7, NoMarker DEF Payload
<1>. QED  BY <1>4, <1>8

LEMMA VectorFailsTells ==
  ASSUME Types, NEW o \in Seq(Token), Payload(o), VectorFails,
         NEW w, w = o \o tx'
  PROVE  Payload(w)'
<1>1. /\ Same /\ at = "body" /\ at' = "off" /\ rounds' = rounds /\ rounds < Rounds
      /\ faulted' = faulted /\ program.kind = "nistkat" /\ tx' = <<"ERROR", "nl">>
      /\ good' = FALSE
  BY DEF VectorFails, Step, Same, host, fixed
<1>2. /\ None(o, "$") /\ faulted = FALSE /\ None(o, Hash[i]) /\ kind = "nistkat"
      /\ rounds \in Nat
  BY <1>1, StillRunning, MineIs DEF Types, Payload
<1>3. tx' \in Seq(Token) /\ None(tx', "$") /\ None(tx', Hash[i])
  <2>1. "ERROR" \in Token
    BY DEF Token
  <2>. QED  BY <1>1, <2>1, TextIs, HashIs DEF Types
<1>4. None(w, "$") /\ None(w, Hash[i])
  BY <1>2, <1>3, NoneIn
<1>5. Rounds' = Rounds /\ Hash[i]' = Hash[i] /\ Mine' /\ Rounds \in Nat /\ kind' = kind
      /\ platform' = platform
  BY <1>1, SameMine, MineIs DEF Payload, Same
<1>6. Truthful(w)'
  BY <1>1, <1>2, <1>4, <1>5 DEF Truthful
<1>7. Complete(w)'
  BY <1>1 DEF Complete
<1>. QED  BY <1>1, <1>4, <1>5, <1>6, <1>7, NoMarker DEF Payload

LEMMA HashSent ==
  ASSUME NEW o \in Seq(Token), AllNewlines(o), i \in 1 .. 3
  PROVE  OneHash(o \o <<Hash[i], "nl">>)
<1>. DEFINE w == o \o <<Hash[i], "nl">>
            m == Len(o) + 1
<1>1. /\ DOMAIN o = 1 .. Len(o) /\ Len(o) \in Nat /\ DOMAIN w = 1 .. m + 1
      /\ w[m] = Hash[i] /\ w[m + 1] = "nl" /\ \A l \in 1 .. Len(o) : w[l] = o[l]
  BY HashIs
<1>. HIDE DEF w
<1>2. \A l \in DOMAIN w : l # m => w[l] = "nl"
  BY <1>1 DEF AllNewlines
<1>3. OneHash(w)
  BY <1>1, <1>2 DEF OneHash
<1>. QED  BY <1>3 DEF w

LEMMA HashClosed ==
  ASSUME NEW o \in Seq(Token), OneHash(o), i \in 1 .. 3
  PROVE  OneHash(o \o Marker)
<1>. DEFINE w == o \o Marker
            m == Len(o)
<1>1. /\ DOMAIN o = 1 .. m /\ m \in Nat /\ DOMAIN w = 1 .. m + 2
      /\ w[m + 1] = "$" /\ w[m + 2] = "nl" /\ \A l \in 1 .. m : w[l] = o[l]
  BY DEF Marker
<1>. HIDE DEF w
<1>2. PICK j \in DOMAIN o : o[j] = Hash[i] /\ \A l \in DOMAIN o : l # j => o[l] \in {"nl", "$"}
  BY DEF OneHash
<1>3. j \in DOMAIN w /\ w[j] = Hash[i]
  BY <1>1, <1>2
<1>4. \A l \in DOMAIN w : l # j => w[l] \in {"nl", "$"}
  BY <1>1, <1>2
<1>5. OneHash(w)
  BY <1>3, <1>4 DEF OneHash
<1>. QED  BY <1>5 DEF w

LEMMA FirstStays ==
  ASSUME NEW o \in Seq(Token), NEW s \in Seq(Token), Len(o) >= 1 /\ o[1] = "nl"
  PROVE  Len(o \o s) >= 1 /\ (o \o s)[1] = "nl"
  OBVIOUS

LEMMA BodyDoneTells ==
  ASSUME Types, NEW o \in Seq(Token), Payload(o), BodyDone, NEW w, w = o \o tx'
  PROVE  Payload(w)'
<1>. DEFINE s == tx'
<1>1. /\ Same /\ at = "body" /\ at' = "closing" /\ rounds' = rounds /\ rounds = Rounds
      /\ faulted' = faulted /\ good' = good
      /\ s = IF program.kind # "nistkat" THEN <<>>
             ELSE <<IF good THEN Hash[program.scheme] ELSE "otherhash", "nl">>
  BY DEF BodyDone, Step, Same, host, fixed
<1>2. /\ None(o, "$") /\ faulted = FALSE /\ None(o, Hash[i]) /\ rounds \in Nat
      /\ program.kind = kind /\ program.scheme = i /\ i \in 1 .. 3 /\ good \in BOOLEAN
  BY <1>1, StillRunning, MineIs DEF Types, Payload
<1>. DEFINE e == IF good THEN Hash[i] ELSE "otherhash"
<1>3. e \in Token /\ e # "$" /\ e # "nl" /\ (good = FALSE => e # Hash[i])
  BY <1>2, HashIs DEF Token
<1>4. /\ s \in Seq(Token) /\ None(s, "$")
      /\ s = IF kind # "nistkat" THEN <<>> ELSE <<e, "nl">>
      /\ ~ None(s, Hash[i]) => good = TRUE
  <2>1. s = IF kind # "nistkat" THEN <<>> ELSE <<e, "nl">>
    BY <1>1, <1>2
  <2>2. CASE kind # "nistkat"
    BY <1>3, <2>1, <2>2, TextIs
  <2>3. CASE kind = "nistkat"
    <3>1. s = <<e, "nl">>
      BY <2>1, <2>3
    <3>. HIDE DEF e, s
    <3>2. s \in Seq(Token) /\ None(s, "$")
      BY <1>3, <3>1, TextIs
    <3>3. good = FALSE => None(s, Hash[i])
      BY <1>2, <1>3, <3>1, TextIs, HashIs
    <3>. QED  BY <1>2, <2>1, <3>2, <3>3
  <2>. QED  BY <2>2, <2>3
<1>. HIDE DEF s
<1>5. None(w, "$") /\ (~ None(w, Hash[i]) => good = TRUE)
  BY <1>2, <1>4, NoneIn DEF s
<1>6. kind # "nistkat" => w = o
  BY <1>4, JoinEmpty DEF s
<1>7. Rounds' = Rounds /\ Hash[i]' = Hash[i] /\ Mine' /\ Rounds \in Nat /\ kind' = kind
      /\ platform' = platform /\ i' = i
  BY <1>1, SameMine, MineIs DEF Payload, Same
<1>8. Truthful(w)'
  BY <1>1, <1>2, <1>5, <1>6, <1>7 DEF Payload, Truthful
<1>9. Complete(w)'
  <2>1. SUFFICES ASSUME good = TRUE PROVE Complete(w)'
    BY <1>1 DEF Complete
  <2>2. kind = "nistkat" => OneHash(w)
    <3>1. kind = "nistkat" => AllNewlines(o)
      BY <1>1, <1>2, <2>1 DEF Payload, Complete
    <3>2. kind = "nistkat" => s = <<Hash[i], "nl">>
      BY <1>4, <2>1 DEF e
    <3>. QED  BY <1>2, <3>1, <3>2, HashSent DEF s
  <2>3. OneHash(w)' <=> OneHash(w)
    BY <1>7 DEF OneHash
  <2>4. platform = "board" => Len(w) >= 1 /\ w[1] = "nl"
    BY <1>2, <1>4, <2>1, FirstStays DEF Payload, Complete, s
  <2>5. kind # "nistkat" => Count(w, "OK") = rounds
    BY <1>2, <1>6, <2>1 DEF Payload, Complete
  <2>. QED  BY <1>1, <1>2, <1>7, <2>2, <2>3, <2>4, <2>5 DEF Complete
<1>. QED  BY <1>1, <1>5, <1>7, <1>8, <1>9, NoMarker DEF Payload

LEMMA ClosingTells ==
  ASSUME Types, NEW o \in Seq(Token), Payload(o), Closing, NEW w, w = o \o tx'
  PROVE  Payload(w)'
<1>. DEFINE s == tx'
<1>1. /\ Same /\ at = "closing" /\ at' = "off" /\ rounds' = rounds
      /\ faulted' = faulted /\ good' = good
      /\ s = IF platform = "board" THEN Marker ELSE <<>>
  BY DEF Closing, Step, Same, host, fixed, SERIAL_MARKER
<1>2. /\ None(o, "$") /\ faulted = FALSE /\ rounds \in Nat /\ i \in 1 .. 3
  BY <1>1, StillRunning DEF Types
<1>3. Marker \in Seq(Token) /\ Marker = <<"$", "nl">> /\ "$" \in Token
  BY DEF Marker, Token
<1>4. s \in Seq(Token) /\ None(s, Hash[i]) /\ None(s, "OK")
  BY <1>1, <1>2, <1>3, TextIs, HashIs
<1>5. /\ None(w, Hash[i]) <=> None(o, Hash[i])
      /\ Count(w, "OK") = Count(o, "OK")
      /\ LastMarker(w) /\ (~ None(w, "$") => platform = "board")
  <2>1. None(w, Hash[i]) <=> None(o, Hash[i])
    BY <1>4, NoneIn DEF s
  <2>2. CASE platform = "board"
    <3>1. w = o \o <<"$", "nl">>
      BY <1>1, <1>3, <2>2
    <3>2. Count(w, "OK") = Count(o, "OK") + 0
      BY <1>3, <3>1, CountText
    <3>3. Count(o, "OK") \in Nat
      BY CountType
    <3>4. LastMarker(w)
      BY <1>2, <1>3, <3>1, MarkerLast
    <3>. QED  BY <2>1, <2>2, <3>2, <3>3, <3>4
  <2>3. CASE platform # "board"
    <3>1. w = o
      BY <1>1, <2>3, JoinEmpty
    <3>. QED  BY <1>2, <3>1, NoMarker
  <2>. QED  BY <2>1, <2>2, <2>3
<1>6. Rounds' = Rounds /\ Hash[i]' = Hash[i] /\ Mine' /\ Rounds \in Nat /\ kind' = kind
      /\ platform' = platform /\ i' = i
  BY <1>1, SameMine, MineIs DEF Payload, Same
<1>7. Truthful(w)'
  BY <1>1, <1>2, <1>5, <1>6 DEF Payload, Truthful
<1>8. Complete(w)'
  <2>1. SUFFICES ASSUME good = TRUE PROVE Complete(w)'
    BY <1>1 DEF Complete
  <2>2. kind = "nistkat" => OneHash(w)
    <3>1. kind = "nistkat" => OneHash(o)
      BY <1>1, <1>2, <2>1 DEF Payload, Complete
    <3>2. s = Marker \/ w = o
      BY <1>1, JoinEmpty
    <3>. QED  BY <1>2, <3>1, <3>2, HashClosed DEF s
  <2>3. OneHash(w)' <=> OneHash(w)
    BY <1>6 DEF OneHash
  <2>4. platform = "board" => Len(w) >= 1 /\ w[1] = "nl"
    BY <1>2, <1>4, <2>1, FirstStays DEF Payload, Complete, s
  <2>5. /\ kind # "nistkat" => Count(w, "OK") = rounds
        /\ rounds = Rounds
    BY <1>1, <1>2, <1>5, <2>1 DEF Payload, Complete
  <2>. QED  BY <1>1, <1>2, <1>6, <2>2, <2>3, <2>4, <2>5 DEF Complete
<1>. QED  BY <1>1, <1>5, <1>6, <1>7, <1>8 DEF Payload

(* A fault takes back what has not been sent, and with QEMU says so.       *)
LEMMA FaultTells ==
  ASSUME Types, NEW a \in Seq(Token), NEW b \in Seq(Token), Payload(a \o b), Fault,
         NEW w, w = a \o tx'
  PROVE  Payload(w)'
<1>. DEFINE o == a \o b
            s == tx'
<1>1. /\ Same /\ at \in {"opening", "body", "closing"} /\ rounds' = rounds
      /\ faulted' = TRUE /\ good' = good
      /\ IF platform = "qemu" THEN at' = "off" /\ s = <<"HardFault_Handler", "nl">>
                              ELSE at' = "hung" /\ s = <<>>
  BY DEF Fault, Same, host, fixed
<1>2. o \in Seq(Token)
  OBVIOUS
<1>3. /\ None(o, "$") /\ (at # "closing" => None(o, Hash[i]))
      /\ rounds \in Nat /\ i \in 1 .. 3
  BY <1>1, <1>2, StillRunning DEF Types
<1>4. Truthful(o)
  BY DEF Payload
<1>. HIDE DEF o
<1>5. None(a, "$") /\ (~ None(a, Hash[i]) => rounds = Rounds /\ good = TRUE)
  <2>1. None(o, Hash[i]) => None(a, Hash[i])
    BY NoneIn DEF o
  <2>2. None(a, "$")
    BY <1>3, NoneIn DEF o
  <2>. QED  BY <1>4, <2>1, <2>2 DEF Truthful
<1>6. kind # "nistkat" =>
        Count(a, "OK") <= rounds /\ (Count(a, "OK") = rounds => good = TRUE)
  <2>1. Count(a, "OK") <= Count(o, "OK") /\ Count(a, "OK") \in Nat /\ Count(o, "OK") \in Nat
    BY <1>2, CountPart, CountType DEF o
  <2>. QED  BY <1>3, <1>4, <2>1 DEF Truthful
<1>7. /\ None(w, "$") /\ (~ None(w, Hash[i]) => rounds = Rounds /\ good = TRUE)
      /\ kind # "nistkat" =>
           Count(w, "OK") <= rounds /\ (Count(w, "OK") = rounds => good = TRUE)
      /\ platform = "qemu" => ~ None(w, "HardFault_Handler")
  <2>1. CASE platform = "qemu"
    <3>1. s = <<"HardFault_Handler", "nl">> /\ "HardFault_Handler" \in Token
      BY <1>1, <2>1 DEF Token
    <3>2. s \in Seq(Token) /\ None(s, "$") /\ None(s, Hash[i])
      BY <1>3, <3>1, TextIs, HashIs
    <3>3. ~ None(s, "HardFault_Handler")
      <4>1. 1 \in DOMAIN s /\ s[1] = "HardFault_Handler"
        BY <3>1
      <4>. QED  BY <4>1 DEF None
    <3>4. Count(w, "OK") = Count(a, "OK") + 0 /\ Count(a, "OK") \in Nat
      BY <3>1, CountText, CountType
    <3>. HIDE DEF s
    <3>. QED  BY <1>5, <1>6, <3>2, <3>3, <3>4, NoneIn DEF s
  <2>2. CASE platform # "qemu"
    <3>1. w = a
      BY <1>1, <2>2, JoinEmpty
    <3>. QED  BY <1>5, <1>6, <2>2, <3>1
  <2>. QED  BY <2>1, <2>2
<1>8. Rounds' = Rounds /\ Hash[i]' = Hash[i] /\ Mine' /\ kind' = kind
      /\ platform' = platform /\ platform \in {"board", "qemu"}
  BY <1>1, SameMine DEF Payload, Same, Types
<1>9. Truthful(w)'
  BY <1>1, <1>3, <1>4, <1>7, <1>8 DEF Truthful
<1>10. Complete(w)'
  BY <1>1 DEF Complete
<1>. QED  BY <1>1, <1>7, <1>8, <1>9, <1>10, NoMarker DEF Payload
--------------------------------------------------------------------------------
(* Steps of the program on the board, and what they leave to the host.     *)

Program == \/ Opening
           \/ \E right \in BOOLEAN : TestRound(right) \/ Vector(right)
           \/ VectorFails \/ BodyDone \/ Closing \/ Fault

LEMMA ProgramSends ==
  ASSUME Types, Program
  PROVE  /\ Same /\ tx' \in Seq(Token) /\ Types'
         /\ Fault \/ tx = <<>>
         /\ at \in {"opening", "body", "closing"}
         /\ at' = "opening" => at = "opening"
<1>. USE DEF Same, host, fixed
<1>1. \A e \in Token : <<e, "nl">> \in Seq(Token)
  BY TextIs
<1>2. <<>> \in Seq(Token) /\ Marker \in Seq(Token)
      /\ {"$", "nl", "OK", "ERROR", "otherhash", "HardFault_Handler"} \subseteq Token
  BY DEF Marker, Token
<1>3. Hash[program.scheme] \in Token
  <2>1. program.scheme \in 1 .. 3
    BY DEF Types
  <2>. QED  BY <2>1 DEF Hash, Token
<1>. DEFINE Result ==
       /\ Same /\ tx' \in Seq(Token) /\ at' \in Stages /\ rounds' \in Nat
       /\ good' \in BOOLEAN /\ faulted' \in BOOLEAN
       /\ Fault \/ tx = <<>>
       /\ at \in {"opening", "body", "closing"}
       /\ at' = "opening" => at = "opening"
<1>4. SUFFICES Result
  BY DEF Types
<1>5. CASE Opening
  BY <1>2, <1>5 DEF Opening, Step, SERIAL_MARKER, Types, Stages, Sending
<1>6. ASSUME NEW right \in BOOLEAN, TestRound(right)
      PROVE  Result
  <2>1. tx' = <<"OK", "nl">> \/ tx' = <<>> \/ tx' = <<"ERROR", "nl">>
    BY <1>6 DEF TestRound, Step
  <2>2. tx' \in Seq(Token)
    BY <1>1, <1>2, <2>1
  <2>. QED  BY <1>6, <2>2 DEF TestRound, Step, Types, Stages, Sending
<1>7. ASSUME NEW right \in BOOLEAN, Vector(right)
      PROVE  Result
  BY <1>2, <1>7 DEF Vector, Step, Types, Stages, Sending
<1>8. CASE VectorFails
  <2>1. tx' \in Seq(Token)
    BY <1>1, <1>2, <1>8 DEF VectorFails, Step
  <2>. QED  BY <1>8, <2>1 DEF VectorFails, Step, Types, Stages, Sending
<1>9. CASE BodyDone
  <2>1. tx' \in Seq(Token)
    <3>1. PICK e \in Token : tx' = <<>> \/ tx' = <<e, "nl">>
      BY <1>2, <1>3, <1>9 DEF BodyDone, Step
    <3>. QED  BY <1>1, <1>2, <3>1
  <2>. QED  BY <1>9, <2>1 DEF BodyDone, Step, Types, Stages, Sending
<1>10. CASE Closing
  BY <1>2, <1>10 DEF Closing, Step, SERIAL_MARKER, Types, Stages, Sending
<1>11. CASE Fault
  <2>1. tx' \in Seq(Token)
    BY <1>1, <1>2, <1>11 DEF Fault
  <2>. QED  BY <1>11, <2>1 DEF Fault, Types, Stages
<1>. QED  BY <1>5, <1>6, <1>7, <1>8, <1>9, <1>10, <1>11 DEF Program

(* The part a of what came has been sent, tx is being sent.                *)
LEMMA ProgramTells ==
  ASSUME Types, NEW a \in Seq(Token), Payload(a \o tx), Program, NEW w, w = a \o tx'
  PROVE  Payload(w)'
<1>1. CASE Fault
  BY <1>1, FaultTells DEF Types
<1>2. CASE ~ Fault
  <2>1. Payload(a)
    BY <1>2, ProgramSends, JoinEmpty
  <2>. QED  BY <1>2, <2>1, OpeningTells, TestRoundTells, VectorTells, VectorFailsTells,
               BodyDoneTells, ClosingTells DEF Program
<1>. QED  BY <1>1, <1>2

(* A program that has just begun.                                          *)
LEMMA Begins ==
  ASSUME Types', Mine', (rounds = 0 /\ good = TRUE /\ faulted = FALSE)',
         NEW o, o \in {<<>>, <<"nl">>},
         (IF platform = "board" THEN at = "body" /\ o = <<"nl">> ELSE at = "opening")'
  PROVE  Payload(o)'
<1>1. /\ o \in Seq(Token) /\ None(o, "OK") /\ None(o, "$") /\ AllNewlines(o)
      /\ o = <<"nl">> => Len(o) >= 1 /\ o[1] = "nl"
  <2>1. "nl" \in Token
    BY DEF Token
  <2>2. CASE o = <<>>
    BY <2>2 DEF None, AllNewlines
  <2>3. CASE o = <<"nl">>
    <3>1. o \in Seq(Token) /\ Len(o) = 1 /\ DOMAIN o = {1} /\ o[1] = "nl"
      BY <2>1, <2>3
    <3>. QED  BY <3>1 DEF None, AllNewlines
  <2>. QED  BY <2>2, <2>3
<1>2. Count(o, "OK") = 0
  BY <1>1, CountNone
<1>3. (None(o, Hash[i]))'
  <2>1. Hash[i]' = Hash[i'] /\ i' \in 1 .. 3
    BY DEF Types, Hash
  <2>2. Hash[i]' # "nl"
    BY <2>1 DEF Hash
  <2>. QED  BY <1>1, <2>2 DEF None, AllNewlines
<1>4. Rounds' \in Nat
  BY RunnerAssumption DEF Rounds
<1>5. Truthful(o)'
  BY <1>1, <1>2, <1>3, <1>4 DEF Truthful
<1>6. Complete(o)'
  BY <1>1, <1>2 DEF Complete, Types
<1>. QED  BY <1>1, <1>5, <1>6, NoMarker DEF Payload, Types

LEMMA ProgramSendsOn ==
  ASSUME Types, platform = "board", NEW a \in Seq(Token), Sent(a \o tx), Program,
         NEW w, w = a \o tx'
  PROVE  Sent(w)'
<1>1. Same /\ tx \in Seq(Token) /\ tx' \in Seq(Token) /\ Types'
  BY ProgramSends DEF Types
<1>2. CASE a \o tx = <<>>
  <2>1. a = <<>> /\ tx = <<>> /\ w = tx'
    BY <1>1, <1>2, JoinEmpty, HeadTail
  <2>2. Mine /\ (at = "hung" \/ (at = "opening" /\ rounds = 0 /\ good = TRUE /\ faulted = FALSE))
    BY <1>2 DEF Sent
  <2>3. at = "opening" /\ rounds = 0 /\ good = TRUE /\ faulted = FALSE
    BY <2>2, ProgramSends
  <2>4. CASE Fault
    BY <1>1, <2>1, <2>2, <2>4, SameMine DEF Fault, Sent
  <2>5. CASE Opening
    <3>1. /\ tx' = Marker /\ rounds' = 0 /\ good' = TRUE /\ faulted' = FALSE /\ at' = "body"
          /\ platform' = "board"
      BY <1>1, <2>3, <2>5 DEF Opening, Step, SERIAL_MARKER, Same
    <3>2. Mine'
      BY <1>1, <2>2, SameMine
    <3>3. /\ Marker # <<>> /\ Marker[1] = "$" /\ Tail(Marker) = <<"nl">>
      BY DEF Marker
    <3>4. Payload(<<"nl">>)'
      BY <1>1, <3>1, <3>2, Begins
    <3>. QED  BY <2>1, <3>1, <3>3, <3>4 DEF Sent
  <2>. QED  BY <2>3, <2>4, <2>5 DEF Program, TestRound, Vector, VectorFails, BodyDone,
               Closing, Step
<1>3. CASE a # <<>>
  <2>1. /\ a[1] = "$" /\ Payload(Tail(a) \o tx) /\ Tail(a) \in Seq(Token)
    BY <1>1, <1>3, HeadTail, TailIn DEF Sent
  <2>2. w # <<>> /\ w[1] = "$" /\ Tail(w) = Tail(a) \o tx'
    BY <1>1, <1>3, <2>1, HeadTail
  <2>3. Payload(Tail(w))'
    <3>. DEFINE v == Tail(a) \o tx'
    <3>1. ASSUME NEW u, u = Tail(a) \o tx' PROVE Payload(u)'
      BY <2>1, <3>1, ProgramTells
    <3>. QED  BY <2>2, <3>1
  <2>. QED  BY <2>2, <2>3 DEF Sent
<1>4. CASE a = <<>> /\ tx # <<>>
  <2>1. Fault /\ Mine
    BY <1>1, <1>4, ProgramSends, JoinEmpty DEF Sent, Payload
  <2>2. at' = "hung" /\ tx' = <<>>
    BY <2>1 DEF Fault
  <2>3. w = <<>>
    BY <1>4, <2>2
  <2>. QED  BY <1>1, <2>1, <2>2, <2>3, SameMine DEF Sent
<1>. QED  BY <1>1, <1>2, <1>3, <1>4, JoinEmpty

(* A step by which nothing strays onto the line.                           *)
Quiet == stray' = FALSE

LEMMA NotStarted ==
  ASSUME platform = "board", at = "opening", ~ Mine, Program, Quiet
  PROVE  Fault
<1>1. Opening => stray' # FALSE
  BY DEF Opening
<1>. QED  BY <1>1 DEF Quiet, Program, TestRound, Vector, VectorFails, BodyDone, Closing, Step

(* An earlier program goes on.                                             *)
LEMMA EarlierGoesOn ==
  ASSUME Types, platform = "board", Earlier, Program, Quiet
  PROVE  Earlier'
<1>0. CASE at = "opening"
  <2>1. Fault /\ line \in Seq(Token) /\ tx \in Seq(Token)
    BY <1>0, NotStarted DEF Earlier, Types
  <2>2. line' = line /\ tx' = <<>> /\ at' = "hung"
    BY <2>1 DEF Fault
  <2>3. LastMarker(line) /\ line \o <<>> = line
    BY <2>1, LastMarkerIn, JoinEmpty DEF Earlier, Unread
  <2>. QED  BY <2>2, <2>3 DEF Earlier, Unread
<1>. SUFFICES ASSUME at # "opening" PROVE Earlier'
  BY <1>0
<1>1. /\ Same /\ tx' \in Seq(Token) /\ line \in Seq(Token) /\ at \in {"body", "closing"}
      /\ tx \in Seq(Token) /\ line' = line /\ at' # "opening"
  BY ProgramSends DEF Types, Earlier, Same
<1>2. None(line, "$")
  BY <1>1, NoneIn DEF Earlier, Unread
<1>3. CASE Closing
  <2>1. tx' = Marker /\ at' = "off"
    BY <1>3 DEF Closing, Step, SERIAL_MARKER
  <2>2. LastMarker(line \o tx')
    BY <1>1, <1>2, <2>1, MarkerLast
  <2>. QED  BY <1>1, <2>1, <2>2 DEF Earlier, Unread
<1>4. CASE ~ Closing
  <2>1. None(tx', "$")
    <3>1. \A e \in Token : e # "$" => None(<<e, "nl">>, "$") /\ None(<<>>, "$")
      BY TextIs
    <3>2. {"nl", "OK", "ERROR", "otherhash"} \subseteq Token
      BY DEF Token
    <3>3. Hash[program.scheme] \in Token \ {"$"}
      <4>1. program.scheme \in 1 .. 3
        BY DEF Types
      <4>. QED  BY <4>1 DEF Hash, Token
    <3>4. PICK e \in Token \ {"$"} : tx' = <<>> \/ tx' = <<e, "nl">>
      <4>1. CASE Fault
        BY <3>2, <4>1 DEF Fault
      <4>2. CASE BodyDone
        BY <3>2, <3>3, <4>2 DEF BodyDone, Step
      <4>3. CASE VectorFails
        BY <3>2, <4>3 DEF VectorFails, Step
      <4>4. ASSUME NEW right \in BOOLEAN, TestRound(right) \/ Vector(right)
            PROVE  \E e \in Token \ {"$"} : tx' = <<>> \/ tx' = <<e, "nl">>
        BY <3>2, <4>4 DEF TestRound, Vector, Step
      <4>. QED  BY <1>1, <1>4, <4>1, <4>2, <4>3, <4>4 DEF Program, Opening, Step
    <3>. QED  BY <3>1, <3>4
  <2>2. None(line \o tx', "$")
    BY <1>1, <1>2, <2>1, NoneIn
  <2>. QED  BY <1>1, <2>2, NoMarker DEF Earlier, Unread
<1>. QED  BY <1>3, <1>4
--------------------------------------------------------------------------------
(* What has been said of a sequence holds after a step of what is equal to *)
(* it then.                                                                *)

LEMMA SaidOfUnread ==
  ASSUME NEW w, Payload(w)', w = (line \o tx)'
  PROVE  Payload(Unread)'
  BY DEF Payload, Truthful, Complete, Unread

LEMMA SaidOfAll ==
  ASSUME NEW w, Payload(w)', w = (x \o (line \o tx))'
  PROVE  Payload(x \o Unread)'
  BY DEF Payload, Truthful, Complete, Unread

LEMMA SaidOfRead ==
  ASSUME NEW w, Payload(w)', w = x'
  PROVE  Payload(x)'
  BY DEF Payload, Truthful, Complete

LEMMA SaidOfSent ==
  ASSUME NEW sent, NEW w, Sent(w)', w = sent \o tx'
  PROVE  Sent(sent \o tx)'
<1>1. CASE w = <<>>
  BY <1>1 DEF Sent
<1>2. CASE w # <<>>
  <2>1. w[1] = "$" /\ Payload(Tail(w))'
    BY <1>2 DEF Sent
  <2>2. (Payload(Tail(sent \o tx)))'
    BY <2>1 DEF Payload, Truthful, Complete
  <2>. QED  BY <1>2, <2>1, <2>2 DEF Sent
<1>. QED  BY <1>1, <1>2

(* A step of the host leaves the board alone until it has checked.         *)
Still == UNCHANGED <<platform, kind, quiet, i, program, at, rounds, good, faulted>>

LEMMA StillSaid ==
  ASSUME Still, NEW o
  PROVE  (Payload(o) => Payload(o)') /\ (Sent(o) => Sent(o)')
<1>1. Payload(o) => Payload(o)'
  BY DEF Still, Payload, Mine, New, Truthful, Complete, OneHash, Rounds
<1>2. ASSUME NEW u PROVE Payload(u) => Payload(u)'
  BY DEF Still, Payload, Mine, New, Truthful, Complete, OneHash, Rounds
<1>3. Sent(o) => Sent(o)'
  BY <1>2 DEF Sent, Still, Mine, New
<1>. QED  BY <1>1, <1>3

LEMMA FlashedStays ==
  ASSUME NEW stale \in Seq(Token), NEW sent \in Seq(Token),
         line' = stale \o sent, NEW w, Sent(w)', w = sent \o tx', LastMarker(stale),
         (quiet = TRUE \/ i > 1)' => None(stale, "$")
  PROVE  Flashed'
<1>1. Sent(sent \o tx)'
  BY SaidOfSent
<1>. QED  BY <1>1 DEF Flashed

LEMMA MisledStays ==
  ASSUME NEW stale \in Seq(Token), NEW sent \in Seq(Token),
         line' = stale \o sent, NEW w, Sent(w)', w = sent \o tx', AllNewlines(stale),
         quiet' = FALSE, AllNewlines(x')
  PROVE  Misled'
<1>1. Sent(sent \o tx)'
  BY SaidOfSent
<1>. QED  BY <1>1 DEF Misled

--------------------------------------------------------------------------------
(* The invariant, step by step: the board.                                 *)

LEMMA ProgramKeeps ==
  ASSUME Told, Program, Quiet
  PROVE  Told'
<1>1. Types /\ Same /\ Types' /\ at \in {"opening", "body", "closing"}
      /\ x \in Seq(Token) /\ line \in Seq(Token) /\ tx \in Seq(Token) /\ tx' \in Seq(Token)
  BY ProgramSends DEF Told, Types
<1>. USE DEF Same
<1>2. Payload(x \o Unread) => Payload(x \o Unread)'
  <2>1. SUFFICES ASSUME Payload(x \o Unread) PROVE Payload(x \o Unread)'
    OBVIOUS
  <2>2. Payload((x \o line) \o tx) /\ x \o line \in Seq(Token)
    <3>1. x \o line \in Seq(Token)
      BY <1>1, Joined
    <3>2. (x \o line) \o tx = x \o (line \o tx)
      BY ONLY <1>1, Associative, SMTT(30)
    <3>3. Payload(x \o (line \o tx))
      BY <2>1 DEF Unread
    <3>. QED  BY <3>1, <3>2, <3>3
  <2>3. ASSUME NEW w, w = (x \o line) \o tx' PROVE Payload(w)'
    BY <1>1, <2>2, <2>3, ProgramTells
  <2>4. (x \o line) \o tx' = (x \o (line \o tx))'
    BY <1>1, Associative
  <2>. QED  BY <2>3, <2>4, SaidOfAll
<1>3. OnBoard'
  <2>1. SUFFICES ASSUME platform = "board" PROVE OnBoard'
    BY <1>1 DEF OnBoard
  <2>2. pc = "start" =>
          (~ Mine /\ Earlier /\ (quiet = TRUE \/ i > 1 => at = "off" /\ None(Unread, "$")))'
    <3>1. ~ Mine => ~ Mine'
      BY <1>1 DEF Mine, New
    <3>. QED  BY <1>1, <2>1, <3>1, EarlierGoesOn DEF Told, OnBoard
  <2>3. pc = "marker" => (Earlier \/ Flashed)'
    <3>1. Earlier => Earlier'
      BY <1>1, <2>1, EarlierGoesOn
    <3>2. Flashed => Flashed'
      <4>1. SUFFICES ASSUME Flashed PROVE Flashed'
        OBVIOUS
      <4>2. PICK stale \in Seq(Token), sent \in Seq(Token) :
              /\ line = stale \o sent /\ Sent(sent \o tx)
              /\ LastMarker(stale) /\ (quiet = TRUE \/ i > 1 => None(stale, "$"))
        BY <4>1 DEF Flashed
      <4>3. ASSUME NEW w, w = sent \o tx' PROVE Sent(w)'
        BY <1>1, <2>1, <4>2, <4>3, ProgramSendsOn
      <4>. QED  BY <1>1, <4>2, <4>3, FlashedStays
    <3>. QED  BY <2>1, <3>1, <3>2 DEF Told, OnBoard
  <2>4. pc = "payload" => (Ended \/ Misled \/ Payload(x \o Unread))'
    <3>1. Misled => Misled'
      <4>1. SUFFICES ASSUME Misled PROVE Misled'
        OBVIOUS
      <4>2. PICK stale \in Seq(Token), sent \in Seq(Token) :
              line = stale \o sent /\ Sent(sent \o tx) /\ AllNewlines(stale)
        BY <4>1 DEF Misled
      <4>3. ASSUME NEW w, w = sent \o tx' PROVE Sent(w)'
        BY <1>1, <2>1, <4>2, <4>3, ProgramSendsOn
      <4>4. quiet' = FALSE /\ AllNewlines(x')
        BY <1>1, <4>1 DEF Misled
      <4>. QED  BY <1>1, <4>2, <4>3, <4>4, MisledStays
    <3>2. Ended => Ended'
      <4>1. SUFFICES ASSUME Ended PROVE Ended'
        OBVIOUS
      <4>2. Fault
        BY <1>1, <2>1, <4>1, NotStarted DEF Ended
      <4>3. line' = line /\ tx' = <<>> /\ at' = "hung"
        BY <2>1, <4>2 DEF Fault
      <4>4. None(line, "$") /\ line \o <<>> = line
        BY <1>1, <4>1, NoneIn, JoinEmpty DEF Ended, Unread
      <4>. QED  BY <4>3, <4>4 DEF Ended, Unread
    <3>. QED  BY <1>2, <2>1, <3>1, <3>2 DEF Told, OnBoard
  <2>5. pc = "check" =>
          (Closed(x) /\ ((quiet = FALSE /\ NothingElse) \/ Payload(x \o Unread)))'
    <3>1. (Closed(x) => Closed(x)') /\ (NothingElse => NothingElse')
      BY <1>1 DEF Closed, NothingElse
    <3>. QED  BY <1>1, <1>2, <2>1, <3>1 DEF Told, OnBoard
  <2>. QED  BY <1>1, <2>1, <2>2, <2>3, <2>4, <2>5 DEF Told, OnBoard
<1>4. InQemu'
  <2>1. SUFFICES ASSUME platform = "qemu" PROVE InQemu'
    BY <1>1 DEF InQemu
  <2>2. pc = "wait" /\ Payload(line \o tx)
    BY <1>1, <2>1 DEF Told, InQemu, Unread
  <2>3. ASSUME NEW w, w = line \o tx' PROVE Payload(w)'
    BY <1>1, <2>2, <2>3, ProgramTells
  <2>4. Payload(Unread)'
    BY <1>1, <2>3, SaidOfUnread
  <2>. QED  BY <1>1, <2>2, <2>4 DEF InQemu
<1>5. Failed'
  BY <1>1 DEF Told, Failed
<1>. QED  BY <1>1, <1>3, <1>4, <1>5 DEF Told

LEMMA TransmitKeeps ==
  ASSUME Told, Transmit
  PROVE  Told'
<1>1. /\ Types /\ Still /\ pc' = pc /\ x' = x /\ tx # <<>>
      /\ line' = Append(line, Head(tx)) /\ tx' = Tail(tx)
      /\ x \in Seq(Token) /\ line \in Seq(Token) /\ tx \in Seq(Token)
  BY DEF Told, Types, Transmit, Sending, Still, host, board, fixed
<1>2. /\ line' \in Seq(Token) /\ tx' \in Seq(Token) /\ (line \o tx)' = line \o tx
      /\ Unread' = Unread
  BY <1>1, Moved DEF Unread
<1>3. Types'
  BY <1>1, <1>2 DEF Types, Still
<1>4. Payload(x \o Unread) => Payload(x \o Unread)'
  <2>1. ASSUME NEW w, w = x \o (line \o tx), Payload(w) PROVE Payload(x \o Unread)'
    BY <1>1, <1>2, <2>1, StillSaid, SaidOfAll
  <2>. QED  BY <2>1 DEF Unread
<1>5. OnBoard'
  <2>1. SUFFICES ASSUME platform = "board" PROVE OnBoard'
    BY <1>1 DEF OnBoard, Still
  <2>2. (Earlier => Earlier') /\ (~ Mine => ~ Mine')
    BY <1>1, <1>2 DEF Earlier, Mine, New, Still
  <2>3. Ended => Ended'
    BY <1>1, <1>2 DEF Ended, Mine, New, Still
  <2>4. ASSUME NEW stale \in Seq(Token), NEW sent \in Seq(Token),
               line = stale \o sent, Sent(sent \o tx)
        PROVE  \E more \in Seq(Token) :
                 line' = stale \o more /\ \A w : w = more \o tx' => Sent(w)'
    <3>. DEFINE more == Append(sent, Head(tx))
    <3>1. more \in Seq(Token) /\ more \o tx' = sent \o tx
      BY <1>1, Moved
    <3>2. line' = stale \o more
      BY <1>1, <2>4, SMTT(30)
    <3>. HIDE DEF more
    <3>3. ASSUME NEW w, w = more \o tx' PROVE Sent(w)'
      BY <1>1, <2>4, <3>1, <3>3, StillSaid
    <3>. QED  BY <3>1, <3>2, <3>3
  <2>5. Flashed => Flashed'
    <3>1. SUFFICES ASSUME Flashed PROVE Flashed'
      OBVIOUS
    <3>2. PICK stale \in Seq(Token), sent \in Seq(Token) :
            /\ line = stale \o sent /\ Sent(sent \o tx)
            /\ LastMarker(stale) /\ (quiet = TRUE \/ i > 1 => None(stale, "$"))
      BY <3>1 DEF Flashed
    <3>3. PICK more \in Seq(Token) :
            line' = stale \o more /\ \A w : w = more \o tx' => Sent(w)'
      BY <2>4, <3>2
    <3>. QED  BY <1>1, <3>2, <3>3, FlashedStays DEF Still
  <2>6. Misled => Misled'
    <3>1. SUFFICES ASSUME Misled PROVE Misled'
      OBVIOUS
    <3>2. PICK stale \in Seq(Token), sent \in Seq(Token) :
            line = stale \o sent /\ Sent(sent \o tx) /\ AllNewlines(stale)
      BY <3>1 DEF Misled
    <3>3. PICK more \in Seq(Token) :
            line' = stale \o more /\ \A w : w = more \o tx' => Sent(w)'
      BY <2>4, <3>2
    <3>4. quiet' = FALSE /\ AllNewlines(x')
      BY <1>1, <3>1 DEF Misled, Still
    <3>. QED  BY <3>2, <3>3, <3>4, MisledStays
  <2>7. /\ (Closed(x) => Closed(x)') /\ (NothingElse => NothingElse')
        /\ None(Unread, "$")' <=> None(Unread, "$")
    BY <1>1, <1>2 DEF Closed, NothingElse
  <2>. QED  BY <1>1, <1>4, <2>1, <2>2, <2>3, <2>5, <2>6, <2>7 DEF Told, OnBoard, Still
<1>6. InQemu'
  <2>1. SUFFICES ASSUME platform = "qemu" PROVE InQemu'
    BY <1>1 DEF InQemu, Still
  <2>2. pc = "wait" /\ Payload(line \o tx)
    BY <1>1, <2>1 DEF Told, InQemu, Unread
  <2>3. ASSUME NEW w, w = line \o tx PROVE Payload(Unread)'
    BY <1>1, <1>2, <2>2, <2>3, StillSaid, SaidOfUnread
  <2>. QED  BY <1>1, <2>2, <2>3 DEF InQemu
<1>7. Failed'
  BY <1>1 DEF Told, Failed, Mine, New, Still
<1>. QED  BY <1>3, <1>5, <1>6, <1>7 DEF Told
--------------------------------------------------------------------------------
(* The invariant, step by step: the host.                                  *)

LEMMA NewIs ==
  ASSUME Types
  PROVE  New \in [kind : Kinds, scheme : 1 .. 3, ours : BOOLEAN]
  BY DEF New, Types

LEMMA FlashKeeps ==
  ASSUME Told, Flash
  PROVE  Told'
<1>1. /\ Types /\ platform = "board" /\ pc = "start" /\ pc' = "marker" /\ x' = <<>>
      /\ UNCHANGED <<platform, kind, quiet, i, line>>
      /\ line \in Seq(Token) /\ tx \in Seq(Token) /\ <<>> \in Seq(Token)
  BY DEF Told, Types, Flash, fixed
<1>2. ~ Mine /\ Earlier /\ (quiet = TRUE \/ i > 1 => at = "off" /\ None(Unread, "$"))
  BY <1>1 DEF Told, OnBoard
<1>3. /\ LastMarker(line) /\ LastMarker(line \o tx) /\ line \o <<>> = line
      /\ quiet = TRUE \/ i > 1 => None(line, "$")
  BY <1>1, <1>2, LastMarkerIn, NoneIn, JoinEmpty DEF Earlier, Unread
<1>4. New \in [kind : Kinds, scheme : 1 .. 3, ours : BOOLEAN]
  BY <1>1, NewIs
<1>5. Types' /\ (Earlier \/ Flashed)'
  <2>1. CASE Start(New, "opening")
    <3>1. /\ tx' = <<>> /\ Mine' /\ at' = "opening" /\ rounds' = 0
          /\ good' = TRUE /\ faulted' = FALSE
      BY <1>1, <2>1 DEF Start, Mine, New
    <3>2. Sent(<<>>)'
      BY <3>1 DEF Sent
    <3>3. line' = line \o <<>> /\ <<>> = <<>> \o tx'
      BY <1>1, <1>3, <3>1
    <3>4. Flashed'
      BY <1>1, <1>3, <3>2, <3>3, FlashedStays
    <3>5. Types'
      BY <1>1, <1>4, <2>1 DEF Start, Types, Stages
    <3>. QED  BY <3>4, <3>5
  <2>2. CASE Start(New, "hung")
    <3>1. tx' = <<>> /\ at' = "hung"
      BY <2>2 DEF Start
    <3>2. Unread' = line
      BY <1>1, <1>3, <3>1 DEF Unread
    <3>3. LastMarker(Unread)'
      BY <1>3, <3>2
    <3>4. Types'
      BY <1>1, <1>4, <2>2 DEF Start, Types, Stages
    <3>. QED  BY <3>1, <3>3, <3>4 DEF Earlier
  <2>3. CASE Start(program, "opening")
    <3>1. tx' = <<>> /\ at' = "opening" /\ program' = program
      BY <2>3 DEF Start
    <3>2. Unread' = line
      BY <1>1, <1>3, <3>1 DEF Unread
    <3>3. LastMarker(Unread)' /\ ~ Mine'
      BY <1>1, <1>2, <1>3, <3>1, <3>2 DEF Mine, New
    <3>4. Types'
      BY <1>1, <2>3, <3>1 DEF Start, Types, Stages
    <3>. QED  BY <3>1, <3>3, <3>4 DEF Earlier
  <2>4. CASE UNCHANGED <<board, tx>>
    <3>1. Types' /\ Unread' = Unread /\ at' = at /\ ~ Mine'
      BY <1>1, <1>2, <2>4 DEF board, Types, Unread, Mine, New
    <3>. QED  BY <1>2, <3>1 DEF Earlier
  <2>. QED  BY <2>1, <2>2, <2>3, <2>4 DEF Flash
<1>. QED  BY <1>1, <1>5 DEF Told, OnBoard, InQemu, Failed

(* One token read of what may be stale followed by what has been sent.     *)
LEMMA ReadSplit ==
  ASSUME NEW stale \in Seq(Token), NEW sent \in Seq(Token), tx \in Seq(Token),
         line = stale \o sent, line # <<>>, line' = Tail(line), tx' = tx, Still,
         Sent(sent \o tx)
  PROVE  \/ /\ stale # <<>> /\ Head(line) = stale[1] /\ Tail(stale) \in Seq(Token)
            /\ line' = Tail(stale) \o sent /\ (\A w : w = sent \o tx' => Sent(w)')
         \/ /\ stale = <<>> /\ Head(line) = "$"
            /\ \A w : w = (line \o tx)' => Payload(w)'
<1>1. CASE stale # <<>>
  <2>1. Head(line) = stale[1] /\ line' = Tail(stale) \o sent /\ Tail(stale) \in Seq(Token)
    BY <1>1, HeadTail, TailIn
  <2>2. ASSUME NEW w, w = sent \o tx' PROVE Sent(w)'
    BY <2>2, StillSaid
  <2>. QED  BY <1>1, <2>1, <2>2
<1>2. CASE stale = <<>>
  <2>1. line = sent /\ sent # <<>>
    BY <1>2, JoinEmpty
  <2>2. /\ sent \o tx # <<>> /\ Head(line) = (sent \o tx)[1]
        /\ Tail(sent \o tx) = Tail(line) \o tx
    BY <2>1, HeadTail
  <2>3. Head(line) = "$" /\ Payload(Tail(line) \o tx)
    BY <2>2 DEF Sent
  <2>4. ASSUME NEW w, w = (line \o tx)' PROVE Payload(w)'
    <3>1. w = Tail(line) \o tx
      BY <2>4
    <3>. QED  BY <2>3, <3>1, StillSaid
  <2>. QED  BY <1>2, <2>3, <2>4
<1>. QED  BY <1>1, <1>2

LEMMA ReadTokenKeeps ==
  ASSUME Told, ReadToken
  PROVE  Told'
<1>. DEFINE t == Head(line)
<1>1. /\ Types /\ Still /\ tx' = tx /\ line # <<>> /\ line' = Tail(line)
      /\ pc \in {"marker", "payload"}
      /\ x \in Seq(Token) /\ line \in Seq(Token) /\ tx \in Seq(Token)
      /\ t \in Token /\ line' \in Seq(Token) /\ "$" \in Token
  BY TailIn DEF Told, Types, ReadToken, Still, board, fixed, Token
<1>2. /\ t # "$" => x' = Append(x, t) /\ pc' = pc
      /\ t = "$" /\ pc = "marker" => x' = <<>> /\ pc' = "payload"
      /\ t = "$" /\ pc = "payload" => x' = Append(x, t) /\ pc' = "check"
  BY <1>1 DEF ReadToken
<1>3. platform = "board"
  BY <1>1 DEF Told, InQemu, Types
<1>4. x' \in Seq(Token)
  <2>1. x' = <<>> \/ x' = Append(x, t)
    BY <1>1, <1>2
  <2>2. Append(x, t) \in Seq(Token) /\ <<>> \in Seq(Token)
    BY <1>1
  <2>. QED  BY <2>1, <2>2
<1>5. Types'
  BY <1>1, <1>2, <1>4 DEF Types, Still
<1>6. /\ Unread \in Seq(Token) /\ Unread # <<>> /\ Unread[1] = t /\ Tail(Unread) = Unread'
  BY <1>1, HeadTail, SMTT(30) DEF Unread
<1>7. CASE pc = "marker" /\ Earlier
  <2>1. LastMarker(Unread) => LastMarker(Unread') /\ (t = "$" => AllNewlines(Unread'))
    BY <1>6, TailFacts
  <2>2. None(Unread, "$") => t # "$" /\ None(Unread', "$")
    BY <1>6, TailFacts
  <2>3. AllNewlines(Unread') => None(Unread', "$")
    BY DEF AllNewlines, None
  <2>4. t # "$" => Earlier'
    BY <1>1, <1>7, <2>1, <2>2 DEF Earlier, Mine, New, Still
  <2>5. t = "$" => Ended'
    BY <1>1, <1>7, <2>1, <2>2, <2>3 DEF Earlier, Ended, Mine, New, Still, Types, Stages
  <2>. QED  BY <1>1, <1>2, <1>3, <1>5, <1>7, <2>4, <2>5
            DEF Told, OnBoard, InQemu, Failed, Still
<1>8. CASE pc = "marker" /\ Flashed
  <2>1. PICK stale \in Seq(Token), sent \in Seq(Token) :
          /\ line = stale \o sent /\ Sent(sent \o tx)
          /\ LastMarker(stale) /\ (quiet = TRUE \/ i > 1 => None(stale, "$"))
    BY <1>8 DEF Flashed
  <2>2. CASE /\ stale # <<>> /\ t = stale[1] /\ Tail(stale) \in Seq(Token)
             /\ line' = Tail(stale) \o sent /\ (\A w : w = sent \o tx' => Sent(w)')
    <3>1. /\ LastMarker(Tail(stale)) /\ (t = "$" => AllNewlines(Tail(stale)))
          /\ None(stale, "$") => t # "$" /\ None(Tail(stale), "$")
      BY <2>1, <2>2, TailFacts
    <3>2. CASE t # "$"
      <4>1. Flashed'
        BY <1>1, <2>1, <2>2, <3>1, FlashedStays DEF Still
      <4>. QED  BY <1>1, <1>2, <1>3, <1>5, <1>8, <3>2, <4>1
                DEF Told, OnBoard, InQemu, Failed, Still
    <3>3. CASE t = "$"
      <4>1. quiet' = FALSE
        BY <1>1, <2>1, <3>1, <3>3 DEF Types, Still
      <4>2. x' = <<>> /\ pc' = "payload" /\ AllNewlines(x')
        BY <1>2, <1>8, <3>3 DEF AllNewlines
      <4>3. Misled'
        BY <2>2, <3>1, <3>3, <4>1, <4>2, MisledStays
      <4>. QED  BY <1>1, <1>3, <1>5, <4>2, <4>3
                DEF Told, OnBoard, InQemu, Failed, Still
    <3>. QED  BY <3>2, <3>3
  <2>3. CASE stale = <<>> /\ t = "$" /\ \A w : w = (line \o tx)' => Payload(w)'
    <3>1. x' = <<>> /\ pc' = "payload"
      BY <1>2, <1>8, <2>3
    <3>2. (x \o (line \o tx))' = (line \o tx)'
      BY <1>1, <3>1
    <3>3. Payload(x \o Unread)'
      BY <2>3, <3>2, SaidOfAll
    <3>. QED  BY <1>1, <1>3, <1>5, <3>1, <3>3
              DEF Told, OnBoard, InQemu, Failed, Still
  <2>. QED  BY <1>1, <2>1, <2>2, <2>3, ReadSplit
<1>9. CASE pc = "payload" /\ Ended
  <2>1. t # "$" /\ None(Unread', "$")
    BY <1>6, <1>9, TailFacts DEF Ended
  <2>2. Ended'
    BY <1>1, <1>9, <2>1 DEF Ended, Mine, New, Still
  <2>. QED  BY <1>1, <1>2, <1>3, <1>5, <1>9, <2>1, <2>2
            DEF Told, OnBoard, InQemu, Failed, Still
<1>10. CASE pc = "payload" /\ Misled
  <2>1. quiet' = FALSE /\ AllNewlines(x) /\ x' = Append(x, t)
    BY <1>1, <1>2, <1>10 DEF Misled, Still
  <2>2. PICK stale \in Seq(Token), sent \in Seq(Token) :
          line = stale \o sent /\ Sent(sent \o tx) /\ AllNewlines(stale)
    BY <1>10 DEF Misled
  <2>3. CASE /\ stale # <<>> /\ t = stale[1] /\ Tail(stale) \in Seq(Token)
             /\ line' = Tail(stale) \o sent /\ (\A w : w = sent \o tx' => Sent(w)')
    <3>1. t = "nl" /\ AllNewlines(Tail(stale))
      BY <2>2, <2>3, TailFacts
    <3>2. AllNewlines(x')
      BY <1>1, <2>1, <3>1 DEF AllNewlines
    <3>3. Misled'
      BY <2>1, <2>2, <2>3, <3>1, <3>2, MisledStays
    <3>. QED  BY <1>1, <1>2, <1>3, <1>5, <1>10, <3>1, <3>3
              DEF Told, OnBoard, InQemu, Failed, Still
  <2>4. CASE t = "$"
    <3>1. Closed(x)' /\ NothingElse'
      BY <1>1, <2>1, <2>4 DEF Closed, NothingElse, AllNewlines
    <3>. QED  BY <1>1, <1>2, <1>3, <1>5, <1>10, <2>1, <2>4, <3>1
              DEF Told, OnBoard, InQemu, Failed, Still
  <2>. QED  BY <1>1, <2>2, <2>3, <2>4, ReadSplit
<1>11. CASE pc = "payload" /\ Payload(x \o Unread)
  <2>1. x' = Append(x, t)
    BY <1>2, <1>11
  <2>2. (x \o (line \o tx))' = x \o Unread
    BY <1>1, <2>1, MovedOn, SMTT(30) DEF Unread
  <2>3. Payload(x \o Unread)'
    BY <1>1, <1>11, <2>2, StillSaid, SaidOfAll
  <2>4. t = "$" => Closed(x)'
    BY <1>1, <2>1 DEF Closed
  <2>. QED  BY <1>1, <1>2, <1>3, <1>5, <1>11, <2>3, <2>4
            DEF Told, OnBoard, InQemu, Failed, Still
<1>. QED  BY <1>1, <1>3, <1>7, <1>8, <1>9, <1>10, <1>11 DEF Told, OnBoard

LEMMA RunQemuKeeps ==
  ASSUME Told, RunQemu
  PROVE  Told'
<1>1. /\ Types /\ platform = "qemu" /\ pc' = "wait" /\ line' = <<>> /\ tx' = <<>>
      /\ UNCHANGED <<platform, kind, quiet, i, x>> /\ <<>> \in Seq(Token)
      /\ at' = "opening" /\ rounds' = 0 /\ good' = TRUE /\ faulted' = FALSE
      /\ program' = [kind |-> kind, scheme |-> i, ours |-> TRUE]
  BY DEF Told, Types, RunQemu, Start, New, fixed
<1>2. Types' /\ Mine'
  BY <1>1 DEF Types, Mine, New, Stages
<1>3. Payload(<<>>)'
  BY <1>1, <1>2, Begins
<1>4. <<>> = (line \o tx)'
  BY <1>1
<1>5. Payload(Unread)'
  BY <1>3, <1>4, SaidOfUnread
<1>. QED  BY <1>1, <1>2, <1>5 DEF Told, OnBoard, InQemu, Failed

LEMMA QemuEndsKeeps ==
  ASSUME Told, QemuEnds
  PROVE  Told'
<1>1. /\ Types /\ Still /\ pc = "wait" /\ pc' = "check" /\ x' = line /\ line' = <<>>
      /\ tx = <<>> /\ tx' = tx /\ at = "off" /\ line \in Seq(Token) /\ <<>> \in Seq(Token)
  BY DEF Told, Types, QemuEnds, Sending, Still, fixed, board
<1>2. platform = "qemu" /\ Payload(line)
  BY <1>1, JoinEmpty DEF Told, OnBoard, InQemu, Types, Unread
<1>3. Payload(x)'
  BY <1>1, <1>2, StillSaid, SaidOfRead
<1>4. Types'
  BY <1>1 DEF Types, Still
<1>. QED  BY <1>1, <1>2, <1>3, <1>4 DEF Told, OnBoard, InQemu, Failed, Still
--------------------------------------------------------------------------------
(* The check.                                                              *)

(* Over the line, Output is what has been read without its two ends.       *)
LEMMA Inner ==
  ASSUME x \in Seq(Token), platform = "board"
  PROVE  /\ DOMAIN Output = 1 .. Len(x) - 2 /\ Len(x) \in Nat /\ DOMAIN x = 1 .. Len(x)
         /\ \A j \in 1 .. Len(x) - 2 : j + 1 \in DOMAIN x /\ Output[j] = x[j + 1]
         /\ Output \in Seq(Token)
<1>1. Output = SubSeq(x, 2, Len(x) - 1)
  BY DEF Output
<1>2. /\ SubSeq(x, 2, Len(x) - 1) \in Seq(Token)
      /\ DOMAIN SubSeq(x, 2, Len(x) - 1) = 1 .. Len(x) - 2
      /\ \A j \in 1 .. Len(x) - 2 : SubSeq(x, 2, Len(x) - 1)[j] = x[j + 1]
  OBVIOUS
<1>. QED  BY <1>1, <1>2

LEMMA OutputCount ==
  ASSUME x \in Seq(Token), platform = "board", NEW token
  PROVE  /\ Count(Output, token) <= Count(x, token)
         /\ x[1] # token /\ x[Len(x)] # token => Count(Output, token) = Count(x, token)
<1>. DEFINE S == {j \in DOMAIN Output : Output[j] = token}
            T == {j \in DOMAIN x : x[j] = token}
            f == [j \in S |-> j + 1]
<1>1. \A j \in S : j \in 1 .. Len(x) - 2 /\ j + 1 \in T
  BY Inner
<1>2. f \in Injection(S, T)
  <2>1. f \in [S -> T] /\ \A j \in S : f[j] = j + 1 /\ j \in Int
    BY <1>1
  <2>. HIDE DEF f, S, T
  <2>. QED  BY <2>1 DEF Injection, IsInjective
<1>3. IsFiniteSet(T)
  BY CountType
<1>4. x[1] # token /\ x[Len(x)] # token => f \in Surjection(S, T)
  <2>1. SUFFICES ASSUME x[1] # token, x[Len(x)] # token
                 PROVE  f \in Surjection(S, T)
    OBVIOUS
  <2>2. \A j \in T : j \in 2 .. Len(x) - 1
    BY <2>1, Inner
  <2>3. ASSUME NEW j \in T PROVE j - 1 \in S /\ (j - 1) + 1 = j
    <3>1. j \in 2 .. Len(x) - 1 /\ x[j] = token /\ Len(x) \in Nat
      BY <2>2, <2>3, Inner
    <3>2. j - 1 \in 1 .. Len(x) - 2 /\ (j - 1) + 1 = j
      BY <3>1
    <3>3. Output[j - 1] = x[j]
      BY <3>2, Inner
    <3>. QED  BY <3>1, <3>2, <3>3, Inner
  <2>4. \A j \in S : f[j] = j + 1
    OBVIOUS
  <2>5. f \in [S -> T]
    BY <1>1
  <2>. HIDE DEF f, S, T
  <2>6. \A j \in T : \E l \in S : f[l] = j
    <3>1. TAKE j \in T
    <3>2. j - 1 \in S /\ f[j - 1] = j
      BY <2>3, <2>4
    <3>. QED  BY <3>2
  <2>. QED  BY <2>5, <2>6 DEF Surjection
<1>5. /\ Cardinality(S) <= Cardinality(T)
      /\ x[1] # token /\ x[Len(x)] # token => Cardinality(S) = Cardinality(T)
  <2>. HIDE DEF f, S, T
  <2>. QED  BY <1>2, <1>3, <1>4, FS_Injection
<1>. QED  BY <1>5 DEF Count

LEMMA CountNoMore ==
  ASSUME NEW a \in Seq(Token), NEW b \in Seq(Token), NEW token, None(b, token)
  PROVE  Count(a \o b, token) = Count(a, token)
<1>. DEFINE o == a \o b
            m == Len(a)
<1>1. \A j \in DOMAIN o :
        \/ j \in DOMAIN a /\ o[j] = a[j]
        \/ j - m \in DOMAIN b /\ o[j] = b[j - m]
  OBVIOUS
<1>2. \A j \in DOMAIN a : j \in DOMAIN o /\ o[j] = a[j]
  BY Joined
<1>. HIDE DEF o
<1>3. \A j \in DOMAIN o : o[j] = token => j \in DOMAIN a /\ o[j] = a[j]
  BY <1>1 DEF None
<1>4. {j \in DOMAIN o : o[j] = token} = {j \in DOMAIN a : a[j] = token}
  BY <1>2, <1>3
<1>. QED  BY <1>4 DEF Count, o

(* Newlines between the two markers pass nothing.                          *)
LEMMA NothingElseFails ==
  ASSUME Told, platform = "board", NothingElse
  PROVE  ~ Passes
<1>1. x \in Seq(Token) /\ kind \in Kinds /\ i \in 1 .. 3
  BY DEF Told, Types
<1>2. \A j \in DOMAIN Output : Output[j] = "nl"
  <2>1. \A j \in 1 .. Len(x) - 2 : j + 1 \in DOMAIN x /\ j + 1 < Len(x)
    BY <1>1
  <2>. QED  BY <1>1, <2>1, Inner DEF NothingElse
<1>3. Count(Output, "OK") = 0
  <2>1. None(Output, "OK")
    BY <1>2 DEF None
  <2>. QED  BY <1>1, <2>1, Inner, CountNone
<1>4. 3 * NTESTS # 0
  BY RunnerAssumption
<1>5. Hash[i] # "nl"
  BY <1>1, HashIs
<1>6. kind = "test" => ~ Passes
  BY <1>3, <1>4 DEF Passes
<1>7. kind \in {"speed", "stack"} => ~ Passes
  <2>1. SUFFICES ASSUME kind \in {"speed", "stack"} PROVE ~ Passes
    OBVIOUS
  <2>2. Passes <=> Count(Output, "OK") = 1
    BY <2>1 DEF Passes
  <2>. QED  BY <1>3, <2>2
<1>8. kind = "nistkat" => ~ Passes
  BY <1>2, <1>5 DEF Passes
<1>. QED  BY <1>1, <1>6, <1>7, <1>8 DEF Kinds

(* All that the program under test has sent, and how much of it is read.   *)
LEMMA AllIsSaid ==
  ASSUME Told, pc = "check", Passes \/ quiet = TRUE
  PROVE  \E b \in Seq(Token) :
           /\ Payload(x \o b) /\ x \o b \in Seq(Token) /\ at = "off" /\ AllNewlines(b)
           /\ platform = "board" => Closed(x)
           /\ platform = "qemu" => b = <<>>
<1>1. Types /\ x \in Seq(Token) /\ line \in Seq(Token) /\ tx \in Seq(Token)
  BY DEF Told, Types
<1>2. CASE platform = "qemu"
  <2>1. at = "off" /\ Payload(x) /\ <<>> \in Seq(Token) /\ x \o <<>> = x
    BY <1>1, <1>2 DEF Told, InQemu
  <2>2. AllNewlines(<<>>)
    BY DEF AllNewlines
  <2>. QED  BY <1>1, <1>2, <2>1, <2>2
<1>3. CASE platform = "board"
  <2>1. Closed(x) /\ Payload(x \o Unread)
    BY <1>3, NothingElseFails DEF Told, OnBoard
  <2>2. Unread \in Seq(Token) /\ x \o Unread \in Seq(Token)
    BY <1>1 DEF Unread
  <2>3. ~ None(x, "$")
    BY <1>1, <2>1 DEF Closed, None
  <2>4. ~ None(x \o Unread, "$") /\ AllNewlines(Unread)
    BY <1>1, <2>1, <2>2, <2>3, NoneIn, LastMarkerIn DEF Payload
  <2>5. at = "off"
    BY <2>1, <2>4 DEF Payload, Truthful
  <2>. QED  BY <1>3, <2>1, <2>2, <2>4, <2>5
<1>. QED  BY <1>1, <1>2, <1>3 DEF Types

LEMMA IsEarned ==
  ASSUME Told, pc = "check", Passes
  PROVE  /\ Mine /\ good = TRUE /\ rounds = Rounds
         /\ faulted = TRUE => platform = "qemu" /\ kind # "nistkat"
<1>1. PICK b \in Seq(Token) :
        /\ Payload(x \o b) /\ x \o b \in Seq(Token) /\ at = "off" /\ AllNewlines(b)
        /\ platform = "board" => Closed(x)
        /\ platform = "qemu" => b = <<>>
  BY AllIsSaid
<1>2. Types /\ x \in Seq(Token) /\ kind \in Kinds /\ rounds \in Nat /\ i \in 1 .. 3
      /\ faulted \in BOOLEAN /\ platform \in {"board", "qemu"}
  BY DEF Told, Types
<1>. DEFINE o == x \o b
<1>3. Mine /\ Truthful(o)
  BY <1>1 DEF Payload
<1>4. Count(Output, "OK") <= Count(o, "OK") /\ Count(o, "OK") \in Nat
      /\ Count(Output, "OK") \in Nat
  <2>1. Count(x, "OK") <= Count(o, "OK") /\ Count(o, "OK") \in Nat /\ Count(x, "OK") \in Nat
    BY <1>1, <1>2, CountPart, CountType
  <2>2. Count(Output, "OK") <= Count(x, "OK") /\ Output \in Seq(Token)
    BY <1>2, <2>1, OutputCount, Inner DEF Output
  <2>3. Count(Output, "OK") \in Nat
    BY <2>2, CountType
  <2>. HIDE DEF o
  <2>. QED  BY <2>1, <2>2, <2>3
<1>5. \A token : ~ None(Output, token) => ~ None(o, token)
  <2>1. \A token : ~ None(Output, token) => ~ None(x, token)
    BY <1>2, Inner DEF None, Output
  <2>. QED  BY <1>1, <1>2, <2>1, NoneIn
<1>6. faulted = TRUE => platform = "qemu" /\ ~ None(o, "HardFault_Handler")
  BY <1>1, <1>2, <1>3 DEF Truthful
<1>. HIDE DEF o
<1>7. CASE kind # "nistkat"
  <2>1. Count(Output, "OK") = Rounds
    BY <1>2, <1>3, <1>7, MineIs DEF Passes, Kinds
  <2>2. Count(o, "OK") = rounds /\ rounds = Rounds
    <3>1. Count(o, "OK") <= rounds /\ rounds <= Rounds /\ Rounds \in Nat
      BY <1>3, <1>7, MineIs DEF Truthful
    <3>. QED  BY <1>2, <1>4, <2>1, <3>1
  <2>3. good = TRUE
    BY <1>3, <1>7, <2>2 DEF Truthful
  <2>. QED  BY <1>3, <1>6, <1>7, <2>2, <2>3 DEF Mine, New
<1>8. CASE kind = "nistkat"
  <2>1. PICK j \in DOMAIN Output :
          Output[j] = Hash[i] /\ \A l \in DOMAIN Output : l # j => Output[l] = "nl"
    BY <1>8 DEF Passes
  <2>2. ~ None(Output, Hash[i])
    BY <2>1 DEF None
  <2>3. rounds = Rounds /\ good = TRUE
    BY <1>3, <1>5, <2>2 DEF Truthful
  <2>4. faulted # TRUE
    <3>1. SUFFICES ASSUME faulted = TRUE PROVE FALSE
      OBVIOUS
    <3>2. platform = "qemu" /\ b = <<>> /\ o = x /\ Output = x
      BY <1>1, <1>2, <1>6, <3>1 DEF o, Output
    <3>3. None(x, "HardFault_Handler")
      BY <1>2, <2>1, <3>2, HashIs DEF None
    <3>. QED  BY <1>6, <3>1, <3>2, <3>3
  <2>. QED  BY <1>3, <2>3, <2>4 DEF Mine, New
<1>. QED  BY <1>7, <1>8
(* On a quiet line what passes is found when nothing went wrong.           *)
LEMMA Real ==
  ASSUME Told, pc = "check", quiet = TRUE, ~ Passes
  PROVE  at = "off" /\ Mine /\ (good = FALSE \/ faulted = TRUE)
<1>1. PICK b \in Seq(Token) :
        /\ Payload(x \o b) /\ x \o b \in Seq(Token) /\ at = "off" /\ AllNewlines(b)
        /\ platform = "board" => Closed(x)
        /\ platform = "qemu" => b = <<>>
  BY AllIsSaid
<1>. DEFINE o == x \o b
<1>2. Types /\ x \in Seq(Token) /\ kind \in Kinds /\ rounds \in Nat /\ i \in 1 .. 3
      /\ faulted \in BOOLEAN /\ good \in BOOLEAN /\ platform \in {"board", "qemu"}
  BY DEF Told, Types
<1>3. at = "off" /\ Mine
  BY <1>1 DEF Payload
<1>4. SUFFICES ASSUME good = TRUE, faulted = FALSE PROVE FALSE
  BY <1>2, <1>3
<1>5. /\ rounds = Rounds
      /\ kind # "nistkat" => Count(o, "OK") = Rounds
      /\ kind = "nistkat" => OneHash(o)
      /\ platform = "board" => Len(o) >= 1 /\ o[1] = "nl"
  BY <1>1, <1>4 DEF Payload, Complete
<1>6. /\ Count(o, "OK") = Count(x, "OK") /\ None(b, Hash[i])
  <2>1. None(b, "OK") /\ None(b, Hash[i])
    BY <1>1, <1>2, HashIs DEF AllNewlines, None
  <2>. QED  BY <1>2, <2>1, CountNoMore
<1>7. \A j \in DOMAIN o : \/ j \in DOMAIN x /\ o[j] = x[j]
                          \/ j - Len(x) \in DOMAIN b /\ o[j] = b[j - Len(x)]
  BY <1>2
<1>8. \A j \in DOMAIN x : j \in DOMAIN o /\ o[j] = x[j]
  BY <1>2, Joined
<1>. HIDE DEF o
(* The two ends that came over the line are the newline of the opening     *)
(* marker and the "$" of the closing one.                                  *)
<1>9. platform = "board" =>
        /\ Len(x) >= 2 /\ x[1] = "nl" /\ x[Len(x)] = "$"
        /\ \A j \in DOMAIN x : j < Len(x) => x[j] # "$"
  <2>1. SUFFICES ASSUME platform = "board"
                 PROVE  /\ Len(x) >= 2 /\ x[1] = "nl" /\ x[Len(x)] = "$"
                        /\ \A j \in DOMAIN x : j < Len(x) => x[j] # "$"
    OBVIOUS
  <2>2. Len(x) >= 1 /\ x[Len(x)] = "$" /\ DOMAIN x = 1 .. Len(x) /\ Len(x) \in Nat
    BY <1>1, <1>2, <2>1 DEF Closed
  <2>3. x[1] = "nl"
    BY <1>5, <1>8, <2>1, <2>2
  <2>4. Len(x) # 1
    BY <2>2, <2>3
  <2>5. LastMarker(x)
    BY <1>1, <1>2, LastMarkerIn DEF Payload
  <2>6. \A j \in DOMAIN x : j < Len(x) => x[j] # "$"
    BY <2>2, <2>5 DEF LastMarker
  <2>. QED  BY <2>2, <2>3, <2>4, <2>6
<1>10. Count(Output, "OK") = Count(x, "OK")
  <2>1. CASE platform = "qemu"
    BY <2>1 DEF Output
  <2>2. CASE platform = "board"
    BY <1>2, <1>9, <2>2, OutputCount
  <2>. QED  BY <1>2, <2>1, <2>2
<1>11. CASE kind # "nistkat"
  <2>1. Count(Output, "OK") = Rounds
    BY <1>5, <1>6, <1>10, <1>11
  <2>. QED  BY <1>1, <1>2, <1>11, <2>1, MineIs DEF Payload, Passes, Kinds
<1>12. CASE kind = "nistkat"
  <2>1. PICK j \in DOMAIN o : o[j] = Hash[i] /\ \A l \in DOMAIN o : l # j => o[l] \in {"nl", "$"}
    BY <1>5, <1>12 DEF OneHash
  <2>2. j \in DOMAIN x /\ x[j] = Hash[i] /\ \A l \in DOMAIN x : l # j => x[l] \in {"nl", "$"}
    BY <1>6, <1>7, <1>8, <2>1 DEF None
  <2>3. \E p \in DOMAIN Output :
          Output[p] = Hash[i] /\ \A l \in DOMAIN Output : l # p => Output[l] = "nl"
    <3>1. CASE platform = "qemu"
      <4>1. None(x, "$")
        <5>1. x \o b = x
          BY <1>1, <1>2, <3>1, JoinEmpty
        <5>2. Truthful(x)
          BY <1>1, <5>1 DEF Payload
        <5>. QED  BY <3>1, <5>2 DEF Truthful
      <4>. QED  BY <2>2, <3>1, <4>1 DEF Output, None
    <3>2. CASE platform = "board"
      <4>1. j \in 2 .. Len(x) - 1 /\ Len(x) \in Nat /\ DOMAIN x = 1 .. Len(x)
        <5>1. Hash[i] # "nl" /\ Hash[i] # "$"
          BY <1>2, HashIs
        <5>. QED  BY <1>2, <1>9, <2>2, <3>2, <5>1
      <4>2. j - 1 \in 1 .. Len(x) - 2 /\ (j - 1) + 1 = j
        BY <4>1
      <4>3. j - 1 \in DOMAIN Output /\ Output[j - 1] = Hash[i]
        BY <1>2, <2>2, <3>2, <4>2, Inner
      <4>4. \A l \in DOMAIN Output : l # j - 1 => Output[l] = "nl"
        <5>1. SUFFICES ASSUME NEW l \in 1 .. Len(x) - 2, l # j - 1 PROVE Output[l] = "nl"
          BY <1>2, <3>2, Inner
        <5>2. l + 1 \in DOMAIN x /\ Output[l] = x[l + 1]
          BY <1>2, <3>2, Inner
        <5>3. l + 1 # j /\ l + 1 < Len(x)
          BY <4>1, <5>1
        <5>. QED  BY <1>9, <2>2, <3>2, <5>2, <5>3
      <4>. QED  BY <4>3, <4>4
    <3>. QED  BY <1>2, <3>1, <3>2
  <2>. QED  BY <1>12, <2>3 DEF Passes
<1>. QED  BY <1>11, <1>12
LEMMA CheckKeeps ==
  ASSUME Told, Check
  PROVE  Told'
<1>1. /\ Types /\ pc = "check" /\ i \in 1 .. 3
      /\ UNCHANGED <<platform, kind, quiet, x, line, program, at, rounds, good, faulted, tx>>
      /\ pc' = IF ~ Passes THEN "exit1" ELSE IF i = 3 THEN "exit0" ELSE "start"
      /\ i' = IF Passes /\ i < 3 THEN i + 1 ELSE i
      /\ x \in Seq(Token) /\ line \in Seq(Token) /\ tx \in Seq(Token)
  BY DEF Told, Types, Check, fixed, board
<1>2. Types'
  BY <1>1 DEF Types
<1>3. InQemu'
  BY <1>1 DEF Told, InQemu
<1>4. Failed'
  <2>1. i' = i /\ Mine => Mine'
    BY <1>1 DEF Mine, New
  <2>. QED  BY <1>1, <2>1, Real DEF Failed
<1>5. OnBoard'
  <2>1. CASE Passes /\ i < 3 /\ platform = "board"
    <3>1. Closed(x) /\ Payload(x \o Unread)
      BY <1>1, <2>1, NothingElseFails DEF Told, OnBoard
    <3>2. ~ None(x, "$")
      BY <1>1, <3>1 DEF Closed, None
    <3>3. Unread \in Seq(Token)
      BY <1>1 DEF Unread
    <3>4. ~ None(x \o Unread, "$") /\ AllNewlines(Unread)
      BY <1>1, <3>1, <3>2, <3>3, NoneIn, LastMarkerIn DEF Payload
    <3>5. at = "off" /\ None(Unread, "$")
      BY <3>1, <3>4 DEF Payload, Truthful, AllNewlines, None
    <3>6. at' = "off" /\ None(Unread, "$")' /\ LastMarker(Unread)'
      <4>1. Unread' = Unread
        BY <1>1 DEF Unread
      <4>. QED  BY <1>1, <3>5, <4>1, NoMarker
    <3>7. pc' = "start" /\ ~ Mine'
      <4>1. i' = i + 1 /\ program.scheme = i /\ program' = program
        BY <1>1, <2>1, <3>1, MineIs DEF Payload
      <4>2. program'.scheme # i'
        BY <1>1, <4>1
      <4>. QED  BY <1>1, <2>1, <4>2 DEF Mine, New
    <3>. QED  BY <3>6, <3>7 DEF OnBoard, Earlier
  <2>2. CASE ~ (Passes /\ i < 3) \/ platform # "board"
    BY <1>1, <2>2 DEF OnBoard
  <2>. QED  BY <2>1, <2>2
<1>. QED  BY <1>2, <1>3, <1>4, <1>5 DEF Told

LEMMA Starts ==
  ASSUME Init
  PROVE  IInv
<1>1. /\ x = <<>> /\ line = <<>> /\ tx = <<>> /\ <<>> \in Seq(Token) /\ <<>> \o <<>> = <<>>
      /\ pc = "start" /\ i = 1 /\ quiet = (at = "off") /\ stray = FALSE
      /\ at \in Stages /\ (platform # "board" => at = "off")
  BY RunnerAssumption DEF Init, Stages
<1>2. Types /\ (quiet = TRUE => at = "off")
  <2>1. quiet \in BOOLEAN /\ (quiet = TRUE => at = "off")
    BY <1>1
  <2>2. program \in [kind : Kinds, scheme : 1 .. 3, ours : BOOLEAN]
    BY DEF Init, LeftBehind
  <2>3. /\ platform \in {"board", "qemu"} /\ kind \in Kinds
        /\ rounds \in Nat /\ good \in BOOLEAN /\ faulted \in BOOLEAN
    BY DEF Init
  <2>. QED  BY <1>1, <2>1, <2>2, <2>3 DEF Types
<1>3. None(Unread, "$")
  BY <1>1 DEF Unread, None
<1>4. ~ Mine
  <2>1. program.ours = FALSE
    BY DEF Init, LeftBehind
  <2>. QED  BY <2>1 DEF Mine, New
<1>5. Earlier
  BY <1>1, <1>3, <1>4, NoMarker DEF Earlier
<1>6. Told
  <2>1. OnBoard
    BY <1>1, <1>2, <1>3, <1>4, <1>5 DEF OnBoard
  <2>2. InQemu
    BY <1>1, <1>2 DEF InQemu, Types
  <2>3. Failed
    BY <1>1 DEF Failed
  <2>. QED  BY <1>2, <2>1, <2>2, <2>3 DEF Told
<1>. QED  BY <1>1, <1>2, <1>6 DEF IInv

(* As long as nothing strays onto the line.                                *)
LEMMA ToldKeeps ==
  ASSUME Told, [Next]_vars, Quiet
  PROVE  Told'
<1>1. CASE UNCHANGED vars
  <2>1. Still /\ UNCHANGED <<pc, x, line, tx>> /\ Unread' = Unread
    BY <1>1 DEF vars, fixed, host, board, Still, Unread
  <2>2. Types'
    BY <2>1 DEF Told, Types, Still
  <2>3. /\ Payload(x \o Unread) => Payload(x \o Unread)'
        /\ Payload(Unread) => Payload(Unread)'
        /\ Payload(x) => Payload(x)'
    <3>1. ASSUME NEW w, w = x \o (line \o tx), Payload(w) PROVE Payload(x \o Unread)'
      BY <2>1, <3>1, StillSaid, SaidOfAll
    <3>2. ASSUME NEW w, w = line \o tx, Payload(w) PROVE Payload(Unread)'
      BY <2>1, <3>2, StillSaid, SaidOfUnread
    <3>3. ASSUME NEW w, w = x, Payload(w) PROVE Payload(x)'
      BY <2>1, <3>3, StillSaid, SaidOfRead
    <3>. QED  BY <3>1, <3>2, <3>3 DEF Unread
  <2>4. ASSUME NEW sent, Sent(sent \o tx) PROVE \A w : w = sent \o tx' => Sent(w)'
    BY <2>1, <2>4, StillSaid
  <2>5. Flashed => Flashed'
    BY <2>1, <2>4, FlashedStays DEF Flashed, Still
  <2>6. Misled => Misled'
    BY <2>1, <2>4, MisledStays DEF Misled, Still
  <2>7. /\ Earlier => Earlier'
        /\ ~ Mine => ~ Mine'
        /\ Ended => Ended'
        /\ Closed(x) => Closed(x)'
        /\ NothingElse => NothingElse'
        /\ None(Unread, "$")' <=> None(Unread, "$")
    BY <2>1 DEF Earlier, Ended, Mine, New, Closed, NothingElse, Still
  <2>8. OnBoard'
    BY <2>1, <2>3, <2>5, <2>6, <2>7 DEF Told, OnBoard, Still
  <2>9. InQemu'
    BY <2>1, <2>3 DEF Told, InQemu, Still
  <2>10. Failed'
    BY <2>1 DEF Told, Failed, Mine, New, Still
  <2>. QED  BY <2>2, <2>8, <2>9, <2>10 DEF Told
<1>2. CASE Program
  BY <1>2, ProgramKeeps
<1>. QED  BY <1>1, <1>2, TransmitKeeps, FlashKeeps, ReadTokenKeeps, RunQemuKeeps,
          QemuEndsKeeps, CheckKeeps DEF Next, Host, Board, Program

--------------------------------------------------------------------------------
(* The types hold whatever strays onto the line.                           *)
LEMMA TypesKeep ==
  ASSUME Types, [Next]_vars
  PROVE  Types'
<1>1. <<>> \in Seq(Token) /\ "$" \in Token /\ i \in 1 .. 3
      /\ x \in Seq(Token) /\ line \in Seq(Token) /\ tx \in Seq(Token)
  BY DEF Types, Token
<1>2. CASE UNCHANGED vars
  BY <1>2 DEF vars, fixed, host, board, Types
<1>3. CASE Program
  BY <1>3, ProgramSends
<1>4. CASE Transmit
  <2>1. line' \in Seq(Token) /\ tx' \in Seq(Token)
    BY <1>1, <1>4, Moved DEF Transmit, Sending
  <2>. QED  BY <1>4, <2>1 DEF Transmit, fixed, host, board, Types
<1>5. CASE Flash
  <2>1. /\ tx' \in Seq(Token) /\ at' \in Stages /\ rounds' \in Nat
        /\ good' \in BOOLEAN /\ faulted' \in BOOLEAN
        /\ program' \in [kind : Kinds, scheme : 1 .. 3, ours : BOOLEAN]
    <3>1. CASE Start(New, "opening") \/ Start(New, "hung")
      <4>1. program' = New /\ program' \in [kind : Kinds, scheme : 1 .. 3, ours : BOOLEAN]
        BY <3>1, NewIs DEF Start
      <4>2. tx' = <<>> /\ rounds' = 0 /\ good' = TRUE /\ faulted' = FALSE
        BY <3>1 DEF Start
      <4>3. at' \in Stages
        BY <3>1 DEF Start, Stages
      <4>. QED  BY <1>1, <4>1, <4>2, <4>3
    <3>2. CASE Start(program, "opening")
      BY <1>1, <3>2 DEF Start, Types, Stages
    <3>3. CASE UNCHANGED <<board, tx>>
      BY <1>1, <3>3 DEF board, Types
    <3>. QED  BY <1>5, <3>1, <3>2, <3>3 DEF Flash
  <2>. QED  BY <1>1, <1>5, <2>1 DEF Flash, fixed, Types
<1>6. CASE ReadToken
  <2>1. Append(x, Head(line)) \in Seq(Token) /\ Append(x, "$") \in Seq(Token)
        /\ Tail(line) \in Seq(Token)
    BY <1>1, <1>6, Moved DEF ReadToken
  <2>2. x' \in Seq(Token) /\ line' \in Seq(Token)
    BY <1>1, <1>6, <2>1 DEF ReadToken
  <2>. QED  BY <1>6, <2>2 DEF ReadToken, fixed, board, Types
<1>7. CASE RunQemu
  BY <1>1, <1>7 DEF RunQemu, Start, New, fixed, Types, Stages
<1>8. CASE QemuEnds
  BY <1>1, <1>8 DEF QemuEnds, fixed, board, Types
<1>9. CASE Check
  <2>1. i' \in 1 .. 3
    BY <1>1, <1>9 DEF Check
  <2>. QED  BY <1>9, <2>1 DEF Check, fixed, board, Types
<1>. QED  BY <1>2, <1>3, <1>4, <1>5, <1>6, <1>7, <1>8, <1>9 DEF Next, Host, Board, Program

(* What has strayed onto the line is not taken back.                       *)
LEMMA StrayStays ==
  ASSUME stray \in BOOLEAN, [Next]_vars
  PROVE  stray' \in BOOLEAN /\ (Quiet => stray = FALSE)
<1>1. CASE UNCHANGED vars
  BY <1>1 DEF vars, Quiet
<1>2. CASE Opening
  BY <1>2 DEF Opening, Quiet
<1>3. CASE Next /\ ~ Opening
  <2>1. stray' = stray
    BY <1>3 DEF Next, Host, Board, Transmit, TestRound, Vector, VectorFails, BodyDone,
       Closing, Fault, Flash, ReadToken, RunQemu, QemuEnds, Check
  <2>. QED  BY <2>1 DEF Quiet
<1>. QED  BY <1>1, <1>2, <1>3

LEMMA Invariance == Spec => []IInv
<1>1. Init => IInv
  BY Starts
<1>2. IInv /\ [Next]_vars => IInv'
  <2>1. SUFFICES ASSUME IInv, [Next]_vars PROVE IInv'
    OBVIOUS
  <2>2. Types' /\ stray' \in BOOLEAN /\ (Quiet => stray = FALSE)
    BY <2>1, TypesKeep, StrayStays DEF IInv
  <2>3. Quiet => Told'
    BY <2>1, <2>2, ToldKeeps DEF IInv
  <2>. QED  BY <2>2, <2>3 DEF IInv, Quiet
<1>. QED  BY <1>1, <1>2, PTL DEF Spec

(* As long as no other program has come to its opening marker since the    *)
(* port was opened, a scheme is passed only when the program flashed for   *)
(* it has made all its rounds and nothing was wrong in any: with any       *)
(* numbers of rounds, wherever an earlier program is caught, and whatever  *)
(* steps host, board, faults and openocd take in turn.                     *)
THEOREM APassIsEarned == Spec => []PassIsEarned
<1>1. IInv => PassIsEarned
  BY IsEarned DEF PassIsEarned, Earned, IInv, Told, Types
<1>. QED  BY <1>1, Invariance, PTL

(* On a line that was quiet, and while that is so, a scheme is failed only *)
(* for something that went wrong in its own program.                       *)
THEOREM AFailureIsReal == Spec => []FailureIsReal
<1>1. IInv => FailureIsReal
  BY DEF FailureIsReal, IInv, Told, Failed, Types
<1>. QED  BY <1>1, Invariance, PTL
=================================================================================
