----------------------------- MODULE Devices_proofs -----------------------------
(***************************************************************************)
(* Theorems about the devices a user meets: Keyboard, for every set of     *)
(* keys and every size of the ring, and Console, for every screen, glyph   *)
(* and set of characters.                                                  *)
(***************************************************************************)
EXTENDS Keyboard, Console, SequenceTheorems, TLAPS

-----------------------------------------------------------------------------
(* The start of the keyboard, by its steps.                                *)

\* The steps of Ps2Kbd::init, one by one.
LEMMA InitSteps ==
    /\ Len(ps2init) = 22
    /\ ps2init[1] = Send("DISABLE_PORT_1")
    /\ ps2init[2] = Send("DISABLE_PORT_2")
    /\ ps2init[3] = Flush
    /\ ps2init[4] = Send("TEST_CONTROLLER")
    /\ ps2init[5] = Expect("55")
    /\ ps2init[6] = Send("READ_CONFIG")
    /\ ps2init[7] = ReadConfig
    /\ ps2init[8] = Send("WRITE_CONFIG")
    /\ ps2init[9] = Send("conf")
    /\ ps2init[10] = Send("ENABLE_PORT_1")
    /\ ps2init[11] = Flush
    /\ ps2init[12] = Send("TEST_PORT_1")
    /\ ps2init[13] = Expect("00")
    /\ ps2init[14] = Send("SELF_TEST")
    /\ ps2init[15] = Expect("FA")
    /\ ps2init[16] = Expect("AA")
    /\ ps2init[17] = Send("MANAGE_SCANCODE_SET")
    /\ ps2init[18] = Expect("FA")
    /\ ps2init[19] = Send("2")
    /\ ps2init[20] = Expect("FA")
    /\ ps2init[21] = Send("ENABLE_SCANNING")
    /\ ps2init[22] = Expect("FA")
<1> DEFINE Step == {Send("DISABLE_PORT_1"),
                       Send("DISABLE_PORT_2"),
                       Flush,
                       Send("TEST_CONTROLLER"),
                       Expect("55"),
                       Send("READ_CONFIG"),
                       ReadConfig,
                       Send("WRITE_CONFIG"),
                       Send("conf"),
                       Send("ENABLE_PORT_1"),
                       Send("TEST_PORT_1"),
                       Expect("00"),
                       Send("SELF_TEST"),
                       Expect("FA"),
                       Expect("AA"),
                       Send("MANAGE_SCANCODE_SET"),
                       Send("2"),
                       Send("ENABLE_SCANNING")}
           a == <<Send("DISABLE_PORT_1"), Send("DISABLE_PORT_2"), Flush>>
           b == a \o controllerPerformSelfTest
           c == b \o writeConfig
           w == <<Send("ENABLE_PORT_1"), Flush, Send("TEST_PORT_1"), Expect("00")>>
           d == c \o w
           e == d \o keyboardPerformSelfTest
           f == e \o setScancodeSet
           g == f \o enableScanning
<1>0. /\ Send("DISABLE_PORT_1") \in Step
      /\ Send("DISABLE_PORT_2") \in Step
      /\ Flush \in Step
      /\ Send("TEST_CONTROLLER") \in Step
      /\ Expect("55") \in Step
      /\ Send("READ_CONFIG") \in Step
      /\ ReadConfig \in Step
      /\ Send("WRITE_CONFIG") \in Step
      /\ Send("conf") \in Step
      /\ Send("ENABLE_PORT_1") \in Step
      /\ Send("TEST_PORT_1") \in Step
      /\ Expect("00") \in Step
      /\ Send("SELF_TEST") \in Step
      /\ Expect("FA") \in Step
      /\ Expect("AA") \in Step
      /\ Send("MANAGE_SCANCODE_SET") \in Step
      /\ Send("2") \in Step
      /\ Send("ENABLE_SCANNING") \in Step
  OBVIOUS
<1> HIDE DEF Step
<1>1. ps2init = g
  BY DEF ps2init
<1>2. /\ a \in Seq(Step)
      /\ Len(a) = 3
      /\ a[1] = Send("DISABLE_PORT_1")
      /\ a[2] = Send("DISABLE_PORT_2")
      /\ a[3] = Flush
  BY <1>0
<1>3. /\ b \in Seq(Step)
      /\ Len(b) = 5
      /\ \A i \in 1 .. 3 : b[i] = a[i]
      /\ b[4] = Send("TEST_CONTROLLER")
      /\ b[5] = Expect("55")
  <2>1. /\ controllerPerformSelfTest \in Seq(Step) /\ Len(controllerPerformSelfTest) = 2
        /\ controllerPerformSelfTest[1] = Send("TEST_CONTROLLER")
        /\ controllerPerformSelfTest[2] = Expect("55")
    BY <1>0 DEF controllerPerformSelfTest
  <2> HIDE DEF a
  <2>2. /\ b \in Seq(Step) /\ Len(b) = Len(a) + Len(controllerPerformSelfTest)
        /\ \A i \in 1 .. Len(a) + Len(controllerPerformSelfTest) :
             b[i] = IF i <= Len(a) THEN a[i] ELSE controllerPerformSelfTest[i - Len(a)]
    BY <1>2, <2>1, ConcatProperties
  <2> HIDE DEF b
  <2>3. /\ b[4] = controllerPerformSelfTest[1]
        /\ b[5] = controllerPerformSelfTest[2]
    BY <1>2, <2>1, <2>2
  <2> QED
    BY <1>2, <2>1, <2>2, <2>3
<1>4. /\ c \in Seq(Step)
      /\ Len(c) = 9
      /\ \A i \in 1 .. 5 : c[i] = b[i]
      /\ c[6] = Send("READ_CONFIG")
      /\ c[7] = ReadConfig
      /\ c[8] = Send("WRITE_CONFIG")
      /\ c[9] = Send("conf")
  <2>1. /\ writeConfig \in Seq(Step) /\ Len(writeConfig) = 4
        /\ writeConfig[1] = Send("READ_CONFIG")
        /\ writeConfig[2] = ReadConfig
        /\ writeConfig[3] = Send("WRITE_CONFIG")
        /\ writeConfig[4] = Send("conf")
    BY <1>0 DEF writeConfig
  <2> HIDE DEF b
  <2>2. /\ c \in Seq(Step) /\ Len(c) = Len(b) + Len(writeConfig)
        /\ \A i \in 1 .. Len(b) + Len(writeConfig) :
             c[i] = IF i <= Len(b) THEN b[i] ELSE writeConfig[i - Len(b)]
    BY <1>3, <2>1, ConcatProperties
  <2> HIDE DEF c
  <2>3. /\ c[6] = writeConfig[1]
        /\ c[7] = writeConfig[2]
        /\ c[8] = writeConfig[3]
        /\ c[9] = writeConfig[4]
    BY <1>3, <2>1, <2>2
  <2> QED
    BY <1>3, <2>1, <2>2, <2>3
<1>5. /\ d \in Seq(Step)
      /\ Len(d) = 13
      /\ \A i \in 1 .. 9 : d[i] = c[i]
      /\ d[10] = Send("ENABLE_PORT_1")
      /\ d[11] = Flush
      /\ d[12] = Send("TEST_PORT_1")
      /\ d[13] = Expect("00")
  <2>1. /\ w \in Seq(Step) /\ Len(w) = 4
        /\ w[1] = Send("ENABLE_PORT_1")
        /\ w[2] = Flush
        /\ w[3] = Send("TEST_PORT_1")
        /\ w[4] = Expect("00")
    BY <1>0
  <2> HIDE DEF c, w
  <2>2. /\ d \in Seq(Step) /\ Len(d) = Len(c) + Len(w)
        /\ \A i \in 1 .. Len(c) + Len(w) :
             d[i] = IF i <= Len(c) THEN c[i] ELSE w[i - Len(c)]
    BY <1>4, <2>1, ConcatProperties
  <2> HIDE DEF d
  <2>3. /\ d[10] = w[1]
        /\ d[11] = w[2]
        /\ d[12] = w[3]
        /\ d[13] = w[4]
    BY <1>4, <2>1, <2>2
  <2> QED
    BY <1>4, <2>1, <2>2, <2>3
<1>6. /\ e \in Seq(Step)
      /\ Len(e) = 16
      /\ \A i \in 1 .. 13 : e[i] = d[i]
      /\ e[14] = Send("SELF_TEST")
      /\ e[15] = Expect("FA")
      /\ e[16] = Expect("AA")
  <2>1. /\ keyboardPerformSelfTest \in Seq(Step) /\ Len(keyboardPerformSelfTest) = 3
        /\ keyboardPerformSelfTest[1] = Send("SELF_TEST")
        /\ keyboardPerformSelfTest[2] = Expect("FA")
        /\ keyboardPerformSelfTest[3] = Expect("AA")
    BY <1>0 DEF keyboardPerformSelfTest
  <2> HIDE DEF d
  <2>2. /\ e \in Seq(Step) /\ Len(e) = Len(d) + Len(keyboardPerformSelfTest)
        /\ \A i \in 1 .. Len(d) + Len(keyboardPerformSelfTest) :
             e[i] = IF i <= Len(d) THEN d[i] ELSE keyboardPerformSelfTest[i - Len(d)]
    BY <1>5, <2>1, ConcatProperties
  <2> HIDE DEF e
  <2>3. /\ e[14] = keyboardPerformSelfTest[1]
        /\ e[15] = keyboardPerformSelfTest[2]
        /\ e[16] = keyboardPerformSelfTest[3]
    BY <1>5, <2>1, <2>2
  <2> QED
    BY <1>5, <2>1, <2>2, <2>3
<1>7. /\ f \in Seq(Step)
      /\ Len(f) = 20
      /\ \A i \in 1 .. 16 : f[i] = e[i]
      /\ f[17] = Send("MANAGE_SCANCODE_SET")
      /\ f[18] = Expect("FA")
      /\ f[19] = Send("2")
      /\ f[20] = Expect("FA")
  <2>1. /\ setScancodeSet \in Seq(Step) /\ Len(setScancodeSet) = 4
        /\ setScancodeSet[1] = Send("MANAGE_SCANCODE_SET")
        /\ setScancodeSet[2] = Expect("FA")
        /\ setScancodeSet[3] = Send("2")
        /\ setScancodeSet[4] = Expect("FA")
    BY <1>0 DEF setScancodeSet
  <2> HIDE DEF e
  <2>2. /\ f \in Seq(Step) /\ Len(f) = Len(e) + Len(setScancodeSet)
        /\ \A i \in 1 .. Len(e) + Len(setScancodeSet) :
             f[i] = IF i <= Len(e) THEN e[i] ELSE setScancodeSet[i - Len(e)]
    BY <1>6, <2>1, ConcatProperties
  <2> HIDE DEF f
  <2>3. /\ f[17] = setScancodeSet[1]
        /\ f[18] = setScancodeSet[2]
        /\ f[19] = setScancodeSet[3]
        /\ f[20] = setScancodeSet[4]
    BY <1>6, <2>1, <2>2
  <2> QED
    BY <1>6, <2>1, <2>2, <2>3
<1>8. /\ g \in Seq(Step)
      /\ Len(g) = 22
      /\ \A i \in 1 .. 20 : g[i] = f[i]
      /\ g[21] = Send("ENABLE_SCANNING")
      /\ g[22] = Expect("FA")
  <2>1. /\ enableScanning \in Seq(Step) /\ Len(enableScanning) = 2
        /\ enableScanning[1] = Send("ENABLE_SCANNING")
        /\ enableScanning[2] = Expect("FA")
    BY <1>0 DEF enableScanning
  <2> HIDE DEF f
  <2>2. /\ g \in Seq(Step) /\ Len(g) = Len(f) + Len(enableScanning)
        /\ \A i \in 1 .. Len(f) + Len(enableScanning) :
             g[i] = IF i <= Len(f) THEN f[i] ELSE enableScanning[i - Len(f)]
    BY <1>7, <2>1, ConcatProperties
  <2> HIDE DEF g
  <2>3. /\ g[21] = enableScanning[1]
        /\ g[22] = enableScanning[2]
    BY <1>7, <2>1, <2>2
  <2> QED
    BY <1>7, <2>1, <2>2, <2>3
<1> HIDE DEF Step, a, b, c, d, e, f, g, w
<1> QED
  BY <1>1, <1>2, <1>3, <1>4, <1>5, <1>6, <1>7, <1>8

-----------------------------------------------------------------------------
(* What a step of the start does, by its kind. *)

SendsByte(b) ==
    /\ device' = Effect(b) /\ out' = out \o Answer(b)
    /\ step' = step + 1 /\ UNCHANGED <<phase, disturbed>>

ExpectsByte(b) ==
    /\ out # <<>> /\ out' = Tail(out)
    /\ disturbed' = (disturbed \/ Head(out) \in Codes)
    /\ IF Head(out) = b THEN phase' = phase /\ step' = step + 1
       ELSE phase' = "failed" /\ step' = step
    /\ UNCHANGED device

\* A step at which a byte is sent.
LEMMA SendStep ==
    ASSUME Starts, step \in 1 .. 22, NEW b, ps2init[step] = Send(b)
    PROVE  SendsByte(b)
<1>1. ps2init[step].do = "send" /\ ps2init[step].byte = b
  BY DEF Send
<1>2. ~Ends
  BY InitSteps DEF Ends
<1>3. Sends
  BY <1>1, <1>2 DEF Starts, Expects, ReadsConfig, flushOutputBuffer
<1> QED
  BY <1>1, <1>3 DEF Sends, SendsByte

\* A step at which an answer is due.
LEMMA ExpectStep ==
    ASSUME Starts, step \in 1 .. 22, NEW b, ps2init[step] = Expect(b)
    PROVE  ExpectsByte(b)
<1>1. ps2init[step].do = "expect" /\ ps2init[step].byte = b
  BY DEF Expect
<1>2. ~Ends
  BY InitSteps DEF Ends
<1>3. Expects
  BY <1>1, <1>2 DEF Starts, Sends, ReadsConfig, flushOutputBuffer
<1> QED
  BY <1>1, <1>3 DEF Expects, ExpectsByte

\* A step at which the output buffer is emptied.
LEMMA FlushStep ==
    ASSUME Starts, step \in 1 .. 22, ps2init[step] = Flush
    PROVE  /\ out = <<>> => step' = step + 1 /\ out' = out /\ disturbed' = disturbed
           /\ out # <<>> => out' = Tail(out) /\ disturbed' = TRUE /\ step' = step
           /\ device' = device /\ phase' = phase
<1> DEFINE s == ps2init[step]
<1>1. s.do = "flush"
  <2>1. s = Flush
    OBVIOUS
  <2> HIDE DEF s
  <2> QED
    BY <2>1 DEF Flush
<1>2. ~Ends
  BY InitSteps DEF Ends
<1>3. flushOutputBuffer
  BY <1>1, <1>2 DEF Starts, Sends, Expects, ReadsConfig
<1> QED
  BY <1>3 DEF flushOutputBuffer

\* The step at which the configuration is read.
LEMMA ConfigStep ==
    ASSUME Starts, step \in 1 .. 22, ps2init[step] = ReadConfig
    PROVE  /\ out # <<>> /\ out' = Tail(out)
           /\ disturbed' = (disturbed \/ Head(out) \in Codes)
           /\ step' = step + 1 /\ UNCHANGED <<device, phase>>
<1>1. ps2init[step].do = "read"
  BY DEF ReadConfig
<1>2. ~Ends
  BY InitSteps DEF Ends
<1>3. ReadsConfig
  BY <1>1, <1>2 DEF Starts, Sends, Expects, flushOutputBuffer
<1> QED
  BY <1>3 DEF ReadsConfig

\* What the bytes of the start set in the device.
LEMMA Effects ==
    /\ Effect("DISABLE_PORT_1") = [device EXCEPT !.enabled = FALSE]
    /\ Effect("ENABLE_PORT_1") = [device EXCEPT !.enabled = TRUE]
    /\ Effect("conf") = [device EXCEPT !.interrupt = TRUE, !.translation = FALSE]
    /\ Effect("SELF_TEST") = [device EXCEPT !.set = "default", !.scanning = TRUE]
    /\ Effect("2") = [device EXCEPT !.set = "2"]
    /\ Effect("ENABLE_SCANNING") = [device EXCEPT !.scanning = TRUE]
    /\ \A b \in {"DISABLE_PORT_2", "TEST_CONTROLLER", "READ_CONFIG", "WRITE_CONFIG",
                 "TEST_PORT_1", "MANAGE_SCANCODE_SET"} : Effect(b) = device
  BY DEF Effect

\* What the device answers to them.
LEMMA TheAnswers ==
    /\ Answer("TEST_CONTROLLER") = <<"55">>
    /\ Answer("READ_CONFIG") = <<"config">>
    /\ Answer("TEST_PORT_1") = <<"00">>
    /\ Answer("SELF_TEST") = <<"FA", "AA">>
    /\ \A b \in {"MANAGE_SCANCODE_SET", "2", "ENABLE_SCANNING"} : Answer(b) = <<"FA">>
    /\ \A b \in {"DISABLE_PORT_1", "DISABLE_PORT_2", "WRITE_CONFIG", "conf",
                 "ENABLE_PORT_1"} : Answer(b) = <<>>
  BY DEF Answer

-----------------------------------------------------------------------------
(* The start of the keyboard.                                              *)

\* The bytes of the device.
Bytes == Codes \union Answers

\* What the commands have set before step s.
Device(s) ==
    IF s = 1 THEN [enabled |-> TRUE, interrupt |-> FALSE, translation |-> TRUE,
                   scanning |-> TRUE, set |-> "default"]
    ELSE IF s <= 9 THEN [enabled |-> FALSE, interrupt |-> FALSE, translation |-> TRUE,
                         scanning |-> TRUE, set |-> "default"]
    ELSE IF s = 10 THEN [enabled |-> FALSE, interrupt |-> TRUE, translation |-> FALSE,
                         scanning |-> TRUE, set |-> "default"]
    ELSE [enabled |-> TRUE, interrupt |-> TRUE, translation |-> FALSE,
          scanning |-> TRUE, set |-> IF s <= 19 THEN "default" ELSE "2"]

\* The bytes are these; no answer is under way; one is, which is a; the two of a self test are.
Only(s, bytes) == s = bytes
NoAnswer(s) == \A i \in DOMAIN s : s[i] \notin Answers
OneAnswer(s, a) ==
    \E n \in DOMAIN s : s[n] = a /\ \A i \in DOMAIN s : i # n => s[i] \notin Answers
TwoAnswers(s) ==
    \E n, m \in DOMAIN s : /\ n < m /\ s[n] = "FA" /\ s[m] = "AA"
                           /\ \A i \in DOMAIN s : i \notin {n, m} => s[i] \notin Answers

\* The bytes at the data port before step s: while the port is disabled they are
\* the answer that is due and no other, otherwise the codes of keys may surround it.
Due(s) ==
    /\ s \in {4, 6, 8, 9, 10} => Only(out, <<>>)
    /\ s = 5 => Only(out, <<"55">>)
    /\ s = 7 => Only(out, <<"config">>)
    /\ s \in {1, 2, 3, 11, 12, 14, 17, 19, 21, 23} => NoAnswer(out)
    /\ s = 13 => OneAnswer(out, "00")
    /\ s = 15 => TwoAnswers(out)
    /\ s = 16 => OneAnswer(out, "AA")
    /\ s \in {18, 20, 22} => OneAnswer(out, "FA")

ReadyInv ==
    /\ out \in Seq(Bytes)
    /\ step \in 1 .. 23
    /\ phase \in {"init", "ok", "failed"}
    /\ disturbed \in BOOLEAN
    /\ phase = "init" => device = Device(step) /\ Due(step)
    /\ phase = "ok" => device = Device(23) /\ NoAnswer(out)
    /\ phase = "failed" => disturbed

\* No code of a key is an answer.
LEMMA CodesApart == Codes \intersect Answers = {}
  BY KeyboardAssumption DEF Codes, Answers

\* Codes of keys that arrive leave the answers as they are.
LEMMA CodesArrive ==
    ASSUME NEW s \in Seq(Bytes), NEW c \in Seq(Codes)
    PROVE  /\ s \o c \in Seq(Bytes)
           /\ NoAnswer(s) => NoAnswer(s \o c)
           /\ \A a : OneAnswer(s, a) => OneAnswer(s \o c, a)
           /\ TwoAnswers(s) => TwoAnswers(s \o c)
<1> DEFINE r == s \o c
<1>1. c \in Seq(Bytes)
  BY DEF Bytes
<1>2. /\ r \in Seq(Bytes) /\ Len(r) = Len(s) + Len(c)
      /\ \A i \in 1 .. Len(s) + Len(c) : r[i] = IF i <= Len(s) THEN s[i] ELSE c[i - Len(s)]
  BY <1>1, ConcatProperties
<1> HIDE DEF r
<1>3. /\ Len(s) \in Nat /\ DOMAIN s = 1 .. Len(s)
      /\ Len(c) \in Nat /\ DOMAIN c = 1 .. Len(c)
      /\ DOMAIN r = 1 .. Len(s) + Len(c)
  BY <1>2
<1>4. \A i \in DOMAIN s : i \in DOMAIN r /\ r[i] = s[i]
  BY <1>2, <1>3
<1>5. ASSUME NEW i \in DOMAIN r, i \notin DOMAIN s PROVE r[i] \notin Answers
  <2>1. i - Len(s) \in 1 .. Len(c) /\ r[i] = c[i - Len(s)]
    BY <1>2, <1>3, <1>5
  <2>2. r[i] \in Codes
    BY <2>1, ElementOfSeq
  <2> QED
    BY <2>2, CodesApart
<1>6. NoAnswer(s) => NoAnswer(r)
  BY <1>4, <1>5 DEF NoAnswer
<1>7. ASSUME NEW a, OneAnswer(s, a) PROVE OneAnswer(r, a)
  <2>1. PICK n \in DOMAIN s : s[n] = a /\ \A i \in DOMAIN s : i # n => s[i] \notin Answers
    BY <1>7 DEF OneAnswer
  <2> QED
    BY <2>1, <1>4, <1>5 DEF OneAnswer
<1>8. ASSUME TwoAnswers(s) PROVE TwoAnswers(r)
  <2>1. PICK n \in DOMAIN s, m \in DOMAIN s :
          /\ n < m /\ s[n] = "FA" /\ s[m] = "AA"
          /\ \A i \in DOMAIN s : i \notin {n, m} => s[i] \notin Answers
    BY <1>8 DEF TwoAnswers
  <2> QED
    BY <2>1, <1>4, <1>5 DEF TwoAnswers
<1> QED
  BY <1>2, <1>6, <1>7, <1>8 DEF r

\* Answers that arrive when none is under way.
LEMMA AnswersArrive ==
    ASSUME NEW s \in Seq(Bytes), NoAnswer(s)
    PROVE  /\ s \o <<>> = s
           /\ \A a \in Answers : s \o <<a>> \in Seq(Bytes) /\ OneAnswer(s \o <<a>>, a)
           /\ s \o <<"FA", "AA">> \in Seq(Bytes) /\ TwoAnswers(s \o <<"FA", "AA">>)
<1>1. s \o <<>> = s
  BY ConcatEmptySeq
<1>2. Len(s) \in Nat /\ DOMAIN s = 1 .. Len(s)
  OBVIOUS
<1>3. ASSUME NEW a \in Answers PROVE s \o <<a>> \in Seq(Bytes) /\ OneAnswer(s \o <<a>>, a)
  <2> DEFINE t == <<a>>
             r == s \o t
  <2>1. t \in Seq(Bytes) /\ Len(t) = 1 /\ t[1] = a
    BY DEF Bytes
  <2> HIDE DEF t
  <2>2. /\ r \in Seq(Bytes) /\ Len(r) = Len(s) + Len(t)
        /\ \A i \in 1 .. Len(s) + Len(t) :
             r[i] = IF i <= Len(s) THEN s[i] ELSE t[i - Len(s)]
    BY <2>1, ConcatProperties
  <2> HIDE DEF r
  <2>3. DOMAIN r = 1 .. Len(s) + 1 /\ r[Len(s) + 1] = a
    BY <1>2, <2>1, <2>2
  <2>4. \A i \in DOMAIN r : i # Len(s) + 1 => i \in DOMAIN s /\ r[i] = s[i]
    BY <1>2, <2>1, <2>2, <2>3
  <2>5. Len(s) + 1 \in DOMAIN r
    BY <1>2, <2>3
  <2>6. OneAnswer(r, a)
    BY <2>3, <2>4, <2>5 DEF OneAnswer, NoAnswer
  <2> QED
    BY <2>2, <2>6 DEF r, t
<1>4. s \o <<"FA", "AA">> \in Seq(Bytes) /\ TwoAnswers(s \o <<"FA", "AA">>)
  <2> DEFINE t == <<"FA", "AA">>
             r == s \o t
             n == Len(s) + 1
             m == Len(s) + 2
  <2>1. t \in Seq(Bytes) /\ Len(t) = 2 /\ t[1] = "FA" /\ t[2] = "AA"
    BY DEF Bytes, Answers
  <2> HIDE DEF t
  <2>2. /\ r \in Seq(Bytes) /\ Len(r) = Len(s) + Len(t)
        /\ \A i \in 1 .. Len(s) + Len(t) :
             r[i] = IF i <= Len(s) THEN s[i] ELSE t[i - Len(s)]
    BY <2>1, ConcatProperties
  <2> HIDE DEF r
  <2>3. DOMAIN r = 1 .. Len(s) + 2 /\ r[n] = "FA" /\ r[m] = "AA"
    BY <1>2, <2>1, <2>2
  <2>4. \A i \in DOMAIN r : i \notin {n, m} => i \in DOMAIN s /\ r[i] = s[i]
    BY <1>2, <2>1, <2>2, <2>3
  <2>5. n \in DOMAIN r /\ m \in DOMAIN r /\ n < m
    BY <1>2, <2>3
  <2> HIDE DEF n, m
  <2>6. TwoAnswers(r)
    BY <2>3, <2>4, <2>5 DEF TwoAnswers, NoAnswer
  <2> QED
    BY <2>2, <2>6 DEF r, t
<1> QED
  BY <1>1, <1>3, <1>4

\* A byte is taken: it is the answer that is due or the code of a key.
LEMMA ByteTaken ==
    ASSUME NEW s \in Seq(Bytes), s # <<>>
    PROVE  /\ Tail(s) \in Seq(Bytes)
           /\ NoAnswer(s) => NoAnswer(Tail(s))
           /\ \A a \in Answers : OneAnswer(s, a) =>
                IF Head(s) = a THEN NoAnswer(Tail(s)) ELSE Head(s) \in Codes
           /\ TwoAnswers(s) =>
                IF Head(s) = "FA" THEN OneAnswer(Tail(s), "AA") ELSE Head(s) \in Codes
<1> DEFINE r == Tail(s)
<1>1. /\ Len(s) \in Nat \ {0} /\ DOMAIN s = 1 .. Len(s)
      /\ Head(s) = s[1] /\ s[1] \in Bytes
  BY EmptySeq
<1>2. /\ r \in Seq(Bytes) /\ Len(r) = Len(s) - 1
      /\ \A i \in 1 .. Len(r) : r[i] = s[i + 1]
  BY HeadTailProperties
<1> HIDE DEF r
<1>3. DOMAIN r = 1 .. Len(s) - 1
  BY <1>2
<1>4. \A i \in DOMAIN r : i + 1 \in DOMAIN s /\ i + 1 # 1 /\ r[i] = s[i + 1]
  BY <1>1, <1>2, <1>3
<1>5. \A n \in DOMAIN s : n # 1 => n - 1 \in DOMAIN r /\ r[n - 1] = s[n]
  BY <1>1, <1>2, <1>3
<1>6. s[1] \notin Answers => Head(s) \in Codes
  BY <1>1 DEF Bytes
<1>7. NoAnswer(s) => NoAnswer(r)
  BY <1>4 DEF NoAnswer
<1>8. ASSUME NEW a \in Answers, OneAnswer(s, a)
      PROVE  IF Head(s) = a THEN NoAnswer(r) ELSE Head(s) \in Codes
  <2>1. PICK n \in DOMAIN s : s[n] = a /\ \A i \in DOMAIN s : i # n => s[i] \notin Answers
    BY <1>8 DEF OneAnswer
  <2>2. 1 \in DOMAIN s
    BY <1>1
  <2>3. CASE Head(s) = a
    <3>1. n = 1
      BY <1>1, <2>1, <2>2, <2>3
    <3> QED
      BY <1>4, <2>1, <2>3, <3>1 DEF NoAnswer
  <2>4. CASE Head(s) # a
    BY <1>1, <1>6, <2>1, <2>2, <2>4
  <2> QED
    BY <2>3, <2>4
<1>9. ASSUME TwoAnswers(s)
      PROVE  IF Head(s) = "FA" THEN OneAnswer(r, "AA") ELSE Head(s) \in Codes
  <2>1. PICK n \in DOMAIN s, m \in DOMAIN s :
          /\ n < m /\ s[n] = "FA" /\ s[m] = "AA"
          /\ \A i \in DOMAIN s : i \notin {n, m} => s[i] \notin Answers
    BY <1>9 DEF TwoAnswers
  <2>2. 1 \in DOMAIN s /\ m # 1
    BY <1>1, <2>1
  <2>3. CASE Head(s) = "FA"
    <3>1. n = 1
      BY <1>1, <2>1, <2>2, <2>3 DEF Answers
    <3>2. m - 1 \in DOMAIN r /\ r[m - 1] = "AA"
      BY <1>5, <2>1, <2>2
    <3>3. ASSUME NEW i \in DOMAIN r, i # m - 1 PROVE r[i] \notin Answers
      <4>1. i + 1 # m /\ i + 1 # n
        BY <1>1, <1>3, <3>1, <3>3
      <4> QED
        BY <1>4, <2>1, <4>1
    <3> QED
      BY <2>3, <3>2, <3>3 DEF OneAnswer
  <2>4. CASE Head(s) # "FA"
    BY <1>1, <1>6, <2>1, <2>2, <2>4
  <2> QED
    BY <2>3, <2>4
<1> QED
  BY <1>2, <1>7, <1>8, <1>9 DEF r

\* The start keeps ReadyInv, step by step.
LEMMA ReadyStarts == ASSUME ReadyInv, Starts PROVE ReadyInv'
<1>1. /\ out \in Seq(Bytes) /\ disturbed \in BOOLEAN /\ step \in 1 .. 23
      /\ phase = "init" /\ device = Device(step) /\ Due(step)
  BY DEF ReadyInv, Starts
<1>2. ASSUME /\ out' \in Seq(Bytes) /\ disturbed' \in BOOLEAN /\ step' \in 1 .. 23
             /\ phase' = "init" /\ device' = Device(step') /\ Due(step)'
      PROVE  ReadyInv'
  BY <1>2 DEF ReadyInv
<1>3. ASSUME /\ out' \in Seq(Bytes) /\ disturbed' /\ disturbed' \in BOOLEAN
             /\ step' \in 1 .. 23 /\ phase' = "failed"
      PROVE  ReadyInv'
  BY <1>3 DEF ReadyInv
<1>4. CASE step = 1
  <2>1. ps2init[step] = Send("DISABLE_PORT_1")
    BY <1>4, InitSteps
  <2>2. /\ device' = Effect("DISABLE_PORT_1") /\ out' = out \o Answer("DISABLE_PORT_1")
        /\ step' = 2 /\ UNCHANGED <<phase, disturbed>>
    BY <1>4, <2>1, SendStep DEF SendsByte
  <2>3. device' = Device(2)
    BY <1>4, <1>1, <2>2, Effects DEF Device
  <2>4. out' \in Seq(Bytes) /\ Due(step)'
    <3>1. NoAnswer(out)
      BY <1>4, <1>1 DEF Due
    <3>2. out' = out \o <<>>
      BY <2>2, TheAnswers
    <3>3. out' \in Seq(Bytes) /\ NoAnswer(out')
      BY <1>1, <3>1, <3>2, AnswersArrive DEF Answers
    <3> QED
      BY <2>2, <3>3 DEF Due
  <2> QED
    BY <1>1, <1>2, <2>2, <2>3, <2>4
<1>5. CASE step = 2
  <2>1. ps2init[step] = Send("DISABLE_PORT_2")
    BY <1>5, InitSteps
  <2>2. /\ device' = Effect("DISABLE_PORT_2") /\ out' = out \o Answer("DISABLE_PORT_2")
        /\ step' = 3 /\ UNCHANGED <<phase, disturbed>>
    BY <1>5, <2>1, SendStep DEF SendsByte
  <2>3. device' = Device(3)
    BY <1>5, <1>1, <2>2, Effects DEF Device
  <2>4. out' \in Seq(Bytes) /\ Due(step)'
    <3>1. NoAnswer(out)
      BY <1>5, <1>1 DEF Due
    <3>2. out' = out \o <<>>
      BY <2>2, TheAnswers
    <3>3. out' \in Seq(Bytes) /\ NoAnswer(out')
      BY <1>1, <3>1, <3>2, AnswersArrive DEF Answers
    <3> QED
      BY <2>2, <3>3 DEF Due
  <2> QED
    BY <1>1, <1>2, <2>2, <2>3, <2>4
<1>6. CASE step = 3
  <2>1. ps2init[step] = Flush
    BY <1>6, InitSteps
  <2>2. /\ out = <<>> => step' = 4 /\ out' = out /\ disturbed' = disturbed
        /\ out # <<>> => out' = Tail(out) /\ disturbed' = TRUE /\ step' = 3
        /\ device' = device /\ phase' = phase
    <3>1. step \in 1 .. 22
      BY <1>6
    <3>2. /\ out = <<>> => step' = step + 1 /\ out' = out /\ disturbed' = disturbed
          /\ out # <<>> => out' = Tail(out) /\ disturbed' = TRUE /\ step' = step
          /\ device' = device /\ phase' = phase
      BY <2>1, <3>1, FlushStep, Zenon
    <3> QED
      BY <1>6, <3>2
  <2>3. NoAnswer(out)
    BY <1>6, <1>1 DEF Due
  <2>4. device' = Device(step')
    <3>1. device = Device(3) /\ Device(3) = Device(4) /\ step' \in {3, 4}
      BY <1>6, <1>1, <2>2 DEF Device
    <3> QED
      BY <2>2, <3>1
  <2>5. out' \in Seq(Bytes) /\ NoAnswer(out') /\ (out = <<>> => Only(out', <<>>))
    BY <1>1, <2>2, <2>3, ByteTaken DEF Only
  <2>6. Due(step)'
    BY <2>2, <2>5 DEF Due
  <2>7. step' \in 1 .. 23 /\ phase' = "init"
    BY <1>1, <2>2
  <2>8. disturbed' \in BOOLEAN
    BY <1>1, <2>2, Zenon
  <2> QED
    BY <1>2, <2>4, <2>5, <2>6, <2>7, <2>8
<1>7. CASE step = 4
  <2>1. ps2init[step] = Send("TEST_CONTROLLER")
    BY <1>7, InitSteps
  <2>2. /\ device' = Effect("TEST_CONTROLLER") /\ out' = out \o Answer("TEST_CONTROLLER")
        /\ step' = 5 /\ UNCHANGED <<phase, disturbed>>
    BY <1>7, <2>1, SendStep DEF SendsByte
  <2>3. device' = Device(5)
    BY <1>7, <1>1, <2>2, Effects DEF Device
  <2>4. out' \in Seq(Bytes) /\ Due(step)'
    <3>1. out = <<>>
      BY <1>7, <1>1 DEF Due, Only
    <3>2. <<>> \o <<"55">> = <<"55">> /\ <<"55">> \in Seq(Bytes)
      <4>1. <<"55">> \in Seq(Bytes)
        BY DEF Bytes, Answers
      <4> QED
        BY <4>1, ConcatEmptySeq
    <3>3. out' = <<"55">>
      BY <2>2, <3>1, <3>2, TheAnswers
    <3>4. Only(out', <<"55">>)
      BY <3>3 DEF Only
    <3>5. Due(step)'
      BY <2>2, <3>4 DEF Due
    <3> QED
      BY <3>2, <3>3, <3>5
  <2> QED
    BY <1>1, <1>2, <2>2, <2>3, <2>4
<1>8. CASE step = 5
  <2>1. ps2init[step] = Expect("55")
    BY <1>8, InitSteps
  <2>2. /\ out # <<>> /\ out' = Tail(out)
        /\ disturbed' = (disturbed \/ Head(out) \in Codes)
        /\ IF Head(out) = "55" THEN phase' = phase /\ step' = 6
           ELSE phase' = "failed" /\ step' = 5
        /\ UNCHANGED device
    BY <1>8, <2>1, ExpectStep DEF ExpectsByte
  <2>3. Head(out) = "55" /\ out' = <<>> /\ Only(out', <<>>)
    BY <1>8, <1>1, <2>2 DEF Due, Only
  <2>4. device' = Device(step')
    BY <1>8, <1>1, <2>2, <2>3 DEF Device
  <2>5. out' \in Seq(Bytes) /\ Due(step)'
    <3>1. Due(step)'
      BY <2>2, <2>3 DEF Due
    <3> QED
      BY <2>3, <3>1
  <2> QED
    BY <1>1, <1>2, <2>2, <2>3, <2>4, <2>5
<1>9. CASE step = 6
  <2>1. ps2init[step] = Send("READ_CONFIG")
    BY <1>9, InitSteps
  <2>2. /\ device' = Effect("READ_CONFIG") /\ out' = out \o Answer("READ_CONFIG")
        /\ step' = 7 /\ UNCHANGED <<phase, disturbed>>
    BY <1>9, <2>1, SendStep DEF SendsByte
  <2>3. device' = Device(7)
    BY <1>9, <1>1, <2>2, Effects DEF Device
  <2>4. out' \in Seq(Bytes) /\ Due(step)'
    <3>1. out = <<>>
      BY <1>9, <1>1 DEF Due, Only
    <3>2. <<>> \o <<"config">> = <<"config">> /\ <<"config">> \in Seq(Bytes)
      <4>1. <<"config">> \in Seq(Bytes)
        BY DEF Bytes, Answers
      <4> QED
        BY <4>1, ConcatEmptySeq
    <3>3. out' = <<"config">>
      BY <2>2, <3>1, <3>2, TheAnswers
    <3>4. Only(out', <<"config">>)
      BY <3>3 DEF Only
    <3>5. Due(step)'
      BY <2>2, <3>4 DEF Due
    <3> QED
      BY <3>2, <3>3, <3>5
  <2> QED
    BY <1>1, <1>2, <2>2, <2>3, <2>4
<1>10. CASE step = 7
  <2>1. ps2init[step] = ReadConfig
    BY <1>10, InitSteps
  <2>2. /\ out # <<>> /\ out' = Tail(out)
        /\ disturbed' = (disturbed \/ Head(out) \in Codes)
        /\ step' = 8 /\ UNCHANGED <<device, phase>>
    BY <1>10, <2>1, ConfigStep
  <2>3. device' = Device(step')
    BY <1>10, <1>1, <2>2 DEF Device
  <2>4. out' = <<>> /\ Only(out', <<>>)
    BY <1>10, <1>1, <2>2 DEF Due, Only
  <2>5. out' \in Seq(Bytes) /\ Due(step)'
    <3>1. Due(step)'
      BY <2>2, <2>4 DEF Due
    <3> QED
      BY <2>4, <3>1
  <2> QED
    BY <1>1, <1>2, <2>2, <2>3, <2>5
<1>11. CASE step = 8
  <2>1. ps2init[step] = Send("WRITE_CONFIG")
    BY <1>11, InitSteps
  <2>2. /\ device' = Effect("WRITE_CONFIG") /\ out' = out \o Answer("WRITE_CONFIG")
        /\ step' = 9 /\ UNCHANGED <<phase, disturbed>>
    BY <1>11, <2>1, SendStep DEF SendsByte
  <2>3. device' = Device(9)
    BY <1>11, <1>1, <2>2, Effects DEF Device
  <2>4. out' \in Seq(Bytes) /\ Due(step)'
    <3>1. out = <<>>
      BY <1>11, <1>1 DEF Due, Only
    <3>2. <<>> \o <<>> = <<>> /\ <<>> \in Seq(Bytes)
      <4>1. <<>> \in Seq(Bytes)
        BY DEF Bytes, Answers
      <4> QED
        BY <4>1, ConcatEmptySeq
    <3>3. out' = <<>>
      BY <2>2, <3>1, <3>2, TheAnswers
    <3>4. Only(out', <<>>)
      BY <3>3 DEF Only
    <3>5. Due(step)'
      BY <2>2, <3>4 DEF Due
    <3> QED
      BY <3>2, <3>3, <3>5
  <2> QED
    BY <1>1, <1>2, <2>2, <2>3, <2>4
<1>12. CASE step = 9
  <2>1. ps2init[step] = Send("conf")
    BY <1>12, InitSteps
  <2>2. /\ device' = Effect("conf") /\ out' = out \o Answer("conf")
        /\ step' = 10 /\ UNCHANGED <<phase, disturbed>>
    BY <1>12, <2>1, SendStep DEF SendsByte
  <2>3. device' = Device(10)
    <3> DEFINE d ==
            [enabled |-> FALSE, interrupt |-> FALSE, translation |-> TRUE,
             scanning |-> TRUE, set |-> "default"]
    <3>1. device = d
      BY <1>12, <1>1 DEF Device
    <3>2. device' = [d EXCEPT !.interrupt = TRUE, !.translation = FALSE]
      BY <2>2, <3>1, Effects
    <3>3. device' =
            [enabled |-> FALSE, interrupt |-> TRUE, translation |-> FALSE,
             scanning |-> TRUE, set |-> "default"]
      BY <3>2
    <3> QED
      BY <3>3 DEF Device
  <2>4. out' \in Seq(Bytes) /\ Due(step)'
    <3>1. out = <<>>
      BY <1>12, <1>1 DEF Due, Only
    <3>2. <<>> \o <<>> = <<>> /\ <<>> \in Seq(Bytes)
      <4>1. <<>> \in Seq(Bytes)
        BY DEF Bytes, Answers
      <4> QED
        BY <4>1, ConcatEmptySeq
    <3>3. out' = <<>>
      BY <2>2, <3>1, <3>2, TheAnswers
    <3>4. Only(out', <<>>)
      BY <3>3 DEF Only
    <3>5. Due(step)'
      BY <2>2, <3>4 DEF Due
    <3> QED
      BY <3>2, <3>3, <3>5
  <2> QED
    BY <1>1, <1>2, <2>2, <2>3, <2>4
<1>13. CASE step = 10
  <2>1. ps2init[step] = Send("ENABLE_PORT_1")
    BY <1>13, InitSteps
  <2>2. /\ device' = Effect("ENABLE_PORT_1") /\ out' = out \o Answer("ENABLE_PORT_1")
        /\ step' = 11 /\ UNCHANGED <<phase, disturbed>>
    BY <1>13, <2>1, SendStep DEF SendsByte
  <2>3. device' = Device(11)
    BY <1>13, <1>1, <2>2, Effects DEF Device
  <2>4. out' \in Seq(Bytes) /\ Due(step)'
    <3>1. NoAnswer(out)
      BY <1>13, <1>1 DEF Due, Only, NoAnswer
    <3>2. out' = out \o <<>>
      BY <2>2, TheAnswers
    <3>3. out' \in Seq(Bytes) /\ NoAnswer(out')
      BY <1>1, <3>1, <3>2, AnswersArrive DEF Answers
    <3> QED
      BY <2>2, <3>3 DEF Due
  <2> QED
    BY <1>1, <1>2, <2>2, <2>3, <2>4
<1>14. CASE step = 11
  <2>1. ps2init[step] = Flush
    BY <1>14, InitSteps
  <2>2. /\ out = <<>> => step' = 12 /\ out' = out /\ disturbed' = disturbed
        /\ out # <<>> => out' = Tail(out) /\ disturbed' = TRUE /\ step' = 11
        /\ device' = device /\ phase' = phase
    <3>1. step \in 1 .. 22
      BY <1>14
    <3>2. /\ out = <<>> => step' = step + 1 /\ out' = out /\ disturbed' = disturbed
          /\ out # <<>> => out' = Tail(out) /\ disturbed' = TRUE /\ step' = step
          /\ device' = device /\ phase' = phase
      BY <2>1, <3>1, FlushStep, Zenon
    <3> QED
      BY <1>14, <3>2
  <2>3. NoAnswer(out)
    BY <1>14, <1>1 DEF Due
  <2>4. device' = Device(step')
    <3>1. device = Device(11) /\ Device(11) = Device(12) /\ step' \in {11, 12}
      BY <1>14, <1>1, <2>2 DEF Device
    <3> QED
      BY <2>2, <3>1
  <2>5. out' \in Seq(Bytes) /\ NoAnswer(out') /\ (out = <<>> => Only(out', <<>>))
    BY <1>1, <2>2, <2>3, ByteTaken DEF Only
  <2>6. Due(step)'
    BY <2>2, <2>5 DEF Due
  <2>7. step' \in 1 .. 23 /\ phase' = "init"
    BY <1>1, <2>2
  <2>8. disturbed' \in BOOLEAN
    BY <1>1, <2>2, Zenon
  <2> QED
    BY <1>2, <2>4, <2>5, <2>6, <2>7, <2>8
<1>15. CASE step = 12
  <2>1. ps2init[step] = Send("TEST_PORT_1")
    BY <1>15, InitSteps
  <2>2. /\ device' = Effect("TEST_PORT_1") /\ out' = out \o Answer("TEST_PORT_1")
        /\ step' = 13 /\ UNCHANGED <<phase, disturbed>>
    BY <1>15, <2>1, SendStep DEF SendsByte
  <2>3. device' = Device(13)
    BY <1>15, <1>1, <2>2, Effects DEF Device
  <2>4. out' \in Seq(Bytes) /\ Due(step)'
    <3>1. NoAnswer(out)
      BY <1>15, <1>1 DEF Due
    <3>2. out' = out \o <<"00">>
      BY <2>2, TheAnswers
    <3>3. out' \in Seq(Bytes) /\ OneAnswer(out', "00")
      BY <1>1, <3>1, <3>2, AnswersArrive DEF Answers
    <3> QED
      BY <2>2, <3>3 DEF Due
  <2> QED
    BY <1>1, <1>2, <2>2, <2>3, <2>4
<1>16. CASE step = 13
  <2>1. ps2init[step] = Expect("00")
    BY <1>16, InitSteps
  <2>2. /\ out # <<>> /\ out' = Tail(out)
        /\ disturbed' = (disturbed \/ Head(out) \in Codes)
        /\ IF Head(out) = "00" THEN phase' = phase /\ step' = 14
           ELSE phase' = "failed" /\ step' = 13
        /\ UNCHANGED device
    BY <1>16, <2>1, ExpectStep DEF ExpectsByte
  <2>3. /\ out' \in Seq(Bytes)
        /\ IF Head(out) = "00" THEN NoAnswer(out') ELSE Head(out) \in Codes
    BY <1>16, <1>1, <2>2, ByteTaken DEF Due, Answers
  <2>4. CASE Head(out) = "00"
    <3>1. device' = Device(step')
      BY <1>16, <1>1, <2>2, <2>4 DEF Device
    <3>2. Due(step)'
      BY <2>2, <2>3, <2>4 DEF Due
    <3> QED
      BY <1>1, <1>2, <2>2, <2>3, <2>4, <3>1, <3>2
  <2>5. CASE Head(out) # "00"
    BY <1>16, <1>1, <1>3, <2>2, <2>3, <2>5
  <2> QED
    BY <2>4, <2>5
<1>17. CASE step = 14
  <2>1. ps2init[step] = Send("SELF_TEST")
    BY <1>17, InitSteps
  <2>2. /\ device' = Effect("SELF_TEST") /\ out' = out \o Answer("SELF_TEST")
        /\ step' = 15 /\ UNCHANGED <<phase, disturbed>>
    BY <1>17, <2>1, SendStep DEF SendsByte
  <2>3. device' = Device(15)
    <3> DEFINE d ==
            [enabled |-> TRUE, interrupt |-> TRUE, translation |-> FALSE,
             scanning |-> TRUE, set |-> "default"]
    <3>1. device = d
      BY <1>17, <1>1 DEF Device
    <3>2. device' = [d EXCEPT !.set = "default", !.scanning = TRUE]
      BY <2>2, <3>1, Effects
    <3>3. device' =
            [enabled |-> TRUE, interrupt |-> TRUE, translation |-> FALSE,
             scanning |-> TRUE, set |-> "default"]
      BY <3>2
    <3> QED
      BY <3>3 DEF Device
  <2>4. out' \in Seq(Bytes) /\ Due(step)'
    <3>1. NoAnswer(out)
      BY <1>17, <1>1 DEF Due
    <3>2. out' = out \o <<"FA", "AA">>
      BY <2>2, TheAnswers
    <3>3. out' \in Seq(Bytes) /\ TwoAnswers(out')
      BY <1>1, <3>1, <3>2, AnswersArrive DEF Answers
    <3> QED
      BY <2>2, <3>3 DEF Due
  <2> QED
    BY <1>1, <1>2, <2>2, <2>3, <2>4
<1>18. CASE step = 15
  <2>1. ps2init[step] = Expect("FA")
    BY <1>18, InitSteps
  <2>2. /\ out # <<>> /\ out' = Tail(out)
        /\ disturbed' = (disturbed \/ Head(out) \in Codes)
        /\ IF Head(out) = "FA" THEN phase' = phase /\ step' = 16
           ELSE phase' = "failed" /\ step' = 15
        /\ UNCHANGED device
    BY <1>18, <2>1, ExpectStep DEF ExpectsByte
  <2>3. /\ out' \in Seq(Bytes)
        /\ IF Head(out) = "FA" THEN OneAnswer(out', "AA") ELSE Head(out) \in Codes
    BY <1>18, <1>1, <2>2, ByteTaken DEF Due
  <2>4. CASE Head(out) = "FA"
    <3>1. device' = Device(step')
      BY <1>18, <1>1, <2>2, <2>4 DEF Device
    <3>2. Due(step)'
      BY <2>2, <2>3, <2>4 DEF Due
    <3> QED
      BY <1>1, <1>2, <2>2, <2>3, <2>4, <3>1, <3>2
  <2>5. CASE Head(out) # "FA"
    BY <1>18, <1>1, <1>3, <2>2, <2>3, <2>5
  <2> QED
    BY <2>4, <2>5
<1>19. CASE step = 16
  <2>1. ps2init[step] = Expect("AA")
    BY <1>19, InitSteps
  <2>2. /\ out # <<>> /\ out' = Tail(out)
        /\ disturbed' = (disturbed \/ Head(out) \in Codes)
        /\ IF Head(out) = "AA" THEN phase' = phase /\ step' = 17
           ELSE phase' = "failed" /\ step' = 16
        /\ UNCHANGED device
    BY <1>19, <2>1, ExpectStep DEF ExpectsByte
  <2>3. /\ out' \in Seq(Bytes)
        /\ IF Head(out) = "AA" THEN NoAnswer(out') ELSE Head(out) \in Codes
    BY <1>19, <1>1, <2>2, ByteTaken DEF Due, Answers
  <2>4. CASE Head(out) = "AA"
    <3>1. device' = Device(step')
      BY <1>19, <1>1, <2>2, <2>4 DEF Device
    <3>2. Due(step)'
      BY <2>2, <2>3, <2>4 DEF Due
    <3> QED
      BY <1>1, <1>2, <2>2, <2>3, <2>4, <3>1, <3>2
  <2>5. CASE Head(out) # "AA"
    BY <1>19, <1>1, <1>3, <2>2, <2>3, <2>5
  <2> QED
    BY <2>4, <2>5
<1>20. CASE step = 17
  <2>1. ps2init[step] = Send("MANAGE_SCANCODE_SET")
    BY <1>20, InitSteps
  <2>2. /\ device' = Effect("MANAGE_SCANCODE_SET") /\ out' = out \o Answer("MANAGE_SCANCODE_SET")
        /\ step' = 18 /\ UNCHANGED <<phase, disturbed>>
    BY <1>20, <2>1, SendStep DEF SendsByte
  <2>3. device' = Device(18)
    BY <1>20, <1>1, <2>2, Effects DEF Device
  <2>4. out' \in Seq(Bytes) /\ Due(step)'
    <3>1. NoAnswer(out)
      BY <1>20, <1>1 DEF Due
    <3>2. out' = out \o <<"FA">>
      BY <2>2, TheAnswers
    <3>3. out' \in Seq(Bytes) /\ OneAnswer(out', "FA")
      BY <1>1, <3>1, <3>2, AnswersArrive DEF Answers
    <3> QED
      BY <2>2, <3>3 DEF Due
  <2> QED
    BY <1>1, <1>2, <2>2, <2>3, <2>4
<1>21. CASE step = 18
  <2>1. ps2init[step] = Expect("FA")
    BY <1>21, InitSteps
  <2>2. /\ out # <<>> /\ out' = Tail(out)
        /\ disturbed' = (disturbed \/ Head(out) \in Codes)
        /\ IF Head(out) = "FA" THEN phase' = phase /\ step' = 19
           ELSE phase' = "failed" /\ step' = 18
        /\ UNCHANGED device
    BY <1>21, <2>1, ExpectStep DEF ExpectsByte
  <2>3. /\ out' \in Seq(Bytes)
        /\ IF Head(out) = "FA" THEN NoAnswer(out') ELSE Head(out) \in Codes
    BY <1>21, <1>1, <2>2, ByteTaken DEF Due, Answers
  <2>4. CASE Head(out) = "FA"
    <3>1. device' = Device(step')
      BY <1>21, <1>1, <2>2, <2>4 DEF Device
    <3>2. Due(step)'
      BY <2>2, <2>3, <2>4 DEF Due
    <3> QED
      BY <1>1, <1>2, <2>2, <2>3, <2>4, <3>1, <3>2
  <2>5. CASE Head(out) # "FA"
    BY <1>21, <1>1, <1>3, <2>2, <2>3, <2>5
  <2> QED
    BY <2>4, <2>5
<1>22. CASE step = 19
  <2>1. ps2init[step] = Send("2")
    BY <1>22, InitSteps
  <2>2. /\ device' = Effect("2") /\ out' = out \o Answer("2")
        /\ step' = 20 /\ UNCHANGED <<phase, disturbed>>
    BY <1>22, <2>1, SendStep DEF SendsByte
  <2>3. device' = Device(20)
    <3> DEFINE d ==
            [enabled |-> TRUE, interrupt |-> TRUE, translation |-> FALSE,
             scanning |-> TRUE, set |-> "default"]
    <3>1. device = d
      BY <1>22, <1>1 DEF Device
    <3>2. device' = [d EXCEPT !.set = "2"]
      BY <2>2, <3>1, Effects
    <3>3. device' =
            [enabled |-> TRUE, interrupt |-> TRUE, translation |-> FALSE,
             scanning |-> TRUE, set |-> "2"]
      BY <3>2
    <3> QED
      BY <3>3 DEF Device
  <2>4. out' \in Seq(Bytes) /\ Due(step)'
    <3>1. NoAnswer(out)
      BY <1>22, <1>1 DEF Due
    <3>2. out' = out \o <<"FA">>
      BY <2>2, TheAnswers
    <3>3. out' \in Seq(Bytes) /\ OneAnswer(out', "FA")
      BY <1>1, <3>1, <3>2, AnswersArrive DEF Answers
    <3> QED
      BY <2>2, <3>3 DEF Due
  <2> QED
    BY <1>1, <1>2, <2>2, <2>3, <2>4
<1>23. CASE step = 20
  <2>1. ps2init[step] = Expect("FA")
    BY <1>23, InitSteps
  <2>2. /\ out # <<>> /\ out' = Tail(out)
        /\ disturbed' = (disturbed \/ Head(out) \in Codes)
        /\ IF Head(out) = "FA" THEN phase' = phase /\ step' = 21
           ELSE phase' = "failed" /\ step' = 20
        /\ UNCHANGED device
    BY <1>23, <2>1, ExpectStep DEF ExpectsByte
  <2>3. /\ out' \in Seq(Bytes)
        /\ IF Head(out) = "FA" THEN NoAnswer(out') ELSE Head(out) \in Codes
    BY <1>23, <1>1, <2>2, ByteTaken DEF Due, Answers
  <2>4. CASE Head(out) = "FA"
    <3>1. device' = Device(step')
      BY <1>23, <1>1, <2>2, <2>4 DEF Device
    <3>2. Due(step)'
      BY <2>2, <2>3, <2>4 DEF Due
    <3> QED
      BY <1>1, <1>2, <2>2, <2>3, <2>4, <3>1, <3>2
  <2>5. CASE Head(out) # "FA"
    BY <1>23, <1>1, <1>3, <2>2, <2>3, <2>5
  <2> QED
    BY <2>4, <2>5
<1>24. CASE step = 21
  <2>1. ps2init[step] = Send("ENABLE_SCANNING")
    BY <1>24, InitSteps
  <2>2. /\ device' = Effect("ENABLE_SCANNING") /\ out' = out \o Answer("ENABLE_SCANNING")
        /\ step' = 22 /\ UNCHANGED <<phase, disturbed>>
    BY <1>24, <2>1, SendStep DEF SendsByte
  <2>3. device' = Device(22)
    BY <1>24, <1>1, <2>2, Effects DEF Device
  <2>4. out' \in Seq(Bytes) /\ Due(step)'
    <3>1. NoAnswer(out)
      BY <1>24, <1>1 DEF Due
    <3>2. out' = out \o <<"FA">>
      BY <2>2, TheAnswers
    <3>3. out' \in Seq(Bytes) /\ OneAnswer(out', "FA")
      BY <1>1, <3>1, <3>2, AnswersArrive DEF Answers
    <3> QED
      BY <2>2, <3>3 DEF Due
  <2> QED
    BY <1>1, <1>2, <2>2, <2>3, <2>4
<1>25. CASE step = 22
  <2>1. ps2init[step] = Expect("FA")
    BY <1>25, InitSteps
  <2>2. /\ out # <<>> /\ out' = Tail(out)
        /\ disturbed' = (disturbed \/ Head(out) \in Codes)
        /\ IF Head(out) = "FA" THEN phase' = phase /\ step' = 23
           ELSE phase' = "failed" /\ step' = 22
        /\ UNCHANGED device
    BY <1>25, <2>1, ExpectStep DEF ExpectsByte
  <2>3. /\ out' \in Seq(Bytes)
        /\ IF Head(out) = "FA" THEN NoAnswer(out') ELSE Head(out) \in Codes
    BY <1>25, <1>1, <2>2, ByteTaken DEF Due, Answers
  <2>4. CASE Head(out) = "FA"
    <3>1. device' = Device(step')
      BY <1>25, <1>1, <2>2, <2>4 DEF Device
    <3>2. Due(step)'
      BY <2>2, <2>3, <2>4 DEF Due
    <3> QED
      BY <1>1, <1>2, <2>2, <2>3, <2>4, <3>1, <3>2
  <2>5. CASE Head(out) # "FA"
    BY <1>25, <1>1, <1>3, <2>2, <2>3, <2>5
  <2> QED
    BY <2>4, <2>5
<1>26. CASE step = 23
  <2>1. Ends
    BY <1>26, InitSteps DEF Starts
  <2>2. NoAnswer(out)
    BY <1>26, <1>1 DEF Due
  <2> QED
    BY <1>26, <1>1, <2>1, <2>2 DEF Ends, ReadyInv, NoAnswer
<1> QED
  BY <1>1, <1>4, <1>5, <1>6, <1>7, <1>8, <1>9, <1>10, <1>11, <1>12, <1>13, <1>14, <1>15, <1>16,
     <1>17, <1>18, <1>19, <1>20, <1>21, <1>22, <1>23, <1>24, <1>25, <1>26

\* Codes of keys arrive.
LEMMA ReadyTypes ==
    ASSUME ReadyInv, NEW codes \in Seq(Codes), NEW characters, NEW down,
           Types(codes, characters, down)
    PROVE  ReadyInv'
<1>1. /\ out \in Seq(Bytes) /\ step \in 1 .. 23 /\ device.enabled
      /\ out' = out \o codes /\ UNCHANGED <<device, step, phase, disturbed>>
  BY DEF ReadyInv, Types
<1>2. /\ out' \in Seq(Bytes)
      /\ NoAnswer(out) => NoAnswer(out')
      /\ \A a : OneAnswer(out, a) => OneAnswer(out', a)
      /\ TwoAnswers(out) => TwoAnswers(out')
  BY <1>1, CodesArrive
<1>3. ASSUME phase = "init" PROVE Due(step)'
  <2>1. Due(step) /\ device = Device(step)
    BY <1>3 DEF ReadyInv
  <2>2. step \notin 2 .. 10
    <3>1. ASSUME step \in 2 .. 10 PROVE device.enabled = FALSE
      BY <2>1, <3>1 DEF Device
    <3> QED
      BY <1>1, <3>1
  <2>3. step \notin {4, 5, 6, 7, 8, 9, 10}
    BY <2>2
  <2> QED
    BY <1>1, <1>2, <2>1, <2>3 DEF Due
<1> QED
  BY <1>1, <1>2, <1>3 DEF ReadyInv

\* The interrupt handler takes a byte; it is let through when the start is over.
LEMMA ReadyHandles == ASSUME ReadyInv, handle_irq PROVE ReadyInv'
<1>1. /\ out \in Seq(Bytes) /\ phase # "init" /\ out # <<>> /\ out' = Tail(out)
      /\ UNCHANGED <<device, step, phase, disturbed>>
  BY DEF ReadyInv, handle_irq
<1>2. out' \in Seq(Bytes) /\ (NoAnswer(out) => NoAnswer(out'))
  BY <1>1, ByteTaken
<1> QED
  BY <1>1, <1>2 DEF ReadyInv

\* The codes that a step of the keys sends.
LEMMA KeysSend ==
    ASSUME \/ Shifts \/ Unshifts \/ \E k \in Keys : Presses(k) \/ Releases(k)
    PROVE  \E codes \in Seq(Codes) : \E characters, down : Types(codes, characters, down)
<1>1. CASE Shifts
  <2>1. <<"shift">> \in Seq(Codes)
    BY DEF Codes
  <2> QED
    BY <1>1, <2>1 DEF Shifts
<1>2. CASE Unshifts
  <2>1. <<"break", "shift">> \in Seq(Codes)
    BY DEF Codes
  <2> QED
    BY <1>2, <2>1 DEF Unshifts
<1>3. ASSUME NEW k \in Keys, Presses(k) \/ Releases(k)
      PROVE  \E codes \in Seq(Codes) : \E characters, down : Types(codes, characters, down)
  <2>1. <<k>> \in Seq(Codes) /\ <<"break", k>> \in Seq(Codes)
    BY DEF Codes
  <2> QED
    BY <1>3, <2>1 DEF Presses, Releases
<1> QED
  BY <1>1, <1>2, <1>3

\* ReadyInv holds when the machine is switched on.
LEMMA ReadyInit == KeyboardInit => ReadyInv
<1> SUFFICES ASSUME KeyboardInit PROVE ReadyInv
  OBVIOUS
<1>1. out = <<>> /\ step = 1 /\ phase = "init" /\ disturbed = FALSE
  BY DEF KeyboardInit
<1>2. device = Device(1)
  BY DEF KeyboardInit, Device
<1>3. out \in Seq(Bytes) /\ NoAnswer(out)
  BY <1>1 DEF NoAnswer
<1>4. Due(1)
  BY <1>3 DEF Due
<1>5. disturbed \in BOOLEAN
  BY <1>1
<1>6. device = Device(step) /\ Due(step) /\ step \in 1 .. 23 /\ phase = "init"
  BY <1>1, <1>2, <1>4
<1> QED
  BY <1>3, <1>5, <1>6 DEF ReadyInv

\* Every step of the keyboard keeps ReadyInv.
LEMMA ReadyNext == ReadyInv /\ [KeyboardNext]_keyboardVars => ReadyInv'
<1> SUFFICES ASSUME ReadyInv, [KeyboardNext]_keyboardVars PROVE ReadyInv'
  OBVIOUS
<1>1. CASE Starts
  BY <1>1, ReadyStarts
<1>2. CASE \/ Shifts \/ Unshifts \/ \E k \in Keys : Presses(k) \/ Releases(k)
  BY <1>2, KeysSend, ReadyTypes
<1>3. CASE handle_irq
  BY <1>3, ReadyHandles
<1>4. CASE Reads \/ UNCHANGED keyboardVars
  <2>1. UNCHANGED <<out, device, step, phase, disturbed>>
    BY <1>4 DEF Reads, keyboardVars
  <2> QED
    BY <2>1 DEF ReadyInv, Due
<1> QED
  BY <1>1, <1>2, <1>3, <1>4 DEF KeyboardNext

\* The keyboard is ready when its start says so.
LEMMA ReadyInvShows == ReadyInv => KeyboardReady
<1> SUFFICES ASSUME ReadyInv PROVE KeyboardReady
  OBVIOUS
<1>1. Device(23) = [enabled |-> TRUE, interrupt |-> TRUE, translation |-> FALSE,
                    scanning |-> TRUE, set |-> "2"]
  BY DEF Device
<1> QED
  BY <1>1 DEF ReadyInv, KeyboardReady, NoAnswer

-----------------------------------------------------------------------------
(* The bytes on their way, read as the interrupt handler reads them: after *)
(* each, whether a break code is open, the shift key, and how many of the  *)
(* keys typed have been struck.                                            *)

Decoder == [brk : BOOLEAN, shf : BOOLEAN, cnt : Nat]

Strikes(st, code) == ~st.brk /\ code \in Keys

\* The decoder behind a byte; an answer never reaches the handler.
After(st, code) ==
    IF code \in Answers THEN st
    ELSE [brk |-> code = "break", shf |-> IF code = "shift" THEN ~st.brk ELSE st.shf,
          cnt |-> IF Strikes(st, code) THEN st.cnt + 1 ELSE st.cnt]

\* A stroke is the one that was typed at its place.
Agrees(st, code, ty) ==
    Strikes(st, code) =>
      /\ st.cnt + 1 \in 1 .. Len(ty)
      /\ ty[st.cnt + 1] = [key |-> code, shift |-> st.shf]

\* The bytes s lead from a to b, their strokes are those of ty.
Run(s, a, b, ty) ==
    \E run \in [1 .. Len(s) + 1 -> Decoder] :
      /\ run[1] = a /\ run[Len(s) + 1] = b
      /\ \A i \in 1 .. Len(s) : run[i + 1] = After(run[i], s[i]) /\ Agrees(run[i], s[i], ty)

\* A byte leads to a state of the decoder.
LEMMA AfterDecoder ==
    ASSUME NEW st \in Decoder, NEW code PROVE After(st, code) \in Decoder
<1> DEFINE x == code = "break"
           y == IF code = "shift" THEN ~st.brk ELSE st.shf
           z == IF Strikes(st, code) THEN st.cnt + 1 ELSE st.cnt
<1>1. st.brk \in BOOLEAN /\ st.shf \in BOOLEAN /\ st.cnt \in Nat
  BY DEF Decoder
<1>2. x \in BOOLEAN
  OBVIOUS
<1>3. y \in BOOLEAN
  BY <1>1
<1>4. z \in Nat
  BY <1>1
<1>5. After(st, code) = IF code \in Answers THEN st ELSE [brk |-> x, shf |-> y, cnt |-> z]
  BY DEF After
<1> HIDE DEF x, y, z
<1> QED
  BY <1>2, <1>3, <1>4, <1>5 DEF Decoder

\* No bytes lead nowhere.
LEMMA RunEmpty ==
    ASSUME NEW a \in Decoder, NEW ty PROVE Run(<<>>, a, a, ty)
<1> DEFINE run == [i \in 1 .. 1 |-> a]
<1>1. Len(<<>>) = 0
  OBVIOUS
<1>2. run \in [1 .. 0 + 1 -> Decoder] /\ run[1] = a
  OBVIOUS
<1> HIDE DEF run
<1> QED
  BY <1>1, <1>2 DEF Run

\* Without bytes the decoder is where it was.
LEMMA RunDone ==
    ASSUME NEW a, NEW b, NEW ty, Run(<<>>, a, b, ty) PROVE a = b
<1>1. Len(<<>>) = 0
  OBVIOUS
<1> QED
  BY <1>1 DEF Run

\* Another byte arrives.
LEMMA RunAppend ==
    ASSUME NEW s \in Seq(Bytes), NEW a, NEW b \in Decoder, NEW ty, NEW code \in Bytes,
           Run(s, a, b, ty), Agrees(b, code, ty)
    PROVE  Run(s \o <<code>>, a, After(b, code), ty)
<1> DEFINE t == <<code>>
           r == s \o t
<1>1. t \in Seq(Bytes) /\ Len(t) = 1 /\ t[1] = code
  OBVIOUS
<1> HIDE DEF t
<1>2. /\ r \in Seq(Bytes) /\ Len(r) = Len(s) + Len(t)
      /\ \A i \in 1 .. Len(s) + Len(t) : r[i] = IF i <= Len(s) THEN s[i] ELSE t[i - Len(s)]
  BY <1>1, ConcatProperties
<1> HIDE DEF r
<1>3. /\ Len(s) \in Nat /\ Len(r) = Len(s) + 1 /\ r[Len(s) + 1] = code
      /\ \A i \in 1 .. Len(s) : r[i] = s[i]
  BY <1>1, <1>2
<1>4. PICK run \in [1 .. Len(s) + 1 -> Decoder] :
        /\ run[1] = a /\ run[Len(s) + 1] = b
        /\ \A i \in 1 .. Len(s) : run[i + 1] = After(run[i], s[i]) /\ Agrees(run[i], s[i], ty)
  BY DEF Run
<1> DEFINE longer == [i \in 1 .. Len(r) + 1 |-> IF i <= Len(s) + 1 THEN run[i]
                                                ELSE After(b, code)]
<1>5. longer \in [1 .. Len(r) + 1 -> Decoder]
  BY <1>3, AfterDecoder
<1>6. /\ \A i \in 1 .. Len(s) + 1 : longer[i] = run[i]
      /\ longer[Len(r) + 1] = After(b, code)
  BY <1>3
<1> HIDE DEF longer
<1>7. longer[1] = a
  BY <1>3, <1>4, <1>6
<1>8. ASSUME NEW i \in 1 .. Len(r)
      PROVE  longer[i + 1] = After(longer[i], r[i]) /\ Agrees(longer[i], r[i], ty)
  <2>1. CASE i \in 1 .. Len(s)
    <3>1. longer[i] = run[i] /\ longer[i + 1] = run[i + 1] /\ r[i] = s[i]
      BY <1>3, <1>6, <2>1
    <3> QED
      BY <1>4, <2>1, <3>1
  <2>2. CASE i = Len(s) + 1
    <3>1. longer[i] = b /\ longer[i + 1] = After(b, code) /\ r[i] = code
      BY <1>3, <1>4, <1>6, <2>2
    <3> QED
      BY <3>1
  <2> QED
    BY <1>3, <2>1, <2>2
<1>9. Run(r, a, After(b, code), ty)
  BY <1>5, <1>6, <1>7, <1>8 DEF Run
<1> QED
  BY <1>9 DEF r, t

\* The first byte is taken.
LEMMA RunTail ==
    ASSUME NEW s \in Seq(Bytes), s # <<>>, NEW a, NEW b, NEW ty, Run(s, a, b, ty)
    PROVE  Run(Tail(s), After(a, Head(s)), b, ty) /\ Agrees(a, Head(s), ty)
<1> DEFINE r == Tail(s)
<1>1. Len(s) \in Nat \ {0} /\ Head(s) = s[1]
  BY EmptySeq
<1>2. /\ r \in Seq(Bytes) /\ Len(r) = Len(s) - 1
      /\ \A i \in 1 .. Len(r) : r[i] = s[i + 1]
  BY HeadTailProperties
<1> HIDE DEF r
<1>3. PICK run \in [1 .. Len(s) + 1 -> Decoder] :
        /\ run[1] = a /\ run[Len(s) + 1] = b
        /\ \A i \in 1 .. Len(s) : run[i + 1] = After(run[i], s[i]) /\ Agrees(run[i], s[i], ty)
  BY DEF Run
<1>4. run[2] = After(a, Head(s)) /\ Agrees(a, Head(s), ty)
  <2>1. 1 \in 1 .. Len(s) /\ 1 + 1 = 2
    BY <1>1
  <2> QED
    BY <1>1, <1>3, <2>1
<1> DEFINE rest == [i \in 1 .. Len(r) + 1 |-> run[i + 1]]
<1>5. rest \in [1 .. Len(r) + 1 -> Decoder]
  BY <1>1, <1>2
<1>6. \A i \in 1 .. Len(r) + 1 : rest[i] = run[i + 1]
  OBVIOUS
<1> HIDE DEF rest
<1>7. rest[1] = After(a, Head(s)) /\ rest[Len(r) + 1] = b
  BY <1>1, <1>2, <1>3, <1>4, <1>6
<1>8. ASSUME NEW i \in 1 .. Len(r)
      PROVE  rest[i + 1] = After(rest[i], r[i]) /\ Agrees(rest[i], r[i], ty)
  <2>1. i + 1 \in 1 .. Len(s) /\ rest[i] = run[i + 1] /\ rest[i + 1] = run[(i + 1) + 1]
        /\ r[i] = s[i + 1]
    BY <1>1, <1>2, <1>6
  <2> QED
    BY <1>3, <2>1
<1>9. Run(r, After(a, Head(s)), b, ty)
  BY <1>5, <1>7, <1>8 DEF Run
<1> QED
  BY <1>4, <1>9 DEF r

\* More is typed.
LEMMA RunTyped ==
    ASSUME NEW s, NEW a, NEW b, NEW ty, NEW more, Run(s, a, b, ty),
           \A i \in 1 .. Len(ty) : i \in 1 .. Len(more) /\ more[i] = ty[i]
    PROVE  Run(s, a, b, more)
<1>1. \A st, code : Agrees(st, code, ty) => Agrees(st, code, more)
  BY DEF Agrees
<1> QED
  BY <1>1 DEF Run

-----------------------------------------------------------------------------
(* The ring.                                                               *)

Typed == [key : Keys, shift : BOOLEAN]
Slots == Typed \union {0}
Queue == [data : [0 .. Ring - 1 -> Slots], head : 0 .. Ring - 1, tail : 0 .. Ring - 1]

\* A remainder at work in the ring.
LEMMA Wrapped ==
    ASSUME NEW x \in 0 .. 2 * Ring - 1
    PROVE  x % Ring = IF x < Ring THEN x ELSE x - Ring
<1>1. ASSUME NEW k \in Nat \ {0}, NEW q \in Int, NEW r \in 0 .. k - 1
      PROVE  (k * q + r) % k = r
  OBVIOUS
<1>2. Ring \in Nat \ {0}
  BY KeyboardAssumption
<1>3. CASE x < Ring
  <2>1. x = Ring * 0 + x /\ x \in 0 .. Ring - 1
    BY <1>2, <1>3
  <2> QED
    BY <1>1, <1>2, <1>3, <2>1
<1>4. CASE ~(x < Ring)
  <2>1. x = Ring * 1 + (x - Ring) /\ x - Ring \in 0 .. Ring - 1
    BY <1>2, <1>4
  <2> QED
    BY <1>1, <1>2, <1>4, <2>1
<1> QED
  BY <1>3, <1>4

\* How many characters the ring holds, and where the i-th is.
Filled(q) == IF q.head >= q.tail THEN q.head - q.tail ELSE q.head - q.tail + Ring
At(q, i) == IF q.tail + i - 1 < Ring THEN q.tail + i - 1 ELSE q.tail + i - 1 - Ring

\* The contents are those slots, in that order.
LEMMA ContentsAre ==
    ASSUME NEW q \in Queue
    PROVE  /\ Contents(q) \in Seq(Slots)
           /\ Filled(q) \in 0 .. Ring - 1 /\ Len(Contents(q)) = Filled(q)
           /\ \A i \in 1 .. Filled(q) :
                At(q, i) \in 0 .. Ring - 1 /\ Contents(q)[i] = q.data[At(q, i)]
<1>1. /\ q.data \in [0 .. Ring - 1 -> Slots]
      /\ q.head \in 0 .. Ring - 1 /\ q.tail \in 0 .. Ring - 1 /\ Ring \in Nat \ {0}
  BY KeyboardAssumption DEF Queue
<1> DEFINE h == q.head  l == q.tail  n == (h - l + Ring) % Ring
<1> HIDE DEF h, l
<1>2. h \in 0 .. Ring - 1 /\ l \in 0 .. Ring - 1
  BY <1>1 DEF h, l
<1>3. n = Filled(q) /\ Filled(q) \in 0 .. Ring - 1
  <2> DEFINE x == h - l + Ring
  <2>1. x \in 0 .. 2 * Ring - 1 /\ n = x % Ring
    BY <1>1, <1>2
  <2> HIDE DEF x
  <2>2. n = IF x < Ring THEN x ELSE x - Ring
    BY <2>1, Wrapped
  <2>3. Filled(q) = IF h >= l THEN h - l ELSE h - l + Ring
    BY DEF Filled, h, l
  <2> HIDE DEF n
  <2> QED
    BY <1>1, <1>2, <2>2, <2>3 DEF x
<1>4. ASSUME NEW i \in 1 .. Filled(q)
      PROVE  At(q, i) \in 0 .. Ring - 1 /\ (l + i - 1) % Ring = At(q, i)
  <2> DEFINE x == l + i - 1
  <2>1. x \in 0 .. 2 * Ring - 1
    BY <1>1, <1>2, <1>3
  <2> HIDE DEF x
  <2>2. x % Ring = IF x < Ring THEN x ELSE x - Ring
    BY <2>1, Wrapped
  <2>3. At(q, i) = IF x < Ring THEN x ELSE x - Ring
    <3>1. At(q, i) = IF l + i - 1 < Ring THEN l + i - 1 ELSE l + i - 1 - Ring
      BY DEF At, l
    <3> QED
      BY <1>1, <1>2, <1>3, <3>1 DEF x
  <2>4. x % Ring = At(q, i) /\ At(q, i) \in 0 .. Ring - 1
    BY <1>1, <2>1, <2>2, <2>3
  <2> QED
    BY <2>4 DEF x
<1>5. Contents(q) = [i \in 1 .. n |-> q.data[(l + i - 1) % Ring]]
  BY DEF Contents, h, l
<1> HIDE DEF n
<1>6. \A i \in 1 .. Filled(q) : q.data[(l + i - 1) % Ring] \in Slots
  BY <1>1, <1>4
<1>7. /\ \A i \in 1 .. Filled(q) : Contents(q)[i] = q.data[At(q, i)]
      /\ Contents(q) \in [1 .. Filled(q) -> Slots]
  BY <1>3, <1>4, <1>5, <1>6
<1>8. Contents(q) \in Seq(Slots) /\ Len(Contents(q)) = Filled(q)
  BY <1>3, <1>7
<1> QED
  BY <1>3, <1>4, <1>7, <1>8

\* A step forward in the ring.
LEMMA FollowingIs ==
    ASSUME NEW i \in 0 .. Ring - 1
    PROVE  /\ Following(i) \in 0 .. Ring - 1
           /\ Following(i) = IF i + 1 = Ring THEN 0 ELSE i + 1
<1>1. Ring \in Nat \ {0} /\ i + 1 \in 0 .. 2 * Ring - 1
  BY KeyboardAssumption
<1>2. (i + 1) % Ring = IF i + 1 < Ring THEN i + 1 ELSE i + 1 - Ring
  BY <1>1, Wrapped
<1> QED
  BY <1>1, <1>2 DEF Following

\* Sequences are equal when they agree everywhere.
LEMMA SequencesEqual ==
    ASSUME NEW S, NEW s \in Seq(S), NEW t \in Seq(S), Len(s) = Len(t),
           \A i \in 1 .. Len(s) : s[i] = t[i]
    PROVE  s = t
  OBVIOUS

\* A character enters a ring that has room, or is dropped.
LEMMA Enqueues ==
    ASSUME NEW q \in Queue, NEW e \in Slots
    PROVE  /\ enqueue(q, e) \in Queue /\ enqueue(q, e).tail = q.tail
           /\ IF Following(q.head) = q.tail
              THEN enqueue(q, e) = q /\ Len(Contents(q)) = Ring - 1
              ELSE /\ enqueue(q, e).head = Following(q.head)
                   /\ enqueue(q, e).data = [q.data EXCEPT ![q.head] = e]
                   /\ enqueue(q, e).head # q.tail
                   /\ Contents(enqueue(q, e)) = Contents(q) \o <<e>>
<1>1. /\ q.data \in [0 .. Ring - 1 -> Slots]
      /\ q.head \in 0 .. Ring - 1 /\ q.tail \in 0 .. Ring - 1 /\ Ring \in Nat \ {0}
  BY KeyboardAssumption DEF Queue
<1>2. /\ Following(q.head) \in 0 .. Ring - 1
      /\ Following(q.head) = IF q.head + 1 = Ring THEN 0 ELSE q.head + 1
  BY <1>1, FollowingIs
<1>3. CASE Following(q.head) = q.tail
  <2>1. enqueue(q, e) = q
    BY <1>3 DEF enqueue
  <2>2. Filled(q) = Ring - 1
    BY <1>1, <1>2, <1>3 DEF Filled
  <2> QED
    BY <1>3, <2>1, <2>2, ContentsAre
<1>4. CASE Following(q.head) # q.tail
  <2> DEFINE r == enqueue(q, e)
  <2>1. r = [q EXCEPT !.data[q.head] = e, !.head = Following(q.head)]
    BY <1>4 DEF enqueue
  <2>2. /\ r.data = [q.data EXCEPT ![q.head] = e] /\ r.head = Following(q.head)
        /\ r.tail = q.tail /\ r \in Queue
    BY <1>1, <1>2, <2>1 DEF Queue
  <2> HIDE DEF r
  <2>3. Filled(r) = Filled(q) + 1
    BY <1>1, <1>2, <1>4, <2>2 DEF Filled
  <2>4. ASSUME NEW i \in 1 .. Filled(q) PROVE Contents(r)[i] = Contents(q)[i]
    <3>1. At(r, i) = At(q, i)
      BY <2>2 DEF At
    <3>2. At(q, i) # q.head
      BY <1>1, <2>4 DEF At, Filled
    <3>3. i \in 1 .. Filled(r)
      BY <2>3, ContentsAre
    <3>4. Contents(r)[i] = r.data[At(q, i)] /\ Contents(q)[i] = q.data[At(q, i)]
          /\ At(q, i) \in 0 .. Ring - 1
      BY <2>2, <3>1, <3>3, ContentsAre
    <3> QED
      BY <1>1, <2>2, <3>2, <3>4
  <2>5. Contents(r)[Filled(r)] = e
    <3>1. At(r, Filled(r)) = q.head
      BY <1>1, <1>2, <2>2, <2>3 DEF At, Filled
    <3>2. Filled(r) \in 1 .. Filled(r)
      BY <2>3, ContentsAre
    <3>3. Contents(r)[Filled(r)] = r.data[q.head]
      BY <2>2, <3>1, <3>2, ContentsAre
    <3> QED
      BY <1>1, <2>2, <3>3
  <2> DEFINE t == <<e>>
             c == Contents(q)
             joined == c \o t
  <2>6. t \in Seq(Slots) /\ Len(t) = 1 /\ t[1] = e
    OBVIOUS
  <2>7. c \in Seq(Slots) /\ Len(c) = Filled(q) /\ Filled(q) \in Nat
    BY ContentsAre
  <2> HIDE DEF t, c
  <2>8. /\ joined \in Seq(Slots) /\ Len(joined) = Len(c) + Len(t)
        /\ \A i \in 1 .. Len(c) + Len(t) :
             joined[i] = IF i <= Len(c) THEN c[i] ELSE t[i - Len(c)]
    BY <2>6, <2>7, ConcatProperties
  <2> HIDE DEF joined
  <2>9. Contents(r) \in Seq(Slots) /\ Len(Contents(r)) = Len(joined)
    BY <2>2, <2>3, <2>6, <2>7, <2>8, ContentsAre
  <2>10. ASSUME NEW i \in 1 .. Len(Contents(r)) PROVE Contents(r)[i] = joined[i]
    <3>1. CASE i <= Filled(q)
      BY <2>4, <2>6, <2>7, <2>8, <2>9, <3>1 DEF c
    <3>2. CASE i = Filled(q) + 1
      BY <2>3, <2>5, <2>6, <2>7, <2>8, <2>9, <3>2
    <3> QED
      BY <2>6, <2>7, <2>8, <2>9, <3>1, <3>2
  <2>11. Contents(r) = joined
    BY <2>8, <2>9, <2>10, SequencesEqual
  <2> QED
    BY <1>4, <2>2, <2>11 DEF joined, c, t, r
<1> QED
  BY <1>3, <1>4

\* The oldest character leaves the ring.
LEMMA Dequeues ==
    ASSUME NEW q \in Queue, q.head # q.tail, NEW r, r = [q EXCEPT !.tail = Following(q.tail)]
    PROVE  /\ r \in Queue /\ r.head = q.head /\ r.data = q.data
           /\ q.data[q.tail] \in Slots
           /\ Contents(q) = <<q.data[q.tail]>> \o Contents(r)
<1>1. /\ q.data \in [0 .. Ring - 1 -> Slots]
      /\ q.head \in 0 .. Ring - 1 /\ q.tail \in 0 .. Ring - 1 /\ Ring \in Nat \ {0}
  BY KeyboardAssumption DEF Queue
<1>2. /\ Following(q.tail) \in 0 .. Ring - 1
      /\ Following(q.tail) = IF q.tail + 1 = Ring THEN 0 ELSE q.tail + 1
  BY <1>1, FollowingIs
<1>3. r \in Queue /\ r.data = q.data /\ r.head = q.head /\ r.tail = Following(q.tail)
  BY <1>1, <1>2 DEF Queue
<1> DEFINE d == q.data[q.tail]
           t == <<d>>
           c == Contents(r)
           joined == t \o c
<1>4. d \in Slots
  BY <1>1
<1>5. Filled(q) = Filled(r) + 1
  BY <1>1, <1>2, <1>3 DEF Filled
<1>6. t \in Seq(Slots) /\ Len(t) = 1 /\ t[1] = d
  BY <1>4
<1>7. c \in Seq(Slots) /\ Len(c) = Filled(r) /\ Filled(r) \in Nat
  BY <1>3, ContentsAre
<1> HIDE DEF t, c, d
<1>8. /\ joined \in Seq(Slots) /\ Len(joined) = Len(t) + Len(c)
      /\ \A i \in 1 .. Len(t) + Len(c) :
           joined[i] = IF i <= Len(t) THEN t[i] ELSE c[i - Len(t)]
  BY <1>6, <1>7, ConcatProperties
<1> HIDE DEF joined
<1>9. Contents(q) \in Seq(Slots) /\ Len(Contents(q)) = Len(joined) /\ Filled(q) = Len(joined)
  BY <1>5, <1>6, <1>7, <1>8, ContentsAre
<1>10. ASSUME NEW i \in 1 .. Filled(q) PROVE Contents(q)[i] = joined[i]
  <2>1. Contents(q)[i] = q.data[At(q, i)]
    BY ContentsAre
  <2>2. CASE i = 1
    <3>1. At(q, i) = q.tail
      BY <1>1, <2>2 DEF At
    <3>2. joined[i] = d
      BY <1>6, <1>7, <1>8, <2>2
    <3> QED
      BY <2>1, <3>1, <3>2 DEF d
  <2>3. CASE i # 1
    <3>0. i \in 2 .. Ring - 1 /\ i \in 1 .. Filled(q)
      BY <1>1, <2>3, ContentsAre
    <3>1. i - 1 \in 1 .. Filled(r)
      BY <1>5, <1>7, <3>0
    <3>2. At(r, i - 1) = At(q, i)
      <4> DEFINE from == q.tail
                 next == Following(q.tail)
      <4>1. from \in Nat /\ i \in Nat /\ i >= 2 /\ Ring \in Nat /\ i <= Ring /\ from < Ring
        BY <1>1, <3>0
      <4>2. next = IF from + 1 = Ring THEN 0 ELSE from + 1
        BY <1>2
      <4>3. At(r, i - 1) = IF next + i - 2 < Ring THEN next + i - 2 ELSE next + i - 2 - Ring
        <5>1. r.tail = next
          BY <1>3
        <5> HIDE DEF next
        <5>2. next \in Nat
          BY <4>1, <4>2
        <5> QED
          BY <4>1, <5>1, <5>2 DEF At
      <4>4. At(q, i) = IF from + i - 1 < Ring THEN from + i - 1 ELSE from + i - 1 - Ring
        BY DEF At
      <4> HIDE DEF from, next
      <4> QED
        BY <4>1, <4>2, <4>3, <4>4
    <3>3. c[i - 1] = r.data[At(r, i - 1)]
      BY <1>3, <3>1, ContentsAre DEF c
    <3>4. joined[i] = c[i - 1]
      <4>1. i \in 1 .. Len(t) + Len(c) /\ ~(i <= Len(t))
        BY <1>6, <1>7, <1>8, <1>9, <3>0
      <4>2. joined[i] = c[i - Len(t)]
        BY <1>8, <4>1
      <4> QED
        BY <1>6, <4>2
    <3> QED
      BY <1>3, <2>1, <3>2, <3>3, <3>4
  <2> QED
    BY <2>2, <2>3
<1>11. Contents(q) = joined
  BY <1>8, <1>9, <1>10, SequencesEqual
<1> QED
  BY <1>3, <1>4, <1>11 DEF joined, t, c, d

-----------------------------------------------------------------------------
(* What has arrived.                                                       *)

\* s is some of the first c characters of ty, in their order.
Embedded(s, ty, c) ==
    \E at \in [1 .. Len(s) -> 1 .. c] :
      /\ \A i, j \in 1 .. Len(s) : i < j => at[i] < at[j]
      /\ \A i \in 1 .. Len(s) : s[i] = ty[at[i]]

\* The next character arrives.
LEMMA EmbeddedAppend ==
    ASSUME NEW S, NEW s \in Seq(S), NEW e \in S, NEW ty, NEW c \in Nat,
           Embedded(s, ty, c), e = ty[c + 1]
    PROVE  Embedded(s \o <<e>>, ty, c + 1)
<1> DEFINE t == <<e>>
           r == s \o t
<1>1. t \in Seq(S) /\ Len(t) = 1 /\ t[1] = e
  OBVIOUS
<1> HIDE DEF t
<1>2. /\ r \in Seq(S) /\ Len(r) = Len(s) + Len(t)
      /\ \A i \in 1 .. Len(s) + Len(t) : r[i] = IF i <= Len(s) THEN s[i] ELSE t[i - Len(s)]
  BY <1>1, ConcatProperties
<1> HIDE DEF r
<1>3. /\ Len(s) \in Nat /\ Len(r) = Len(s) + 1 /\ r[Len(s) + 1] = e
      /\ \A i \in 1 .. Len(s) : r[i] = s[i]
  BY <1>1, <1>2
<1>4. PICK at \in [1 .. Len(s) -> 1 .. c] :
        /\ \A i, j \in 1 .. Len(s) : i < j => at[i] < at[j]
        /\ \A i \in 1 .. Len(s) : s[i] = ty[at[i]]
  BY DEF Embedded
<1> DEFINE on == [i \in 1 .. Len(r) |-> IF i <= Len(s) THEN at[i] ELSE c + 1]
<1>5. on \in [1 .. Len(r) -> 1 .. c + 1]
  BY <1>3
<1>6. on[Len(s) + 1] = c + 1 /\ \A i \in 1 .. Len(s) : on[i] = at[i]
  BY <1>3
<1> HIDE DEF on
<1>7. \A i \in 1 .. Len(r) : i = Len(s) + 1 \/ i \in 1 .. Len(s)
  BY <1>3
<1>8. ASSUME NEW i \in 1 .. Len(r), NEW j \in 1 .. Len(r), i < j PROVE on[i] < on[j]
  <2>1. i \in 1 .. Len(s) /\ on[i] = at[i] /\ at[i] \in 1 .. c
    BY <1>3, <1>6, <1>8
  <2>2. CASE j \in 1 .. Len(s)
    BY <1>4, <1>6, <1>8, <2>1, <2>2
  <2>3. CASE j = Len(s) + 1
    BY <1>6, <2>1, <2>3
  <2> QED
    BY <1>7, <2>2, <2>3
<1>9. ASSUME NEW i \in 1 .. Len(r) PROVE r[i] = ty[on[i]]
  BY <1>3, <1>4, <1>6, <1>7
<1>10. Embedded(r, ty, c + 1)
  BY <1>5, <1>8, <1>9 DEF Embedded
<1> QED
  BY <1>10 DEF r, t

\* More are typed or struck, and nothing arrives.
LEMMA EmbeddedMore ==
    ASSUME NEW s, NEW ty, NEW c \in Nat, NEW more, NEW d \in Nat, Embedded(s, ty, c), c <= d,
           \A i \in 1 .. c : more[i] = ty[i]
    PROVE  Embedded(s, more, d)
<1>1. PICK at \in [1 .. Len(s) -> 1 .. c] :
        /\ \A i, j \in 1 .. Len(s) : i < j => at[i] < at[j]
        /\ \A i \in 1 .. Len(s) : s[i] = ty[at[i]]
  BY DEF Embedded
<1>2. at \in [1 .. Len(s) -> 1 .. d]
  OBVIOUS
<1>3. \A i \in 1 .. Len(s) : s[i] = more[at[i]]
  BY <1>1
<1> QED
  BY <1>1, <1>2, <1>3 DEF Embedded

-----------------------------------------------------------------------------
(* The keys on their way to a reader.                                      *)

Decoding(b, s, n) == [brk |-> b, shf |-> s, cnt |-> n]

Arrived == got \o Contents(ringbuf)

\* c of the keys typed have been struck.  The bytes under way are the codes of the
\* others; what has arrived are some of the c, all of them unless the ring was full.
Struck(c) ==
    /\ Run(out, Decoding(expecting_break, shift, c),
           Decoding(FALSE, held, Len(typed)), typed)
    /\ Embedded(Arrived, typed, c)
    /\ Len(Arrived) = c \/ Len(Arrived) >= Ring - 1

\* The reader holds the oldest character of the ring.
ReaderInv ==
    /\ ringbuf \in Queue
    /\ reader \in [at : {"test", "copy", "advance"}, ch : Slots]
    /\ got \in Seq(Slots)
    /\ reader.at # "test" => ringbuf.head # ringbuf.tail
    /\ reader.at = "advance" => reader.ch = ringbuf.data[ringbuf.tail]

OrderInv ==
    /\ ReaderInv
    /\ typed \in Seq(Typed)
    /\ held \in BOOLEAN /\ shift \in BOOLEAN /\ expecting_break \in BOOLEAN
    /\ disturbed \/ \E c \in 0 .. Len(typed) : Struck(c)

KeyboardInv == ReadyInv /\ OrderInv

\* The decoder, by its parts.
LEMMA DecodingIs ==
    ASSUME NEW b \in BOOLEAN, NEW s \in BOOLEAN, NEW n \in Nat
    PROVE  /\ Decoding(b, s, n) \in Decoder
           /\ \A code \in Answers : After(Decoding(b, s, n), code) = Decoding(b, s, n)
           /\ \A code : code \notin Answers =>
                After(Decoding(b, s, n), code) =
                  Decoding(code = "break", IF code = "shift" THEN ~b ELSE s,
                           IF ~b /\ code \in Keys THEN n + 1 ELSE n)
           /\ \A code, ty : Agrees(Decoding(b, s, n), code, ty) <=>
                (~b /\ code \in Keys =>
                   n + 1 \in 1 .. Len(ty) /\ ty[n + 1] = [key |-> code, shift |-> s])
<1> DEFINE d == Decoding(b, s, n)
<1>1. d.brk = b /\ d.shf = s /\ d.cnt = n
  BY DEF Decoding
<1>2. d \in Decoder
  BY DEF Decoding, Decoder
<1> HIDE DEF d
<1>3. \A code \in Answers : After(d, code) = d
  BY DEF After
<1>4. \A code : Strikes(d, code) <=> ~b /\ code \in Keys
  BY <1>1 DEF Strikes
<1>5. ASSUME NEW code, code \notin Answers
      PROVE  After(d, code) = Decoding(code = "break", IF code = "shift" THEN ~b ELSE s,
                                       IF ~b /\ code \in Keys THEN n + 1 ELSE n)
  <2>1. After(d, code) =
          [brk |-> code = "break", shf |-> IF code = "shift" THEN ~d.brk ELSE d.shf,
           cnt |-> IF Strikes(d, code) THEN d.cnt + 1 ELSE d.cnt]
    BY <1>5 DEF After
  <2>2. (IF code = "shift" THEN ~d.brk ELSE d.shf) = IF code = "shift" THEN ~b ELSE s
    BY <1>1
  <2>3. (IF Strikes(d, code) THEN d.cnt + 1 ELSE d.cnt) =
          IF ~b /\ code \in Keys THEN n + 1 ELSE n
    BY <1>1, <1>4
  <2> QED
    BY <2>1, <2>2, <2>3, Zenon DEF Decoding
<1>6. ASSUME NEW code, NEW ty
      PROVE  Agrees(d, code, ty) <=>
               (~b /\ code \in Keys =>
                  n + 1 \in 1 .. Len(ty) /\ ty[n + 1] = [key |-> code, shift |-> s])
  BY <1>1, <1>4 DEF Agrees
<1> QED
  BY <1>2, <1>3, <1>5, <1>6 DEF d

\* Two bytes, one after the other.
LEMMA Pair ==
    ASSUME NEW S, NEW x \in S, NEW y \in S PROVE <<x>> \o <<y>> = <<x, y>>
<1> DEFINE s == <<x>>  t == <<y>>  r == s \o t  p == <<x, y>>
<1>1. s \in Seq(S) /\ Len(s) = 1 /\ s[1] = x /\ t \in Seq(S) /\ Len(t) = 1 /\ t[1] = y
  OBVIOUS
<1>2. p \in Seq(S) /\ Len(p) = 2 /\ p[1] = x /\ p[2] = y
  OBVIOUS
<1> HIDE DEF s, t, p
<1>3. /\ r \in Seq(S) /\ Len(r) = Len(s) + Len(t)
      /\ \A i \in 1 .. Len(s) + Len(t) : r[i] = IF i <= Len(s) THEN s[i] ELSE t[i - Len(s)]
  BY <1>1, ConcatProperties
<1> HIDE DEF r
<1>4. Len(r) = Len(p) /\ r[1] = p[1] /\ r[2] = p[2]
  BY <1>1, <1>2, <1>3
<1>5. \A i \in 1 .. Len(r) : r[i] = p[i]
  BY <1>2, <1>4
<1>6. r = p
  BY <1>2, <1>3, <1>4, <1>5, SequencesEqual
<1> QED
  BY <1>6 DEF r, s, t, p

\* Answers arrive and the decoder does not see them.
LEMMA RunAnswers ==
    ASSUME NEW s \in Seq(Bytes), NEW a, NEW d \in Decoder, NEW ty, Run(s, a, d, ty), NEW b
    PROVE  s \o Answer(b) \in Seq(Bytes) /\ Run(s \o Answer(b), a, d, ty)
<1>1. ASSUME NEW r \in Seq(Bytes), Run(r, a, d, ty), NEW x \in Answers
      PROVE  r \o <<x>> \in Seq(Bytes) /\ Run(r \o <<x>>, a, d, ty)
  <2>1. x \in Bytes /\ x \notin Keys
    BY KeyboardAssumption DEF Bytes
  <2>2. Agrees(d, x, ty) /\ After(d, x) = d
    BY <2>1 DEF Agrees, Strikes, After
  <2>3. <<x>> \in Seq(Bytes)
    BY <2>1
  <2>4. r \o <<x>> \in Seq(Bytes)
    BY <2>3, ConcatProperties
  <2>5. Run(r \o <<x>>, a, After(d, x), ty)
    BY <1>1, <2>1, <2>2, RunAppend
  <2> QED
    BY <2>2, <2>4, <2>5
<1>2. \/ Answer(b) = <<>>
      \/ \E x \in Answers : Answer(b) = <<x>>
      \/ Answer(b) = <<"FA", "AA">>
  BY DEF Answer, Answers
<1>3. CASE Answer(b) = <<>>
  <2>1. s \o <<>> = s
    BY ConcatEmptySeq
  <2> QED
    BY <1>3, <2>1
<1>4. CASE \E x \in Answers : Answer(b) = <<x>>
  BY <1>1, <1>4
<1>5. CASE Answer(b) = <<"FA", "AA">>
  <2>1. "FA" \in Answers /\ "AA" \in Answers
    BY DEF Answers
  <2>2. s \o <<"FA">> \in Seq(Bytes) /\ Run(s \o <<"FA">>, a, d, ty)
    BY <1>1, <2>1
  <2>3. /\ (s \o <<"FA">>) \o <<"AA">> \in Seq(Bytes)
        /\ Run((s \o <<"FA">>) \o <<"AA">>, a, d, ty)
    BY <1>1, <2>1, <2>2
  <2>4. <<"FA">> \in Seq(Bytes) /\ <<"AA">> \in Seq(Bytes)
    BY <2>1 DEF Bytes
  <2>5. (s \o <<"FA">>) \o <<"AA">> = s \o (<<"FA">> \o <<"AA">>)
    BY <2>4, ConcatAssociative
  <2>6. <<"FA">> \o <<"AA">> = <<"FA", "AA">>
    BY <2>1, Pair
  <2> QED
    BY <1>5, <2>3, <2>5, <2>6
<1> QED
  BY <1>2, <1>3, <1>4, <1>5

\* What a step of the start does to the bytes.
LEMMA StartsBytes ==
    ASSUME out \in Seq(Bytes), Starts
    PROVE  /\ disturbed => disturbed'
           /\ \/ out' = out
              \/ \E b : out' = out \o Answer(b)
              \/ out # <<>> /\ out' = Tail(out) /\ (disturbed' \/ Head(out) \in Answers)
<1>1. out # <<>> => Head(out) \in Codes \/ Head(out) \in Answers
  BY EmptySeq DEF Bytes
<1>2. CASE Sends
  BY <1>2 DEF Sends
<1>3. CASE Expects \/ ReadsConfig
  BY <1>1, <1>3 DEF Expects, ReadsConfig
<1>4. CASE flushOutputBuffer
  BY <1>4 DEF flushOutputBuffer
<1>5. CASE Ends
  BY <1>5 DEF Ends
<1> QED
  BY <1>2, <1>3, <1>4, <1>5 DEF Starts

\* The start keeps the order.
LEMMA OrderStarts == ASSUME ReadyInv, OrderInv, Starts PROVE OrderInv'
<1>1. /\ out \in Seq(Bytes)
      /\ UNCHANGED <<shift, expecting_break, ringbuf, reader, got, typed, held, events>>
  BY DEF ReadyInv, Starts
<1>2. /\ ReaderInv' /\ typed' \in Seq(Typed)
      /\ held' \in BOOLEAN /\ shift' \in BOOLEAN /\ expecting_break' \in BOOLEAN
  BY <1>1 DEF OrderInv, ReaderInv
<1>3. ASSUME ~disturbed' PROVE \E c \in 0 .. Len(typed) : Struck(c)'
  <2>1. PICK c \in 0 .. Len(typed) : Struck(c)
    BY <1>3, <1>1, StartsBytes DEF OrderInv
  <2> DEFINE a == Decoding(expecting_break, shift, c)
             d == Decoding(FALSE, held, Len(typed))
  <2>2. /\ a \in Decoder /\ d \in Decoder
        /\ \A code \in Answers : After(a, code) = a
    <3>1. /\ expecting_break \in BOOLEAN /\ shift \in BOOLEAN /\ held \in BOOLEAN
          /\ FALSE \in BOOLEAN
      BY DEF OrderInv
    <3>2. c \in Nat /\ Len(typed) \in Nat
      BY DEF OrderInv
    <3>3. a \in Decoder
      BY <3>1, <3>2, DecodingIs, Zenon
    <3> HIDE DEF a
    <3>4. \A code \in Answers : After(a, code) = a
      BY DEF After
    <3>5. d \in Decoder
      BY <3>1, <3>2, DecodingIs, Zenon
    <3> QED
      BY <3>3, <3>4, <3>5
  <2>3. Run(out, a, d, typed)
    BY <2>1 DEF Struck
  <2> HIDE DEF a, d
  <2>4. Run(out', a, d, typed)
    <3>1. CASE out' = out
      BY <2>3, <3>1
    <3>2. CASE \E b : out' = out \o Answer(b)
      BY <1>1, <2>2, <2>3, <3>2, RunAnswers
    <3>3. CASE out # <<>> /\ out' = Tail(out) /\ Head(out) \in Answers
      BY <1>1, <2>2, <2>3, <3>3, RunTail
    <3> QED
      BY <1>1, <1>3, <3>1, <3>2, <3>3, StartsBytes
  <2>5. Arrived' = Arrived
    BY <1>1 DEF Arrived
  <2>6. Struck(c)'
    BY <1>1, <2>1, <2>4, <2>5 DEF Struck, a, d
  <2> QED
    BY <2>6
<1> QED
  BY <1>1, <1>2, <1>3 DEF OrderInv

\* Codes of a key arrive, and perhaps its character is typed.
LEMMA OrderTypes ==
    ASSUME OrderInv, out \in Seq(Bytes), NEW codes \in Seq(Codes),
           NEW characters \in Seq(Typed), NEW down \in BOOLEAN,
           Types(codes, characters, down),
           \A a : Run(out, a, Decoding(FALSE, held, Len(typed)), typed \o characters) =>
                    Run(out', a, Decoding(FALSE, down, Len(typed')), typed')
    PROVE  OrderInv'
<1>1. /\ out' = out \o codes /\ typed' = typed \o characters /\ held' = down
      /\ UNCHANGED <<shift, expecting_break, ringbuf, reader, got, disturbed>>
  BY DEF Types
<1>2. /\ typed' \in Seq(Typed) /\ Len(typed') = Len(typed) + Len(characters)
      /\ Len(characters) \in Nat /\ Len(typed) \in Nat
      /\ \A i \in 1 .. Len(typed) : i \in 1 .. Len(typed') /\ typed'[i] = typed[i]
  <2>1. typed \in Seq(Typed)
    BY DEF OrderInv
  <2>2. Len(characters) \in Nat /\ Len(typed) \in Nat
    BY <2>1
  <2> QED
    BY <1>1, <2>1, <2>2, ConcatProperties
<1>3. /\ ReaderInv' /\ Arrived' = Arrived
      /\ held' \in BOOLEAN /\ shift' \in BOOLEAN /\ expecting_break' \in BOOLEAN
  BY <1>1 DEF OrderInv, ReaderInv, Arrived
<1>4. ASSUME ~disturbed' PROVE \E c \in 0 .. Len(typed') : Struck(c)'
  <2>1. PICK c \in 0 .. Len(typed) : Struck(c)
    BY <1>1, <1>4 DEF OrderInv
  <2>2. c \in 0 .. Len(typed') /\ c \in Nat
    BY <1>2
  <2> DEFINE a == Decoding(expecting_break, shift, c)
             d == Decoding(FALSE, held, Len(typed))
  <2>3. Run(out, a, d, typed)
    BY <2>1 DEF Struck
  <2>4. Run(out, a, d, typed')
    BY <1>2, <2>3, RunTyped
  <2>5. Run(out', a, Decoding(FALSE, held', Len(typed')), typed')
    BY <1>1, <2>4
  <2>6. Embedded(Arrived', typed', c)
    <3>1. \A i \in 1 .. c : typed'[i] = typed[i]
      BY <1>2
    <3> QED
      BY <1>3, <2>1, <2>2, <3>1, EmbeddedMore DEF Struck
  <2>7. Struck(c)'
    BY <1>1, <1>3, <2>1, <2>5, <2>6 DEF Struck
  <2> QED
    BY <2>2, <2>7
<1> QED
  BY <1>2, <1>3, <1>4 DEF OrderInv

\* One more byte at the end of a run.
LEMMA RunByte ==
    ASSUME NEW s \in Seq(Bytes), NEW a, NEW ty, NEW b \in BOOLEAN, NEW h \in BOOLEAN,
           NEW n \in Nat, Run(s, a, Decoding(b, h, n), ty), NEW code \in Codes,
           ~b /\ code \in Keys =>
             n + 1 \in 1 .. Len(ty) /\ ty[n + 1] = [key |-> code, shift |-> h]
    PROVE  /\ s \o <<code>> \in Seq(Bytes)
           /\ Run(s \o <<code>>, a,
                  Decoding(code = "break", IF code = "shift" THEN ~b ELSE h,
                           IF ~b /\ code \in Keys THEN n + 1 ELSE n), ty)
<1> DEFINE d == Decoding(b, h, n)
           e == Decoding(code = "break", IF code = "shift" THEN ~b ELSE h,
                         IF ~b /\ code \in Keys THEN n + 1 ELSE n)
<1>1. code \notin Answers /\ code \in Bytes
  BY CodesApart DEF Bytes
<1>2. d \in Decoder
  BY DecodingIs
<1>3. After(d, code) = e
  BY <1>1, DecodingIs
<1>4. Agrees(d, code, ty)
  BY DecodingIs
<1>5. Run(s, a, d, ty)
  OBVIOUS
<1> HIDE DEF d, e
<1>6. Run(s \o <<code>>, a, After(d, code), ty)
  BY <1>1, <1>2, <1>4, <1>5, RunAppend
<1>7. s \o <<code>> \in Seq(Bytes)
  <2>1. <<code>> \in Seq(Bytes)
    BY <1>1
  <2> QED
    BY <2>1, ConcatProperties
<1> QED
  BY <1>3, <1>6, <1>7 DEF e

\* The bytes of a key, one by one.
LEMMA RunCodes ==
    ASSUME NEW s \in Seq(Bytes), NEW a, NEW ty, NEW h \in BOOLEAN, NEW n \in Nat
    PROVE  /\ Run(s, a, Decoding(FALSE, h, n), ty) =>
                /\ Run(s \o <<"break">>, a, Decoding(TRUE, h, n), ty)
                /\ Run(s \o <<"shift">>, a, Decoding(FALSE, TRUE, n), ty)
                /\ \A k \in Keys :
                     n + 1 \in 1 .. Len(ty) /\ ty[n + 1] = [key |-> k, shift |-> h] =>
                       Run(s \o <<k>>, a, Decoding(FALSE, h, n + 1), ty)
           /\ Run(s, a, Decoding(TRUE, h, n), ty) =>
                /\ Run(s \o <<"shift">>, a, Decoding(FALSE, FALSE, n), ty)
                /\ \A k \in Keys : Run(s \o <<k>>, a, Decoding(FALSE, h, n), ty)
<1> DEFINE D(b, code) == Decoding(code = "break", IF code = "shift" THEN ~b ELSE h,
                                  IF ~b /\ code \in Keys THEN n + 1 ELSE n)
<1>1. ASSUME NEW b \in BOOLEAN, NEW code \in Codes, Run(s, a, Decoding(b, h, n), ty),
             ~b /\ code \in Keys =>
               n + 1 \in 1 .. Len(ty) /\ ty[n + 1] = [key |-> code, shift |-> h]
      PROVE  Run(s \o <<code>>, a, D(b, code), ty)
  BY <1>1, RunByte
<1>2. /\ "break" \in Codes /\ "shift" \in Codes /\ \A k \in Keys : k \in Codes
      /\ "break" \notin Keys /\ "shift" \notin Keys
      /\ \A k \in Keys : k # "break" /\ k # "shift"
  BY KeyboardAssumption DEF Codes
<1>3. /\ D(FALSE, "break") = Decoding(TRUE, h, n)
      /\ D(FALSE, "shift") = Decoding(FALSE, TRUE, n)
      /\ D(TRUE, "shift") = Decoding(FALSE, FALSE, n)
  BY <1>2
<1>4. \A k \in Keys : D(FALSE, k) = Decoding(FALSE, h, n + 1)
  BY <1>2
<1>5. \A k \in Keys : D(TRUE, k) = Decoding(FALSE, h, n)
  BY <1>2
<1> HIDE DEF D
<1>6. ASSUME Run(s, a, Decoding(FALSE, h, n), ty)
      PROVE  /\ Run(s \o <<"break">>, a, Decoding(TRUE, h, n), ty)
             /\ Run(s \o <<"shift">>, a, Decoding(FALSE, TRUE, n), ty)
  <2>1. Run(s \o <<"break">>, a, D(FALSE, "break"), ty)
    BY <1>1, <1>2, <1>6
  <2>2. Run(s \o <<"shift">>, a, D(FALSE, "shift"), ty)
    BY <1>1, <1>2, <1>6
  <2> QED
    BY <1>3, <2>1, <2>2
<1>7. ASSUME Run(s, a, Decoding(FALSE, h, n), ty), NEW k \in Keys,
             n + 1 \in 1 .. Len(ty) /\ ty[n + 1] = [key |-> k, shift |-> h]
      PROVE  Run(s \o <<k>>, a, Decoding(FALSE, h, n + 1), ty)
  <2>1. Run(s \o <<k>>, a, D(FALSE, k), ty)
    BY <1>1, <1>2, <1>7
  <2> QED
    BY <1>4, <2>1
<1>8. ASSUME Run(s, a, Decoding(TRUE, h, n), ty)
      PROVE  Run(s \o <<"shift">>, a, Decoding(FALSE, FALSE, n), ty)
  <2>1. Run(s \o <<"shift">>, a, D(TRUE, "shift"), ty)
    BY <1>1, <1>2, <1>8
  <2> QED
    BY <1>3, <2>1
<1>9. ASSUME Run(s, a, Decoding(TRUE, h, n), ty), NEW k \in Keys
      PROVE  Run(s \o <<k>>, a, Decoding(FALSE, h, n), ty)
  <2>1. Run(s \o <<k>>, a, D(TRUE, k), ty)
    BY <1>1, <1>2, <1>9
  <2> QED
    BY <1>5, <2>1
<1> QED
  BY <1>6, <1>7, <1>8, <1>9

\* A break code and what follows it.
LEMMA RunReleases ==
    ASSUME NEW s \in Seq(Bytes), NEW a, NEW ty, NEW h \in BOOLEAN, NEW n \in Nat,
           Run(s, a, Decoding(FALSE, h, n), ty)
    PROVE  /\ Run(s \o <<"break", "shift">>, a, Decoding(FALSE, FALSE, n), ty)
           /\ \A k \in Keys : Run(s \o <<"break", k>>, a, Decoding(FALSE, h, n), ty)
<1>1. "break" \in Bytes /\ "shift" \in Bytes /\ \A k \in Keys : k \in Bytes
  BY DEF Bytes, Codes
<1>2. <<"break">> \in Seq(Bytes)
  BY <1>1
<1> DEFINE r == s \o <<"break">>
<1>3. r \in Seq(Bytes)
  BY <1>2, ConcatProperties
<1>4. Run(r, a, Decoding(TRUE, h, n), ty)
  BY RunCodes
<1>5. ASSUME NEW x \in Bytes PROVE r \o <<x>> = s \o <<"break", x>>
  <2>1. <<x>> \in Seq(Bytes)
    OBVIOUS
  <2>2. r \o <<x>> = s \o (<<"break">> \o <<x>>)
    BY <1>2, <2>1, ConcatAssociative
  <2>3. <<"break">> \o <<x>> = <<"break", x>>
    BY <1>1, Pair
  <2> QED
    BY <2>2, <2>3
<1> HIDE DEF r
<1>6. /\ Run(r \o <<"shift">>, a, Decoding(FALSE, FALSE, n), ty)
      /\ \A k \in Keys : Run(r \o <<k>>, a, Decoding(FALSE, h, n), ty)
  BY <1>3, <1>4, RunCodes
<1> QED
  BY <1>1, <1>5, <1>6

\* The keys keep the order.
LEMMA OrderKeys ==
    ASSUME OrderInv, out \in Seq(Bytes),
           \/ Shifts \/ Unshifts \/ \E k \in Keys : Presses(k) \/ Releases(k)
    PROVE  OrderInv'
<1> DEFINE d == Decoding(FALSE, held, Len(typed))
<1>1. /\ typed \in Seq(Typed) /\ Len(typed) \in Nat /\ held \in BOOLEAN
      /\ TRUE \in BOOLEAN /\ FALSE \in BOOLEAN
  BY DEF OrderInv
<1>2. <<>> \in Seq(Typed) /\ typed \o <<>> = typed
  BY <1>1, ConcatEmptySeq
<1>3. CASE Shifts
  <2>1. <<"shift">> \in Seq(Codes)
    BY DEF Codes
  <2>2. Types(<<"shift">>, <<>>, TRUE)
    BY <1>3 DEF Shifts
  <2>3. out' = out \o <<"shift">> /\ typed' = typed
    BY <1>2, <2>2 DEF Types
  <2>4. ASSUME NEW a, Run(out, a, d, typed \o <<>>)
        PROVE  Run(out', a, Decoding(FALSE, TRUE, Len(typed')), typed')
    BY <1>1, <1>2, <2>3, <2>4, RunCodes
  <2> QED
    BY <1>1, <1>2, <2>1, <2>2, <2>4, OrderTypes
<1>4. CASE Unshifts
  <2>1. <<"break", "shift">> \in Seq(Codes)
    BY DEF Codes
  <2>2. Types(<<"break", "shift">>, <<>>, FALSE)
    BY <1>4 DEF Unshifts
  <2>3. out' = out \o <<"break", "shift">> /\ typed' = typed
    BY <1>2, <2>2 DEF Types
  <2>4. ASSUME NEW a, Run(out, a, d, typed \o <<>>)
        PROVE  Run(out', a, Decoding(FALSE, FALSE, Len(typed')), typed')
    BY <1>1, <1>2, <2>3, <2>4, RunReleases
  <2> QED
    BY <1>1, <1>2, <2>1, <2>2, <2>4, OrderTypes
<1>5. ASSUME NEW k \in Keys, Releases(k) PROVE OrderInv'
  <2>1. <<"break", k>> \in Seq(Codes)
    BY DEF Codes
  <2>2. Types(<<"break", k>>, <<>>, held)
    BY <1>5 DEF Releases
  <2>3. out' = out \o <<"break", k>> /\ typed' = typed
    BY <1>2, <2>2 DEF Types
  <2>4. ASSUME NEW a, Run(out, a, d, typed \o <<>>)
        PROVE  Run(out', a, Decoding(FALSE, held, Len(typed')), typed')
    BY <1>1, <1>2, <2>3, <2>4, RunReleases
  <2> QED
    BY <1>1, <1>2, <2>1, <2>2, <2>4, OrderTypes
<1>6. ASSUME NEW k \in Keys, Presses(k) PROVE OrderInv'
  <2> DEFINE e == [key |-> k, shift |-> held]
  <2>1. <<k>> \in Seq(Codes)
    BY DEF Codes
  <2>2. e \in Typed
    BY <1>1 DEF Typed
  <2>3. Types(<<k>>, <<e>>, held)
    BY <1>6 DEF Presses
  <2> HIDE DEF e
  <2>4. <<e>> \in Seq(Typed)
    BY <2>2
  <2>5. out' = out \o <<k>> /\ typed' = typed \o <<e>>
    BY <2>3 DEF Types
  <2>6. Len(typed') = Len(typed) + 1 /\ typed'[Len(typed) + 1] = e
    BY <1>1, <2>2, <2>5, AppendIsConcat, AppendProperties
  <2>7. ASSUME NEW a, Run(out, a, d, typed \o <<e>>)
        PROVE  Run(out', a, Decoding(FALSE, held, Len(typed')), typed')
    <3>1. Len(typed) + 1 \in 1 .. Len(typed')
      BY <1>1, <2>6
    <3>2. typed'[Len(typed) + 1] = [key |-> k, shift |-> held]
      BY <2>6 DEF e
    <3>3. Run(out, a, d, typed')
      BY <2>5, <2>7
    <3> QED
      BY <1>1, <2>5, <2>6, <3>1, <3>2, <3>3, RunCodes
  <2> QED
    BY <1>1, <2>1, <2>3, <2>4, <2>7, OrderTypes
<1> QED
  BY <1>3, <1>4, <1>5, <1>6

\* The interrupt handler at its ring, wherever the reader is.
LEMMA HandlerSparesReader ==
    ASSUME ReaderInv, NEW e \in Slots,
           ringbuf' = ringbuf \/ ringbuf' = enqueue(ringbuf, e), UNCHANGED <<reader, got>>
    PROVE  ReaderInv'
<1>1. /\ ringbuf \in Queue /\ ringbuf.data \in [0 .. Ring - 1 -> Slots]
      /\ ringbuf.head \in 0 .. Ring - 1 /\ ringbuf.tail \in 0 .. Ring - 1
  BY DEF ReaderInv, Queue
<1>2. CASE ringbuf' = ringbuf
  BY <1>2 DEF ReaderInv
<1>3. CASE ringbuf' = enqueue(ringbuf, e)
  <2>1. CASE Following(ringbuf.head) = ringbuf.tail
    <3>1. ringbuf' = ringbuf
      BY <1>1, <1>3, <2>1, Enqueues
    <3> QED
      BY <1>2, <3>1
  <2>2. CASE Following(ringbuf.head) # ringbuf.tail
    <3>1. /\ ringbuf' \in Queue /\ ringbuf'.tail = ringbuf.tail
          /\ ringbuf'.data = [ringbuf.data EXCEPT ![ringbuf.head] = e]
          /\ ringbuf'.head # ringbuf.tail
      BY <1>1, <1>3, <2>2, Enqueues
    <3>2. ringbuf.head # ringbuf.tail => ringbuf'.data[ringbuf.tail] = ringbuf.data[ringbuf.tail]
      BY <1>1, <3>1
    <3> QED
      BY <3>1, <3>2 DEF ReaderInv
  <2> QED
    BY <2>1, <2>2
<1> QED
  BY <1>2, <1>3

\* The interrupt handler keeps the order: a character enters the ring behind the
\* others, or the ring is full and drops it.
LEMMA OrderHandles == ASSUME ReadyInv, OrderInv, handle_irq PROVE OrderInv'
<1> DEFINE code == Head(out)
           e == [key |-> code, shift |-> shift]
<1>1. /\ out \in Seq(Bytes) /\ out # <<>> /\ out' = Tail(out) /\ phase # "init"
      /\ UNCHANGED <<device, step, phase, reader, got, typed, held, events, disturbed>>
  BY DEF ReadyInv, handle_irq
<1>2. /\ expecting_break' = (code = "break")
      /\ shift' = IF code = "shift" THEN ~expecting_break ELSE shift
      /\ ringbuf' = IF HasCharacter(code) THEN enqueue(ringbuf, e) ELSE ringbuf
  BY DEF handle_irq, scancodeToKey
<1>3. ReaderInv /\ ringbuf \in Queue /\ got \in Seq(Slots)
  BY DEF OrderInv, ReaderInv
<1>4. /\ expecting_break \in BOOLEAN /\ shift \in BOOLEAN /\ held \in BOOLEAN
      /\ typed \in Seq(Typed) /\ Len(typed) \in Nat
  BY DEF OrderInv
<1>5. HasCharacter(code) => e \in Typed /\ e \in Slots
  BY <1>4 DEF HasCharacter, Typed, Slots
<1> HIDE DEF code, e
<1>6. ReaderInv'
  <2>1. CASE HasCharacter(code)
    <3>1. ringbuf' = enqueue(ringbuf, e)
      BY <1>2, <2>1
    <3> QED
      BY <1>1, <1>3, <1>5, <2>1, <3>1, HandlerSparesReader
  <2>2. CASE ~HasCharacter(code)
    <3>1. ringbuf' = ringbuf
      BY <1>2, <2>2
    <3> QED
      BY <1>1, <1>3, <3>1 DEF ReaderInv
  <2> QED
    BY <2>1, <2>2
<1>7. expecting_break' \in BOOLEAN /\ shift' \in BOOLEAN
  BY <1>2, <1>4
<1>8. ASSUME ~disturbed' PROVE \E c \in 0 .. Len(typed') : Struck(c)'
  <2>1. PICK c \in 0 .. Len(typed) : Struck(c)
    BY <1>1, <1>8 DEF OrderInv
  <2>2. code \notin Answers
    <3>1. NoAnswer(out)
      BY <1>1, <1>8 DEF ReadyInv
    <3>2. 1 \in DOMAIN out /\ code = out[1]
      BY <1>1, EmptySeq DEF code
    <3> QED
      BY <3>1, <3>2 DEF NoAnswer
  <2>3. c \in Nat /\ c <= Len(typed)
    BY <1>4
  <2> DEFINE a == Decoding(expecting_break, shift, c)
             d == Decoding(FALSE, held, Len(typed))
             n == IF ~expecting_break /\ code \in Keys THEN c + 1 ELSE c
  <2>4. /\ After(a, code) = Decoding(expecting_break', shift', n)
        /\ Agrees(a, code, typed) <=>
             (HasCharacter(code) => c + 1 \in 1 .. Len(typed) /\ typed[c + 1] = e)
    <3>1. After(a, code) =
            Decoding(code = "break", IF code = "shift" THEN ~expecting_break ELSE shift, n)
      BY <1>4, <2>2, <2>3, DecodingIs
    <3>2. Agrees(a, code, typed) <=>
            (~expecting_break /\ code \in Keys =>
               c + 1 \in 1 .. Len(typed) /\ typed[c + 1] = [key |-> code, shift |-> shift])
      BY <1>4, <2>3, DecodingIs
    <3> HIDE DEF a, n
    <3> QED
      BY <1>2, <3>1, <3>2 DEF HasCharacter, e
  <2>5. Run(out, a, d, typed)
    BY <2>1 DEF Struck
  <2> HIDE DEF a, d
  <2>6. Run(out', After(a, code), d, typed) /\ Agrees(a, code, typed)
    BY <1>1, <2>5, RunTail DEF code
  <2>7. Run(out', Decoding(expecting_break', shift', n), Decoding(FALSE, held', Len(typed')),
            typed')
    BY <1>1, <2>4, <2>6 DEF d
  <2>8. /\ Embedded(Arrived, typed, c)
        /\ Len(Arrived) = c \/ Len(Arrived) >= Ring - 1
        /\ Contents(ringbuf) \in Seq(Slots) /\ Arrived \in Seq(Slots)
        /\ Len(Arrived) = Len(got) + Len(Contents(ringbuf)) /\ Len(got) \in Nat
    <3>1. Contents(ringbuf) \in Seq(Slots)
      BY <1>3, ContentsAre
    <3> QED
      BY <1>3, <2>1, <3>1, ConcatProperties DEF Struck, Arrived
  <2>9. CASE ~HasCharacter(code)
    <3>1. n = c /\ ringbuf' = ringbuf
      BY <1>2, <2>9 DEF HasCharacter
    <3>2. Arrived' = Arrived
      BY <1>1, <3>1 DEF Arrived
    <3> HIDE DEF n
    <3>3. Struck(c)'
      BY <1>1, <2>7, <2>8, <3>1, <3>2 DEF Struck
    <3> QED
      BY <1>1, <3>3
  <2>10. CASE HasCharacter(code)
    <3>1. n = c + 1
      BY <2>10 DEF HasCharacter
    <3>2. c + 1 \in 0 .. Len(typed') /\ typed[c + 1] = e /\ e \in Slots
      BY <1>1, <1>5, <2>4, <2>6, <2>10
    <3> HIDE DEF n
    <3>3. ringbuf' = enqueue(ringbuf, e)
      BY <1>2, <2>10
    <3>4. /\ Embedded(Arrived', typed', c + 1)
          /\ Len(Arrived') = c + 1 \/ Len(Arrived') >= Ring - 1
      <4>1. CASE Following(ringbuf.head) = ringbuf.tail
        <5>1. ringbuf' = ringbuf /\ Len(Contents(ringbuf)) = Ring - 1
          BY <1>3, <3>2, <3>3, <4>1, Enqueues
        <5>2. Arrived' = Arrived
          BY <1>1, <5>1 DEF Arrived
        <5>3. Embedded(Arrived, typed, c + 1)
          BY <2>3, <2>8, EmbeddedMore
        <5>4. Len(Arrived) >= Ring - 1
          BY <2>8, <5>1, KeyboardAssumption
        <5> QED
          BY <1>1, <5>2, <5>3, <5>4
      <4>2. CASE Following(ringbuf.head) # ringbuf.tail
        <5>1. Contents(ringbuf') = Contents(ringbuf) \o <<e>>
          BY <1>3, <3>2, <3>3, <4>2, Enqueues
        <5>2. <<e>> \in Seq(Slots)
          BY <3>2
        <5>3. got \o (Contents(ringbuf) \o <<e>>) = (got \o Contents(ringbuf)) \o <<e>>
          BY <1>3, <2>8, <5>2, ConcatAssociative
        <5>4. Arrived' = Arrived \o <<e>>
          BY <1>1, <5>1, <5>3 DEF Arrived
        <5>5. Embedded(Arrived \o <<e>>, typed, c + 1)
          BY <2>3, <2>8, <3>2, EmbeddedAppend
        <5>6. Len(Arrived \o <<e>>) = Len(Arrived) + 1
          BY <2>8, <3>2, AppendIsConcat, AppendProperties
        <5>7. Len(Arrived) \in Nat
          BY <2>8
        <5>8. Len(Arrived') = c + 1 \/ Len(Arrived') >= Ring - 1
          BY <2>3, <2>8, <5>4, <5>6, <5>7, KeyboardAssumption
        <5> QED
          BY <1>1, <5>4, <5>5, <5>8
      <4> QED
        BY <4>1, <4>2
    <3>5. Struck(c + 1)'
      BY <2>7, <3>1, <3>4 DEF Struck
    <3> QED
      BY <3>2, <3>5
  <2> QED
    BY <2>9, <2>10
<1> QED
  BY <1>1, <1>4, <1>6, <1>7, <1>8 DEF OrderInv

\* A reader keeps the order: a character leaves the ring when it has been read.
LEMMA OrderReads == ASSUME OrderInv, Reads PROVE OrderInv'
<1>1. /\ UNCHANGED <<out, device, step, phase, shift, expecting_break, typed, held,
                     events, disturbed>>
      /\ Finds \/ Fetches \/ Advances
  BY DEF Reads
<1>2. /\ ReaderInv /\ ringbuf \in Queue /\ got \in Seq(Slots)
      /\ reader \in [at : {"test", "copy", "advance"}, ch : Slots]
      /\ reader.at # "test" => ringbuf.head # ringbuf.tail
      /\ reader.at = "advance" => reader.ch = ringbuf.data[ringbuf.tail]
  BY DEF OrderInv, ReaderInv
<1>3. ReaderInv' /\ Arrived' = Arrived
  <2>1. CASE Finds
    <3>1. reader.at = "test" /\ ringbuf.head # ringbuf.tail /\ UNCHANGED <<ringbuf, got>>
      BY <2>1 DEF Finds
    <3>2. /\ reader' \in [at : {"test", "copy", "advance"}, ch : Slots]
          /\ reader'.at = "copy"
      BY <1>2, <2>1 DEF Finds
    <3> QED
      BY <1>2, <3>1, <3>2 DEF ReaderInv, Arrived
  <2>2. CASE Fetches
    <3>1. reader.at = "copy" /\ UNCHANGED <<ringbuf, got>>
      BY <2>2 DEF Fetches
    <3>2. ringbuf.data[ringbuf.tail] \in Slots
      BY <1>2 DEF Queue
    <3>3. /\ reader' \in [at : {"test", "copy", "advance"}, ch : Slots]
          /\ reader'.ch = ringbuf.data[ringbuf.tail]
      BY <2>2, <3>2 DEF Fetches
    <3> QED
      BY <1>2, <3>1, <3>3 DEF ReaderInv, Arrived
  <2>3. CASE Advances
    <3> DEFINE d == ringbuf.data[ringbuf.tail]
    <3>1. /\ ringbuf.head # ringbuf.tail /\ reader.ch = d
          /\ ringbuf' = [ringbuf EXCEPT !.tail = Following(ringbuf.tail)]
          /\ got' = Append(got, d)
      BY <1>2, <2>3 DEF Advances
    <3>2. /\ reader' \in [at : {"test", "copy", "advance"}, ch : Slots]
          /\ reader'.at = "test"
      BY <1>2, <2>3 DEF Advances
    <3>3. /\ ringbuf' \in Queue /\ d \in Slots
          /\ Contents(ringbuf) = <<d>> \o Contents(ringbuf')
      BY <1>2, <3>1, Dequeues
    <3> HIDE DEF d
    <3>4. got' \in Seq(Slots) /\ got' = got \o <<d>>
      BY <1>2, <3>1, <3>3, AppendIsConcat, AppendProperties
    <3>5. <<d>> \in Seq(Slots) /\ Contents(ringbuf') \in Seq(Slots)
      BY <3>3, ContentsAre
    <3>6. (got \o <<d>>) \o Contents(ringbuf') = got \o (<<d>> \o Contents(ringbuf'))
      BY <1>2, <3>5, ConcatAssociative
    <3>7. Arrived' = Arrived
      BY <3>3, <3>4, <3>6 DEF Arrived
    <3> QED
      BY <3>2, <3>3, <3>4, <3>7 DEF ReaderInv
  <2> QED
    BY <1>1, <2>1, <2>2, <2>3
<1>4. \A c : Struck(c) => Struck(c)'
  BY <1>1, <1>3 DEF Struck
<1> QED
  BY <1>1, <1>3, <1>4 DEF OrderInv

\* Nothing is typed at first.
LEMMA OrderInit == KeyboardInit => OrderInv
<1> SUFFICES ASSUME KeyboardInit PROVE OrderInv
  OBVIOUS
<1>1. /\ out = <<>> /\ got = <<>> /\ typed = <<>>
      /\ shift = FALSE /\ expecting_break = FALSE /\ held = FALSE
  BY DEF KeyboardInit
<1>2. ringbuf \in Queue /\ ringbuf.head = ringbuf.tail
  <2>1. Ring \in Nat \ {0} /\ 0 \in 0 .. Ring - 1
    BY KeyboardAssumption
  <2>2. ringbuf = [data |-> [i \in 0 .. (Ring - 1) |-> 0], head |-> 0, tail |-> 0]
    BY DEF KeyboardInit
  <2>3. [i \in 0 .. (Ring - 1) |-> 0] \in [0 .. Ring - 1 -> Slots]
    BY DEF Slots
  <2> QED
    BY <2>1, <2>2, <2>3 DEF Queue
<1>3. ReaderInv
  <2>1. reader \in [at : {"test", "copy", "advance"}, ch : Slots] /\ reader.at = "test"
    BY DEF KeyboardInit, Slots
  <2> QED
    BY <1>1, <1>2, <2>1 DEF ReaderInv
<1>4. Arrived = <<>>
  <2>1. Contents(ringbuf) \in Seq(Slots) /\ Len(Contents(ringbuf)) = 0
    BY <1>2, ContentsAre DEF Filled, Queue
  <2>2. Contents(ringbuf) = <<>>
    BY <2>1, EmptySeq
  <2> QED
    BY <1>1, <2>1, <2>2, ConcatEmptySeq DEF Arrived
<1>5. Len(<<>>) = 0 /\ <<>> \in Seq(Typed)
  OBVIOUS
<1>6. Struck(0)
  <2>1. Decoding(FALSE, FALSE, 0) \in Decoder
    BY DecodingIs
  <2>2. Run(<<>>, Decoding(FALSE, FALSE, 0), Decoding(FALSE, FALSE, 0), <<>>)
    BY <2>1, RunEmpty
  <2>3. Embedded(<<>>, <<>>, 0)
    <3> DEFINE at == [i \in 1 .. 0 |-> i]
    <3>1. at \in [1 .. Len(<<>>) -> 1 .. 0] /\ 1 .. Len(<<>>) = {}
      BY <1>5
    <3> HIDE DEF at
    <3> QED
      BY <3>1 DEF Embedded
  <2> QED
    BY <1>1, <1>4, <1>5, <2>2, <2>3 DEF Struck
<1>7. held \in BOOLEAN /\ shift \in BOOLEAN /\ expecting_break \in BOOLEAN
  BY <1>1
<1>8. 0 \in 0 .. Len(typed) /\ typed \in Seq(Typed)
  BY <1>1, <1>5
<1> QED
  BY <1>3, <1>6, <1>7, <1>8 DEF OrderInv

\* The invariant of the keyboard holds at first.
LEMMA KeyboardInitInv == KeyboardInit => KeyboardInv
  BY ReadyInit, OrderInit DEF KeyboardInv

\* Every step of the keyboard keeps its invariant.
LEMMA KeyboardNextInv == KeyboardInv /\ [KeyboardNext]_keyboardVars => KeyboardInv'
<1> SUFFICES ASSUME KeyboardInv, [KeyboardNext]_keyboardVars PROVE KeyboardInv'
  OBVIOUS
<1>1. ReadyInv /\ OrderInv /\ out \in Seq(Bytes)
  BY DEF KeyboardInv, ReadyInv
<1>2. ReadyInv'
  BY <1>1, ReadyNext
<1>3. CASE Starts
  BY <1>1, <1>2, <1>3, OrderStarts DEF KeyboardInv
<1>4. CASE \/ Shifts \/ Unshifts \/ \E k \in Keys : Presses(k) \/ Releases(k)
  BY <1>1, <1>2, <1>4, OrderKeys DEF KeyboardInv
<1>5. CASE handle_irq
  BY <1>1, <1>2, <1>5, OrderHandles DEF KeyboardInv
<1>6. CASE Reads
  BY <1>1, <1>2, <1>6, OrderReads DEF KeyboardInv
<1>7. CASE UNCHANGED keyboardVars
  <2>1. Arrived' = Arrived /\ \A c : Struck(c) => Struck(c)'
    BY <1>7 DEF keyboardVars, Arrived, Struck
  <2>2. OrderInv'
    BY <1>1, <1>7, <2>1 DEF keyboardVars, OrderInv, ReaderInv
  <2> QED
    BY <1>2, <2>2 DEF KeyboardInv
<1> QED
  BY <1>3, <1>4, <1>5, <1>6, <1>7 DEF KeyboardNext

\* Keys arrive in order when the invariant holds.
LEMMA OrderInvShows == OrderInv => KeysArriveInOrder
<1> SUFFICES ASSUME OrderInv, ~disturbed PROVE KeysArriveInOrder
  BY DEF KeysArriveInOrder
<1>1. PICK c \in 0 .. Len(typed) : Struck(c)
  BY DEF OrderInv
<1>2. /\ typed \in Seq(Typed) /\ Len(typed) \in Nat /\ c \in Nat
      /\ DOMAIN typed = 1 .. Len(typed)
  BY DEF OrderInv
<1>3. Arrived \in Seq(Slots) /\ DOMAIN Arrived = 1 .. Len(Arrived)
  <2>1. got \in Seq(Slots) /\ Contents(ringbuf) \in Seq(Slots)
    BY ContentsAre DEF OrderInv, ReaderInv
  <2>2. Arrived \in Seq(Slots)
    BY <2>1, ConcatProperties DEF Arrived
  <2> QED
    BY <2>2
<1>4. \E at \in [DOMAIN Arrived -> DOMAIN typed] :
        /\ \A i, j \in DOMAIN at : i < j => at[i] < at[j]
        /\ \A i \in DOMAIN at : Arrived[i] = typed[at[i]]
  <2>1. PICK at \in [1 .. Len(Arrived) -> 1 .. c] :
          /\ \A i, j \in 1 .. Len(Arrived) : i < j => at[i] < at[j]
          /\ \A i \in 1 .. Len(Arrived) : Arrived[i] = typed[at[i]]
    BY <1>1 DEF Struck, Embedded
  <2>2. at \in [DOMAIN Arrived -> DOMAIN typed] /\ DOMAIN at = 1 .. Len(Arrived)
    BY <1>2, <1>3
  <2> QED
    BY <2>1, <2>2
<1>5. ASSUME out = <<>> PROVE Len(Arrived) = Len(typed) \/ Len(Arrived) >= Ring - 1
  <2>1. Decoding(expecting_break, shift, c) = Decoding(FALSE, held, Len(typed))
    BY <1>1, <1>5, RunDone DEF Struck
  <2>2. Decoding(expecting_break, shift, c).cnt = c
    BY DEF Decoding
  <2>3. Decoding(FALSE, held, Len(typed)).cnt = Len(typed)
    BY DEF Decoding
  <2>4. c = Len(typed)
    BY <2>1, <2>2, <2>3
  <2> QED
    BY <1>1, <2>4 DEF Struck
<1> QED
  BY <1>4, <1>5 DEF KeysArriveInOrder, Arrived

\* The invariant shows both properties.
LEMMA KeyboardInvShows == KeyboardInv => KeyboardReady /\ KeysArriveInOrder
  BY ReadyInvShows, OrderInvShows DEF KeyboardInv

-----------------------------------------------------------------------------
(* Glyphs stay on the screen. *)

\* The cursor stands on a column of glyphs.
Column(x) == \E k \in Nat : x = k * GlyphWidth

\* One glyph to the left, unless the column is the first, and to the right.
LEMMA Columns ==
    ASSUME NEW x, Column(x)
    PROVE  /\ x \in Nat
           /\ x > 0 => x - GlyphWidth \in Nat /\ Column(x - GlyphWidth)
           /\ Column(x + GlyphWidth)
           /\ Column(x + 4 * GlyphWidth)
<1> DEFINE W == GlyphWidth
<1>1. W \in Nat \ {0}
  BY GlyphFits
<1>2. PICK k \in Nat : x = k * W
  BY DEF Column
<1>3. x \in Nat
  BY <1>1, <1>2
<1>4. (k + 1) * W = x + W /\ (k + 4) * W = x + 4 * W
  BY <1>1, <1>2
<1>5. ASSUME x > 0
      PROVE  x - W \in Nat /\ Column(x - W)
  <2>1. k > 0
    BY <1>1, <1>2, <1>5
  <2>2. k - 1 \in Nat /\ (k - 1) * W = x - W
    BY <1>1, <1>2, <2>1
  <2>3. (k - 1) * W \in Nat
    BY <1>1, <2>2
  <2> QED
    BY <2>2, <2>3 DEF Column
<1> QED
  BY <1>3, <1>4, <1>5 DEF Column

\* The cursor has its place; only behind a tab may there be no room for a glyph.
CursorInv ==
    /\ cursor \in [x : Nat, y : 0 .. (Height - GlyphHeight)]
    /\ Column(cursor.x)
    /\ tabbed \in BOOLEAN
    /\ ~tabbed => cursor.x + GlyphWidth <= Width

\* A glyph in a line of the screen is drawn up to the right margin, and by one
\* pixel beyond it if it starts there.
LEMMA PixelsBounded ==
    ASSUME NEW x \in Nat, NEW y \in 0 .. (Height - GlyphHeight)
    PROVE  /\ Pixels(x, y) \subseteq (0 .. Width) \X (0 .. (Height - 1))
           /\ x + GlyphWidth <= Width =>
                  Pixels(x, y) \subseteq (0 .. (Width - 1)) \X (0 .. (Height - 1))
<1> SUFFICES ASSUME NEW p \in Pixels(x, y)
             PROVE  /\ p \in (0 .. Width) \X (0 .. (Height - 1))
                    /\ x + GlyphWidth <= Width =>
                           p \in (0 .. (Width - 1)) \X (0 .. (Height - 1))
  OBVIOUS
<1>1. /\ p \in (x .. (x + GlyphWidth - 1)) \X (y .. (y + GlyphHeight - 1))
      /\ ~(p[1] > Width)
  BY DEF Pixels, Accepted
<1> QED
  BY <1>1, GlyphFits

\* Where a character takes the cursor before the screen scrolls.
LEMMA MovedOnScreen ==
    ASSUME CursorInv, NEW ch
    PROVE  /\ Moved(ch) \in [x : Nat, y : 0 .. Height]
           /\ Moved(ch).y \in {cursor.y, cursor.y + GlyphHeight}
           /\ Column(Moved(ch).x)
           /\ ch # "TAB" /\ (tabbed => cursor.x = 0) =>
                  Moved(ch).x + GlyphWidth <= Width
<1> DEFINE W == GlyphWidth  x == cursor.x  y == cursor.y
<1>1. /\ W \in Nat \ {0} /\ GlyphHeight \in Nat \ {0}
      /\ Width \in Nat /\ W <= Width
      /\ Height \in Nat /\ GlyphHeight <= Height
  BY GlyphFits
<1>2. /\ x \in Nat /\ y \in 0 .. (Height - GlyphHeight)
      /\ cursor = [x |-> x, y |-> y]
      /\ Column(x)
      /\ ~tabbed => x + W <= Width
  BY DEF CursorInv
<1>3. /\ Column(0)
      /\ x > 0 => x - W \in Nat /\ Column(x - W)
      /\ Column(x + W) /\ Column(x + 4 * W)
      /\ x + W \in Nat /\ x + 4 * W \in Nat
  <2>1. 0 = 0 * W
    BY <1>1
  <2> QED
    BY <1>1, <1>2, <2>1, Columns DEF Column
<1>4. y + GlyphHeight \in 0 .. Height /\ y \in 0 .. Height
  BY <1>1, <1>2
<1> HIDE DEF W, x, y
<1>5. \E a \in Nat, b \in {y, y + GlyphHeight} :
          /\ Moved(ch) = [x |-> a, y |-> b]
          /\ Column(a)
          /\ ch # "TAB" /\ (tabbed => x = 0) => a + W <= Width
  <2>1. CASE ch \in {"CR", "NL"}
    <3>1. Moved(ch) = [x |-> 0, y |-> y] \/ Moved(ch) = [x |-> 0, y |-> y + GlyphHeight]
      BY <1>2, <2>1 DEF Moved, y
    <3> QED
      BY <1>1, <1>3, <3>1
  <2>2. CASE ch \in {"BS", "DEL"}
    <3>1. Moved(ch) = [x |-> IF x > 0 THEN x - W ELSE x, y |-> y]
      BY <1>2, <2>2 DEF Moved, W
    <3> QED
      BY <1>1, <1>2, <1>3, <3>1
  <2>3. CASE ch = "TAB"
    <3>1. Moved(ch) = [x |-> x + 4 * W, y |-> y]
      BY <1>2, <2>3 DEF Moved, W
    <3> QED
      BY <1>3, <2>3, <3>1
  <2>4. CASE ch \notin {"CR", "NL", "BS", "DEL", "TAB"}
    <3>1. Moved(ch) = IF x + 2 * W > Width THEN [x |-> 0, y |-> y + GlyphHeight]
                      ELSE [x |-> x + W, y |-> y]
      BY <1>2, <2>4 DEF Moved, W, x, y
    <3> QED
      BY <1>1, <1>2, <1>3, <3>1
  <2> QED
    BY <2>1, <2>2, <2>3, <2>4
<1> QED
  BY <1>4, <1>5 DEF W, x, y

\* drawChar keeps the cursor in its place and draws a glyph on the screen.
LEMMA DrawingStays ==
    ASSUME CursorInv, NEW ch, drawChar(ch)
    PROVE  CursorInv' /\ PixelsInside'
<1> DEFINE c == Moved(ch)
<1>1. /\ GlyphWidth \in Nat \ {0} /\ GlyphHeight \in Nat \ {0}
      /\ Width \in Nat /\ GlyphWidth <= Width
      /\ Height \in Nat /\ GlyphHeight <= Height
  BY GlyphFits
<1>2. /\ cursor.x \in Nat /\ cursor.y \in 0 .. (Height - GlyphHeight)
      /\ Column(cursor.x) /\ tabbed \in BOOLEAN
      /\ ~tabbed => cursor.x + GlyphWidth <= Width
  BY DEF CursorInv
<1>3. /\ c \in [x : Nat, y : 0 .. Height]
      /\ c.y \in {cursor.y, cursor.y + GlyphHeight}
      /\ Column(c.x)
      /\ ch # "TAB" /\ (tabbed => cursor.x = 0) => c.x + GlyphWidth <= Width
  BY MovedOnScreen
<1>4. /\ cursor' = scroll(c)
      /\ tabbed' = (ch = "TAB" \/ (tabbed /\ cursor.x > 0))
  BY DEF drawChar
<1> HIDE DEF c
<1>5. /\ cursor' \in [x : Nat, y : 0 .. (Height - GlyphHeight)]
      /\ cursor'.x = c.x
  BY <1>1, <1>2, <1>3, <1>4 DEF scroll
<1>6. ~tabbed' => ch # "TAB" /\ (tabbed => cursor.x = 0)
  <2>1. cursor.x > 0 \/ cursor.x = 0
    BY <1>2
  <2> QED
    BY <1>4, <2>1, Zenon
<1>7. CursorInv'
  <2>1. Column(cursor'.x)
    BY <1>3, <1>5
  <2> QED
    BY <1>3, <1>4, <1>5, <1>6, <2>1 DEF CursorInv, Column
<1>8. drawn' \subseteq (0 .. (IF tabbed' THEN Width ELSE Width - 1)) \X (0 .. (Height - 1))
  <2> DEFINE Inside == (0 .. (IF tabbed' THEN Width ELSE Width - 1)) \X (0 .. (Height - 1))
  <2>1. ~tabbed' => cursor.x + GlyphWidth <= Width
    BY <1>1, <1>2, <1>6
  <2>2. CASE ch = "DEL" /\ cursor.x > 0
    <3>1. drawn' = Pixels(cursor.x - GlyphWidth, cursor.y)
      BY <2>2 DEF drawChar
    <3>2. cursor.x - GlyphWidth \in Nat
      BY <1>2, <2>2, Columns
    <3>3. cursor.x + GlyphWidth <= Width => (cursor.x - GlyphWidth) + GlyphWidth <= Width
      BY <1>1, <1>2
    <3> QED
      BY <1>2, <2>1, <3>1, <3>2, <3>3, PixelsBounded
  <2>3. CASE ~(ch = "DEL" /\ cursor.x > 0) /\ ch \in {"CR", "NL", "BS", "TAB", "DEL"}
    BY <2>3 DEF drawChar
  <2>4. CASE ch \notin {"CR", "NL", "BS", "TAB", "DEL"}
    <3>1. drawn' = Pixels(cursor.x, cursor.y)
      BY <2>4 DEF drawChar
    <3> QED
      BY <1>2, <2>1, <3>1, PixelsBounded
  <2> QED
    BY <2>2, <2>3, <2>4
<1> QED
  BY <1>5, <1>7, <1>8 DEF PixelsInside

-----------------------------------------------------------------------------
(* Text is shown as it was written. *)

\* The rest of a piece behind its first character.
LEMMA Tails ==
    ASSUME NEW a, NEW b, NEW c, NEW d, NEW e, NEW f
    PROVE  /\ Head(<<a>>) = a /\ Tail(<<a>>) = <<>> /\ <<a>> # <<>>
           /\ Head(<<a, b>>) = a /\ Tail(<<a, b>>) = <<b>>
           /\ Head(<<a, b, c>>) = a /\ Tail(<<a, b, c>>) = <<b, c>>
           /\ Head(<<a, b, c, d>>) = a /\ Tail(<<a, b, c, d>>) = <<b, c, d>>
           /\ Head(<<a, b, c, d, e>>) = a
           /\ Tail(<<a, b, c, d, e>>) = <<b, c, d, e>>
           /\ Head(<<a, b, c, d, e, f>>) = a
           /\ Tail(<<a, b, c, d, e, f>>) = <<b, c, d, e, f>>
  OBVIOUS

\* The last character of a piece, and the digit of a sequence.
LEMMA Pieces ==
    ASSUME NEW digit, NEW ch
    PROVE  /\ Last(Plain(ch)) = ch /\ Len(Plain(ch)) = 1
           /\ Last(Coloured(digit, ch)) = ch /\ Len(Coloured(digit, ch)) = 6
           /\ Coloured(digit, ch)[4] = digit
  BY DEF Last, Plain, Coloured

\* The flags of the parser.
Parser(start, bracket, color_start, ended) ==
    /\ ansi.start = start
    /\ ansi.bracket = bracket
    /\ ansi.color_start = color_start
    /\ ansi.ended = ended

\* The colour that the next end of a sequence chooses is the one wanted.
Agreed == IF ansi.color_ch \in Digits THEN ansi.color_ch = wanted ELSE color = wanted

\* No sequence is under way, and text would appear in the colour wanted.
Resting == Parser(FALSE, FALSE, FALSE, FALSE) /\ Agreed /\ color = wanted

\* The process wants the colour of the sequence it has begun, if that is not 3.
Chosen(digit) == IF digit = "3" THEN Agreed /\ color = wanted ELSE wanted = digit

\* How far the parser is in a sequence for digit with ch behind it.
Within(digit, ch) ==
    \/ /\ todo = <<"ESC", "[", "3", digit, "m", ch>>
       /\ Parser(FALSE, FALSE, FALSE, FALSE) /\ Chosen(digit)
    \/ /\ todo = <<"[", "3", digit, "m", ch>>
       /\ Parser(TRUE, FALSE, FALSE, FALSE) /\ Chosen(digit)
    \/ /\ todo = <<"3", digit, "m", ch>>
       /\ Parser(TRUE, TRUE, FALSE, FALSE) /\ Chosen(digit)
    \/ /\ todo = <<digit, "m", ch>>
       /\ Parser(TRUE, TRUE, TRUE, FALSE) /\ Chosen(digit)
    \/ /\ todo = <<"m", ch>>
       /\ Parser(TRUE, TRUE, TRUE, FALSE) /\ Agreed
    \/ /\ todo = <<ch>>
       /\ Parser(TRUE, TRUE, FALSE, TRUE) /\ Agreed

\* Where a process that writes is.
Writing ==
    \/ todo = <<>> /\ owed = <<>> /\ Resting
    \/ \E ch \in Characters : todo = <<ch>> /\ owed = <<ch>> /\ Resting
    \/ \E digit \in Colours, ch \in Characters :
           Follows(ch) /\ owed = <<ch>> /\ Within(digit, ch)

\* The inductive invariant: without an echo in a sequence the parser is where
\* the process that writes has led it.
TextInv ==
    /\ wrong \in BOOLEAN /\ echoed \in BOOLEAN
    /\ \/ echoed
       \/ /\ ~wrong
          /\ ansi \in [start : BOOLEAN, bracket : BOOLEAN, color_start : BOOLEAN,
                       ended : BOOLEAN, color_ch : Digits \cup {"NUL"}]
          /\ Writing

\* A character that no sequence is under way for passes the parser.
LEMMA PlainPasses ==
    ASSUME Parser(FALSE, FALSE, FALSE, FALSE), NEW ch, ch # "ESC"
    PROVE  AnsiAfter(ch) = ansi /\ ColorAfter(ch) = color /\ Prints(ch)
  BY DEF Parser, AnsiAfter, ColorAfter, Prints

\* putchar sets the parser and the colour.
LEMMA PutcharSets ==
    ASSUME NEW ch, putchar(ch)
    PROVE  ansi' = AnsiAfter(ch) /\ color' = ColorAfter(ch)
  BY DEF putchar

\* At first nothing is written and the parser rests.
LEMMA TextInit == ConsoleInit => TextInv
<1> SUFFICES ASSUME ConsoleInit PROVE TextInv
  OBVIOUS
<1>1. /\ todo = <<>> /\ owed = <<>> /\ wrong = FALSE /\ echoed = FALSE
      /\ ansi = NoSequence /\ color = "7" /\ wanted = "7"
  BY DEF ConsoleInit
<1>2. Resting
  BY <1>1 DEF Resting, Parser, Agreed, NoSequence, Digits
<1>3. ansi \in [start : BOOLEAN, bracket : BOOLEAN, color_start : BOOLEAN,
                ended : BOOLEAN, color_ch : Digits \cup {"NUL"}]
  BY <1>1 DEF NoSequence
<1> QED
  BY <1>1, <1>2, <1>3 DEF TextInv, Writing

\* A process begins a piece.
LEMMA TextWrites ==
    ASSUME TextInv,
           \/ \E ch \in Characters : Writes(Plain(ch))
           \/ \E ch \in Characters, digit \in Colours :
                  Follows(ch) /\ Writes(Coloured(digit, ch))
    PROVE  TextInv'
<1>1. CASE echoed
  BY <1>1 DEF TextInv, Writes
<1>2. CASE ~echoed
  <2>1. /\ todo = <<>>
        /\ UNCHANGED <<ansi, color, wrong, echoed>>
    BY DEF Writes
  <2>2. Resting
    BY <1>2, <2>1 DEF TextInv, Writing, Within
  <2>3. ASSUME NEW ch \in Characters, Writes(Plain(ch))
        PROVE  Writing'
    <3>1. todo' = <<ch>> /\ owed' = <<ch>> /\ wanted' = wanted
      BY <2>3, Pieces DEF Writes, Plain
    <3> QED
      BY <2>1, <2>2, <3>1 DEF Writing, Resting, Parser, Agreed
  <2>4. ASSUME NEW ch \in Characters, NEW digit \in Colours, Follows(ch),
               Writes(Coloured(digit, ch))
        PROVE  Writing'
    <3>1. /\ todo' = <<"ESC", "[", "3", digit, "m", ch>> /\ owed' = <<ch>>
          /\ wanted' = IF digit = "3" THEN wanted ELSE digit
      BY <2>4, Pieces DEF Writes, Coloured
    <3>2. Parser(FALSE, FALSE, FALSE, FALSE)' /\ Chosen(digit)'
      BY <2>1, <2>2, <3>1 DEF Resting, Parser, Chosen, Agreed
    <3> QED
      BY <2>4, <3>1, <3>2 DEF Writing, Within, Follows
  <2> QED
    BY <1>2, <2>1, <2>3, <2>4 DEF TextInv
<1> QED
  BY <1>1, <1>2

\* An echo passes the parser like a character of the process, or falls into a
\* sequence.
LEMMA TextEchoes ==
    ASSUME TextInv, NEW ch \in Characters, Echoes(ch)
    PROVE  TextInv'
<1>1. /\ echoed' = (echoed \/ ansi.start)
      /\ UNCHANGED <<todo, wanted, owed, wrong>>
      /\ ansi' = AnsiAfter(ch) /\ color' = ColorAfter(ch)
  BY PutcharSets DEF Echoes
<1>2. CASE echoed
  BY <1>1, <1>2 DEF TextInv
<1>3. CASE ~echoed
  <2>1. ansi.start \in BOOLEAN /\ Writing
    BY <1>3 DEF TextInv
  <2>2. CASE ansi.start
    BY <1>1, <2>1, <2>2 DEF TextInv
  <2>3. CASE ~ansi.start
    <3>1. Parser(FALSE, FALSE, FALSE, FALSE)
      BY <2>1, <2>3 DEF Writing, Within, Resting, Parser
    <3>2. ansi' = ansi /\ color' = color
      BY <1>1, <3>1, PlainPasses, TextAssumption
    <3>3. Writing'
      BY <1>1, <2>1, <3>2 DEF Writing, Within, Resting, Parser, Agreed, Chosen
    <3> QED
      BY <1>1, <1>3, <2>1, <2>3, <3>2, <3>3 DEF TextInv
  <2> QED
    BY <2>1, <2>2, <2>3
<1> QED
  BY <1>2, <1>3 DEF TextInv

\* The parser takes the next character of a piece.
LEMMA TextPuts ==
    ASSUME TextInv, Puts
    PROVE  TextInv'
<1> DEFINE Ansi == [start : BOOLEAN, bracket : BOOLEAN, color_start : BOOLEAN,
                    ended : BOOLEAN, color_ch : Digits \cup {"NUL"}]
           first == Head(todo)
<1>1. /\ todo # <<>> /\ todo' = Tail(todo)
      /\ ansi' = AnsiAfter(first) /\ color' = ColorAfter(first)
      /\ IF Prints(first)
         THEN /\ wrong' = (wrong \/ owed # <<first>> \/ color' # wanted)
              /\ owed' = <<>>
         ELSE UNCHANGED <<wrong, owed>>
      /\ UNCHANGED <<wanted, echoed>>
  BY PutcharSets DEF Puts
<1>2. CASE echoed
  <2>1. wrong' \in BOOLEAN
    BY <1>1 DEF TextInv
  <2> QED
    BY <1>1, <1>2, <2>1 DEF TextInv
<1>3. CASE ~echoed
  <2>1. ansi \in Ansi /\ ~wrong /\ wrong \in BOOLEAN /\ Writing
    BY <1>3 DEF TextInv
  <2> DEFINE Goal == ansi' \in Ansi /\ ~wrong' /\ wrong' \in BOOLEAN /\ Writing'
  <2>2. ASSUME NEW ch \in Characters, todo = <<ch>>, owed = <<ch>>, Resting
        PROVE  Goal
    <3>1. first = ch /\ todo' = <<>>
      BY <1>1, <2>2, Tails
    <3>2. ansi' = ansi /\ color' = color /\ Prints(first)
      BY <1>1, <2>2, <3>1, PlainPasses, TextAssumption DEF Resting
    <3>3. ~wrong' /\ wrong' \in BOOLEAN /\ owed' = <<>>
      BY <1>1, <2>1, <2>2, <3>1, <3>2 DEF Resting
    <3> QED
      BY <1>1, <2>1, <2>2, <3>1, <3>2, <3>3 DEF Writing, Resting, Parser, Agreed
  <2>3. ASSUME NEW digit \in Colours, NEW ch \in Characters, Follows(ch),
               owed = <<ch>>, Within(digit, ch)
        PROVE  Goal
    <3>1. /\ digit \in Digits
          /\ ch # "ESC" /\ ch # "["
      BY <2>3, TextAssumption DEF Follows
    <3> DEFINE Silent == ~Prints(first) /\ ansi' \in Ansi /\ Within(digit, ch)'
    <3>2. ASSUME Silent PROVE Goal
      BY <1>1, <2>1, <2>3, <3>2 DEF Writing, Follows
    <3>3. ASSUME todo = <<"ESC", "[", "3", digit, "m", ch>>,
                 Parser(FALSE, FALSE, FALSE, FALSE), Chosen(digit)
          PROVE  Silent
      <4>1. first = "ESC" /\ todo' = <<"[", "3", digit, "m", ch>>
        BY <1>1, <3>3, Tails
      <4>2. /\ ansi' \in Ansi /\ ansi'.color_ch = ansi.color_ch
            /\ Parser(TRUE, FALSE, FALSE, FALSE)' /\ ~Prints(first)
            /\ color' = color
        BY <1>1, <2>1, <3>3, <4>1 DEF AnsiAfter, ColorAfter, Prints, Parser
      <4> QED
        BY <1>1, <3>3, <4>1, <4>2 DEF Within, Chosen, Agreed
    <3>4. ASSUME todo = <<"[", "3", digit, "m", ch>>,
                 Parser(TRUE, FALSE, FALSE, FALSE), Chosen(digit)
          PROVE  Silent
      <4>1. first = "[" /\ todo' = <<"3", digit, "m", ch>>
        BY <1>1, <3>4, Tails
      <4>2. /\ ansi' \in Ansi /\ ansi'.color_ch = ansi.color_ch
            /\ Parser(TRUE, TRUE, FALSE, FALSE)' /\ ~Prints(first)
            /\ color' = color
        BY <1>1, <2>1, <3>4, <4>1 DEF AnsiAfter, ColorAfter, Prints, Parser, Digits
      <4> QED
        BY <1>1, <3>4, <4>1, <4>2 DEF Within, Chosen, Agreed
    <3>5. ASSUME todo = <<"3", digit, "m", ch>>,
                 Parser(TRUE, TRUE, FALSE, FALSE), Chosen(digit)
          PROVE  Silent
      <4>1. first = "3" /\ todo' = <<digit, "m", ch>>
        BY <1>1, <3>5, Tails
      <4>2. /\ ansi' \in Ansi /\ ansi'.color_ch = ansi.color_ch
            /\ Parser(TRUE, TRUE, TRUE, FALSE)' /\ ~Prints(first)
            /\ color' = color
        BY <1>1, <2>1, <3>5, <4>1 DEF AnsiAfter, ColorAfter, Prints, Parser, Digits
      <4> QED
        BY <1>1, <3>5, <4>1, <4>2 DEF Within, Chosen, Agreed
    <3>6. ASSUME todo = <<digit, "m", ch>>,
                 Parser(TRUE, TRUE, TRUE, FALSE), Chosen(digit)
          PROVE  Silent
      <4>1. first = digit /\ todo' = <<"m", ch>>
        BY <1>1, <3>6, Tails
      <4>2. /\ ansi' \in Ansi
            /\ ansi'.color_ch = IF digit = "3" THEN ansi.color_ch ELSE digit
            /\ Parser(TRUE, TRUE, TRUE, FALSE)' /\ ~Prints(first)
            /\ color' = color
        BY <1>1, <2>1, <3>1, <3>6, <4>1 DEF AnsiAfter, ColorAfter, Prints, Parser, Digits
      <4>3. Agreed'
        BY <1>1, <3>1, <3>6, <4>2 DEF Chosen, Agreed
      <4> QED
        BY <1>1, <4>1, <4>2, <4>3 DEF Within
    <3>7. ASSUME todo = <<"m", ch>>, Parser(TRUE, TRUE, TRUE, FALSE), Agreed
          PROVE  Silent
      <4>1. first = "m" /\ todo' = <<ch>>
        BY <1>1, <3>7, Tails
      <4>2. /\ ansi' \in Ansi /\ ansi'.color_ch = ansi.color_ch
            /\ Parser(TRUE, TRUE, FALSE, TRUE)' /\ ~Prints(first)
            /\ color' = color
        BY <1>1, <2>1, <3>7, <4>1 DEF AnsiAfter, ColorAfter, Prints, Parser
      <4> QED
        BY <1>1, <3>7, <4>1, <4>2 DEF Within, Agreed
    <3>8. ASSUME todo = <<ch>>, Parser(TRUE, TRUE, FALSE, TRUE), Agreed
          PROVE  Goal
      <4>1. first = ch /\ todo' = <<>>
        BY <1>1, <3>8, Tails
      <4>2. /\ ansi' \in Ansi /\ ansi'.color_ch = ansi.color_ch
            /\ Parser(FALSE, FALSE, FALSE, FALSE)' /\ Prints(first)
            /\ color' = IF ansi.color_ch \in Digits THEN ansi.color_ch ELSE color
        BY <1>1, <2>1, <3>1, <3>8, <4>1 DEF AnsiAfter, ColorAfter, Prints, Parser
      <4>3. color' = wanted
        BY <3>8, <4>2 DEF Agreed
      <4>4. ~wrong' /\ wrong' \in BOOLEAN /\ owed' = <<>>
        BY <1>1, <2>1, <2>3, <4>1, <4>2, <4>3
      <4>5. Agreed'
        BY <1>1, <3>8, <4>2, <4>3 DEF Agreed
      <4> QED
        BY <1>1, <4>1, <4>2, <4>3, <4>4, <4>5 DEF Writing, Resting
    <3> HIDE DEF Silent, Goal
    <3> QED
      BY <2>3, <3>2, <3>3, <3>4, <3>5, <3>6, <3>7, <3>8 DEF Within
  <2>4. Goal
    <3> HIDE DEF Goal
    <3> QED
      BY <1>1, <2>1, <2>2, <2>3 DEF Writing
  <2> QED
    BY <1>1, <1>3, <2>4 DEF TextInv
<1> QED
  BY <1>2, <1>3

-----------------------------------------------------------------------------
(* The console. *)

\* The inductive invariant of the console.
ConsoleInv == CursorInv /\ PixelsInside /\ TextInv

\* Console() leaves the cursor at the origin and the parser at rest.
LEMMA ConsoleInitInv == ConsoleInit => ConsoleInv
<1> SUFFICES ASSUME ConsoleInit PROVE ConsoleInv
  OBVIOUS
<1>1. cursor = [x |-> 0, y |-> 0] /\ drawn = {} /\ tabbed = FALSE
  BY DEF ConsoleInit
<1>2. 0 \in 0 .. (Height - GlyphHeight) /\ 0 + GlyphWidth <= Width
  BY GlyphFits
<1>3. Column(0)
  BY GlyphFits DEF Column
<1>4. CursorInv
  BY <1>1, <1>2, <1>3 DEF CursorInv
<1>5. PixelsInside
  BY <1>1, <1>2 DEF PixelsInside
<1> QED
  BY <1>4, <1>5, TextInit DEF ConsoleInv

\* Every character that is written or echoed keeps it.
LEMMA ConsoleNextInv == ConsoleInv /\ [ConsoleNext]_consoleVars => ConsoleInv'
<1> SUFFICES ASSUME ConsoleInv, [ConsoleNext]_consoleVars PROVE ConsoleInv'
  OBVIOUS
<1>0. CursorInv /\ PixelsInside /\ TextInv
  BY DEF ConsoleInv
<1> DEFINE Still == drawn' \in {{}, drawn} /\ UNCHANGED <<cursor, tabbed>>
<1>1. ASSUME Still PROVE CursorInv' /\ PixelsInside'
  BY <1>0, <1>1 DEF CursorInv, PixelsInside, Column
<1>2. ASSUME NEW ch, putchar(ch) PROVE CursorInv' /\ PixelsInside'
  BY <1>0, <1>1, <1>2, DrawingStays DEF putchar
<1>3. CASE Puts
  BY <1>0, <1>2, <1>3, TextPuts DEF Puts, ConsoleInv
<1>4. CASE \E ch \in Characters : Echoes(ch)
  BY <1>0, <1>2, <1>4, TextEchoes DEF Echoes, ConsoleInv
<1>5. CASE \/ \E ch \in Characters : Writes(Plain(ch))
           \/ \E ch \in Characters, digit \in Colours :
                  Follows(ch) /\ Writes(Coloured(digit, ch))
  <2>1. Still
    BY <1>5 DEF Writes
  <2> QED
    BY <1>0, <1>1, <1>5, <2>1, TextWrites DEF ConsoleInv
<1>6. CASE UNCHANGED consoleVars
  <2>1. Still
    BY <1>6 DEF consoleVars
  <2>2. TextInv'
    BY <1>0, <1>6 DEF consoleVars, TextInv, Writing, Within, Resting, Parser,
                      Agreed, Chosen
  <2> QED
    BY <1>1, <2>1, <2>2 DEF ConsoleInv
<1> QED
  BY <1>3, <1>4, <1>5, <1>6 DEF ConsoleNext

\* What the invariant is for.
LEMMA ConsoleInvShows == ConsoleInv => PixelsInside /\ TextShown
<1> SUFFICES ASSUME ConsoleInv PROVE PixelsInside /\ TextShown
  OBVIOUS
<1>1. PixelsInside
  BY DEF ConsoleInv
<1>2. ASSUME ~echoed PROVE ~wrong /\ (todo = <<>> => owed = <<>>)
  <2>1. ~wrong /\ Writing
    BY <1>2 DEF ConsoleInv, TextInv
  <2>2. ASSUME NEW digit, NEW ch, Within(digit, ch) PROVE todo # <<>>
    <3>1. \/ todo = <<"ESC", "[", "3", digit, "m", ch>>
          \/ todo = <<"[", "3", digit, "m", ch>>
          \/ todo = <<"3", digit, "m", ch>>
          \/ todo = <<digit, "m", ch>>
          \/ todo = <<"m", ch>>
          \/ todo = <<ch>>
      BY <2>2, Zenon DEF Within
    <3>2. /\ Len(<<"ESC", "[", "3", digit, "m", ch>>) = 6
          /\ Len(<<"[", "3", digit, "m", ch>>) = 5
          /\ Len(<<"3", digit, "m", ch>>) = 4
          /\ Len(<<digit, "m", ch>>) = 3
          /\ Len(<<"m", ch>>) = 2
          /\ Len(<<ch>>) = 1
          /\ Len(<<>>) = 0
      OBVIOUS
    <3> QED
      BY <3>1, <3>2
  <2>3. \A ch : <<ch>> # <<>>
    OBVIOUS
  <2> QED
    BY <2>1, <2>2, <2>3 DEF Writing
<1> QED
  BY <1>1, <1>2 DEF TextShown, ConsoleInv, TextInv

=============================================================================
