---- MODULE Keyboard ----
(***************************************************************************)
(* The keyboard, from its start to a reader: Ps2Kbd::init talks to the     *)
(* PS/2 controller and to the keyboard while keys may already be typed;    *)
(* then the interrupt handler decodes scancodes into a ring, which a read  *)
(* of D:/input empties with interrupts enabled.                            *)
(*                                                                         *)
(* A byte of the device is a key (its make code) or a name.  The device's  *)
(* side is not part of the repository: it is modelled from what init       *)
(* expects of it.  A second reader of the ring is left out.                *)
(***************************************************************************)
EXTENDS Integers, Sequences

CONSTANTS Keys,       \* keys with a character
          Ring,       \* slots of the ring: 50
          MaxEvents   \* bound on presses and releases

VARIABLES out,        \* bytes the device holds for the data port
          device,     \* what commands have set in the controller and the keyboard
          step,       \* the step of Ps2Kbd::init to come
          phase,      \* "init", then how it ended
          shift, expecting_break,
          ringbuf,    \* Queue: data, head, tail
          reader,     \* where File::read is in dequeue, and its ch
          got,        \* what it has read
          typed,      \* the characters of the keys pressed, in order
          held,       \* the shift key is down
          events, disturbed   \* init took a byte of a key
keyboardVars == <<out, device, step, phase, shift, expecting_break, ringbuf, reader, got,
                  typed, held, events, disturbed>>

Codes == Keys \union {"shift", "break"}
Answers == {"55", "00", "FA", "AA", "config"}

\* No key is taken for another byte.  The make code of =, which is 55, is left out:
\* the port lets no key through while the controller is tested.
ASSUME KeyboardAssumption ==
  /\ Keys \intersect (Answers \union {"shift", "break"}) = {}
  /\ Ring \in Nat \ {0}

----------------------------------------------------------------------------

\* The answer of the controller or of the keyboard to a byte it is sent.
Answer(byte) ==
  CASE byte = "TEST_CONTROLLER" -> <<"55">>
    [] byte = "READ_CONFIG" -> <<"config">>
    [] byte = "TEST_PORT_1" -> <<"00">>
    [] byte = "SELF_TEST" -> <<"FA", "AA">>
    [] byte \in {"MANAGE_SCANCODE_SET", "2", "ENABLE_SCANNING"} -> <<"FA">>
    [] OTHER -> <<>>

\* What a byte sets in the device; a self test ends with the default settings.
Effect(byte) ==
  CASE byte = "DISABLE_PORT_1" -> [device EXCEPT !.enabled = FALSE]
    [] byte = "ENABLE_PORT_1" -> [device EXCEPT !.enabled = TRUE]
    [] byte = "conf" -> [device EXCEPT !.interrupt = TRUE, !.translation = FALSE]
    [] byte = "SELF_TEST" -> [device EXCEPT !.set = "default", !.scanning = TRUE]
    [] byte = "2" -> [device EXCEPT !.set = "2"]
    [] byte = "ENABLE_SCANNING" -> [device EXCEPT !.scanning = TRUE]
    [] OTHER -> device

\* Steps of the start: a byte is sent, an answer read and compared, the
\* answer to READ_CONFIG read, the output buffer flushed.
Send(byte) == [do |-> "send", byte |-> byte]
Expect(byte) == [do |-> "expect", byte |-> byte]
ReadConfig == [do |-> "read", byte |-> "config"]
Flush == [do |-> "flush", byte |-> ""]

controllerPerformSelfTest == <<Send("TEST_CONTROLLER"), Expect("55")>>
keyboardPerformSelfTest == <<Send("SELF_TEST"), Expect("FA"), Expect("AA")>>
writeConfig == <<Send("READ_CONFIG"), ReadConfig, Send("WRITE_CONFIG"), Send("conf")>>
setScancodeSet == <<Send("MANAGE_SCANCODE_SET"), Expect("FA"), Send("2"), Expect("FA")>>
enableScanning == <<Send("ENABLE_SCANNING"), Expect("FA")>>

ps2init == <<Send("DISABLE_PORT_1"), Send("DISABLE_PORT_2"), Flush>>
           \o controllerPerformSelfTest \o writeConfig
           \o <<Send("ENABLE_PORT_1"), Flush, Send("TEST_PORT_1"), Expect("00")>>
           \o keyboardPerformSelfTest \o setScancodeSet \o enableScanning

\* write, sendCommand: a byte goes to the device.
Sends ==
  /\ ps2init[step].do = "send"
  /\ device' = Effect(ps2init[step].byte)
  /\ out' = out \o Answer(ps2init[step].byte)
  /\ step' = step + 1 /\ UNCHANGED <<phase, disturbed>>

\* Mutant of Expects: the byte is read and not looked at.
ExpectsAnything ==
  /\ ps2init[step].do = "expect" /\ out # <<>>
  /\ out' = Tail(out)
  /\ disturbed' = (disturbed \/ Head(out) \in Codes)
  /\ phase' = phase /\ step' = step + 1
  /\ UNCHANGED device

\* read, and the return from init when it is not the answer that is due.
Expects ==
  /\ ps2init[step].do = "expect" /\ out # <<>>
  /\ out' = Tail(out)
  /\ disturbed' = (disturbed \/ Head(out) \in Codes)
  /\ IF Head(out) = ps2init[step].byte
     THEN phase' = phase /\ step' = step + 1
     ELSE phase' = "failed" /\ step' = step
  /\ UNCHANGED device

ReadsConfig ==
  /\ ps2init[step].do = "read" /\ out # <<>>
  /\ out' = Tail(out) /\ disturbed' = (disturbed \/ Head(out) \in Codes)
  /\ step' = step + 1 /\ UNCHANGED <<device, phase>>

flushOutputBuffer ==
  /\ ps2init[step].do = "flush"
  /\ IF out = <<>> THEN step' = step + 1 /\ UNCHANGED <<out, disturbed>>
     ELSE out' = Tail(out) /\ disturbed' = TRUE /\ step' = step
  /\ UNCHANGED <<device, phase>>

Ends ==
  /\ step > Len(ps2init) /\ phase' = "ok"
  /\ UNCHANGED <<out, device, step, disturbed>>

Starts ==
  /\ phase = "init"
  /\ \/ step <= Len(ps2init) /\ (Sends \/ Expects \/ ReadsConfig \/ flushOutputBuffer)
     \/ Ends
  /\ UNCHANGED <<shift, expecting_break, ringbuf, reader, got, typed, held, events>>

----------------------------------------------------------------------------

\* A key goes down or up: its codes reach the data port if the port lets them.
Types(codes, characters, down) ==
  /\ events < MaxEvents /\ events' = events + 1
  /\ device.enabled /\ device.scanning
  /\ out' = out \o codes
  /\ typed' = typed \o characters
  /\ held' = down
  /\ UNCHANGED <<device, step, phase, shift, expecting_break, ringbuf, reader, got, disturbed>>

Presses(k) == Types(<<k>>, <<[key |-> k, shift |-> held]>>, held)
Releases(k) == Types(<<"break", k>>, <<>>, held)
Shifts == Types(<<"shift">>, <<>>, TRUE)
Unshifts == held /\ Types(<<"break", "shift">>, <<>>, FALSE)

----------------------------------------------------------------------------

Following(i) == (i + 1) % Ring

\* Mutant of enqueue: a full ring is not noticed.
EnqueueAlways(q, element) ==
  [q EXCEPT !.data[q.head] = element, !.head = Following(q.head)]

\* Queue::enqueue drops what does not fit: one slot stays free.
enqueue(q, element) ==
  IF Following(q.head) = q.tail THEN q
  ELSE [q EXCEPT !.data[q.head] = element, !.head = Following(q.head)]

\* The elements of the ring, oldest first.
Contents(q) ==
  [i \in 1..((q.head - q.tail + Ring) % Ring) |-> q.data[(q.tail + i - 1) % Ring]]

\* The character of a scancode, if it has one.
HasCharacter(code) == ~expecting_break /\ code \in Keys

scancodeToKey(code) ==
  /\ expecting_break' = (code = "break")
  /\ shift' = IF code = "shift" THEN ~expecting_break ELSE shift

\* handle_irq, at any step of a reader; the PIC lets it through from Keyboard::init on.
handle_irq ==
  /\ phase # "init" /\ device.interrupt /\ out # <<>>
  /\ out' = Tail(out)
  /\ scancodeToKey(Head(out))
  /\ ringbuf' = IF HasCharacter(Head(out))
                THEN enqueue(ringbuf, [key |-> Head(out), shift |-> shift])
                ELSE ringbuf
  /\ UNCHANGED <<device, step, phase, reader, got, typed, held, events, disturbed>>

----------------------------------------------------------------------------

\* Queue::dequeue in the loop of File::read, which tries until it gets a character.
Finds == /\ reader.at = "test" /\ ringbuf.head # ringbuf.tail
         /\ reader' = [reader EXCEPT !.at = "copy"]
         /\ UNCHANGED <<ringbuf, got>>
Fetches == /\ reader.at = "copy"
           /\ reader' = [at |-> "advance", ch |-> ringbuf.data[ringbuf.tail]]
           /\ UNCHANGED <<ringbuf, got>>
Advances == /\ reader.at = "advance"
            /\ ringbuf' = [ringbuf EXCEPT !.tail = Following(ringbuf.tail)]
            /\ got' = Append(got, reader.ch)
            /\ reader' = [reader EXCEPT !.at = "test"]

Reads == /\ phase # "init" /\ (Finds \/ Fetches \/ Advances)
         /\ UNCHANGED <<out, device, step, phase, shift, expecting_break, typed, held,
                        events, disturbed>>

KeyboardInit ==
  /\ out = <<>> /\ step = 1 /\ phase = "init"
  /\ device = [enabled |-> TRUE, interrupt |-> FALSE, translation |-> TRUE,
               scanning |-> TRUE, set |-> "default"]
  /\ shift = FALSE /\ expecting_break = FALSE
  /\ ringbuf = [data |-> [i \in 0..(Ring - 1) |-> 0], head |-> 0, tail |-> 0]
  /\ reader = [at |-> "test", ch |-> 0] /\ got = <<>>
  /\ typed = <<>> /\ held = FALSE /\ events = 0 /\ disturbed = FALSE

KeyboardNext ==
  \/ Starts \/ Shifts \/ Unshifts \/ handle_irq \/ Reads
  \/ \E k \in Keys : Presses(k) \/ Releases(k)

----------------------------------------------------------------------------

\* When init reports success (ps2kbd.cpp) the keyboard scans in set 2 without
\* translation and no answer is left that would be taken for a key, whatever is
\* typed meanwhile; and nothing but a key makes it fail.
KeyboardReady ==
  /\ phase = "ok" =>
       /\ device = [enabled |-> TRUE, interrupt |-> TRUE, translation |-> FALSE,
                    scanning |-> TRUE, set |-> "2"]
       /\ \A i \in DOMAIN out : out[i] \notin Answers
  /\ phase = "failed" => disturbed

\* What a reader has read, followed by what the ring holds, are characters of the
\* keys pressed, each once and in order, with the shift of their time, wherever the
\* interrupt falls in dequeue (queue.hpp): the ring only drops a character when it is
\* full.  A start that took half the bytes of a key loses this.
KeysArriveInOrder ==
  disturbed \/
    LET arrived == got \o Contents(ringbuf)
    IN /\ \E at \in [DOMAIN arrived -> DOMAIN typed] :
            /\ \A i, j \in DOMAIN at : i < j => at[i] < at[j]
            /\ \A i \in DOMAIN at : arrived[i] = typed[at[i]]
       /\ out = <<>> => Len(arrived) = Len(typed) \/ Len(arrived) >= Ring - 1
====
