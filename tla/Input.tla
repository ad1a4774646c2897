------------------------------- MODULE Input -------------------------------
(***************************************************************************)
(* Keyboard and mouse (proj/keyboard.c, proj/mouse.c) behind one keyboard  *)
(* controller, from the command that turns the mouse on (run, before its   *)
(* loop) to the notifications of the loop.  Both devices share the one     *)
(* byte of the output buffer and each handler reads it, whoever's byte it  *)
(* is.                                                                     *)
(*                                                                         *)
(* A byte of the keyboard is the key it names and whether that goes down;  *)
(* a byte of the mouse is the packet and the place in it, and bit 3, which *)
(* is set in the first byte and is anything in the two movements.          *)
(* Abstracted: the fields assembly_packet reads out of the three bytes; the *)
(* input buffer, which is empty again after the delays; ESC, which ends    *)
(* the program.                                                            *)
(***************************************************************************)
EXTENDS Integers, Sequences

CONSTANTS
  Plain,        \* keys with a break code of one byte in break_codes
  Arrows,       \* keys with one of two bytes
  POLLS, TRIES, \* attempts of mouse_write_byte and try_mouse_operation: 10 each
  MaxSent,      \* bound of the model: scancodes and packets sent
  MaxErrors     \* bound of the model: bytes with a parity or timeout error

ASSUME InputAssumption ==
  /\ Plain \cap Arrows = {}
  /\ POLLS \in Nat \ {0} /\ TRIES \in Nat \ {0}
  /\ MaxSent \in Nat /\ MaxErrors \in Nat

VARIABLES
  phase,            \* where run() is: "poll" and "ack" in mouse_write_byte, "idle"
                    \* between two notifications, "key" and "mouse" in one
  polls, tries,     \* the counts of mouse_write_byte and try_mouse_operation
  hs,               \* the interrupts of the notification
  irq,              \* the interrupts pending
  buf,              \* the output buffer, << >> when OBF is clear
  kbd,              \* bytes the keyboard still has to send of a scancode
  mouse,            \* bytes the mouse still has to send
  reporting,        \* the mouse sends packets
  toMouse,          \* the next byte for port 0x60 goes to the mouse: 0xD4 was the last command
  bytes, assemblied_word,           \* keyboard_handler
  got_key_press, keyboard_packet,
  mbytes, byte_count,               \* mouse_handler
  got_mouse_packet,
  clean, whole, fresh, meant,       \* history of the keyboard, see below
  settled, part, ended,             \* history of the mouse
  sent, errors                      \* counters of the bounds

run      == <<phase, polls, tries, hs>>
devices  == <<kbd, mouse, reporting, toMouse>>
keyboard == <<bytes, assemblied_word, got_key_press, keyboard_packet>>
pointer  == <<mbytes, byte_count, got_mouse_packet>>
keysHeard == <<clean, whole, fresh, meant>>
moves    == <<settled, part, ended>>
history  == <<keysHeard, moves>>
counters == <<sent, errors>>
vars     == <<run, irq, buf, devices, keyboard, pointer, history, counters>>

-----------------------------------------------------------------------------
(* Bytes                                                                   *)

PREFIX == [key |-> "prefix", down |-> FALSE]   \* TWO_BYTE_SCANCODE_PREFIX
NUL    == [key |-> "nul", down |-> TRUE]       \* 0, as statics begin
UNKNOWN  == "unknown"                          \* a key break_codes does not have
UNKNOWN2 == "unknown2"                         \* one with a scancode of two bytes
NONE   == "none"                               \* key.key = 0

\* BYTE_TO_MOUSE_SUCCESS, 0xFA: what either device answers a command with.
KBD_ACK == [key |-> "ack", down |-> FALSE]
ACK     == [packet |-> 0, place |-> 0, bit3 |-> TRUE]

ASSUME KeysAssumption ==
  (Plain \cup Arrows) \cap {PREFIX.key, NUL.key, KBD_ACK.key, UNKNOWN, UNKNOWN2, NONE} = {}

KeyBytes(keys) == [key : keys, down : BOOLEAN]
Scancodes ==
  {<<b>> : b \in KeyBytes(Plain \cup {UNKNOWN})}
    \cup {<<PREFIX, b>> : b \in KeyBytes(Arrows \cup {UNKNOWN2})}
KeyValues == KeyBytes(Plain \cup Arrows \cup {UNKNOWN, UNKNOWN2}) \cup {PREFIX, KBD_ACK}

\* Packet n of the mouse, with bit 3 of its movements.
Packet(n, b2, b3) ==
  <<[packet |-> n, place |-> 1, bit3 |-> TRUE], [packet |-> n, place |-> 2, bit3 |-> b2],
    [packet |-> n, place |-> 3, bit3 |-> b3]>>

-----------------------------------------------------------------------------
(* The controller and its devices.  A device waits while the buffer is     *)
(* full; every byte in it raises the interrupt of its device.              *)

Arrives(aux, value, last) ==
  /\ buf = << >>
  /\ \E err \in BOOLEAN :
       /\ err => errors < MaxErrors
       /\ errors' = IF err THEN errors + 1 ELSE errors
       /\ buf' = <<[aux |-> aux, byte |-> value, last |-> last, err |-> err]>>
  /\ irq' = irq \cup {IF aux THEN "mouse" ELSE "kbd"}

KeyboardSends ==
  /\ \/ /\ kbd # << >>
        /\ Arrives(FALSE, Head(kbd), TRUE)
        /\ kbd' = << >> /\ UNCHANGED sent
     \/ /\ kbd = << >> /\ sent < MaxSent
        /\ \E code \in Scancodes :
             Arrives(FALSE, Head(code), Len(code) = 1) /\ kbd' = Tail(code)
        /\ sent' = sent + 1
  /\ UNCHANGED <<run, mouse, reporting, toMouse, keyboard, pointer, history>>

MouseSends ==
  /\ \/ /\ mouse # << >>
        /\ Arrives(TRUE, Head(mouse), Len(mouse) = 1)
        /\ mouse' = Tail(mouse) /\ UNCHANGED sent
     \/ /\ mouse = << >> /\ reporting /\ sent < MaxSent
        /\ \E b2, b3 \in BOOLEAN :
             LET p == Packet(sent + 1, b2, b3)
             IN  Arrives(TRUE, Head(p), FALSE) /\ mouse' = Tail(p)
        /\ sent' = sent + 1
  /\ UNCHANGED <<run, kbd, reporting, toMouse, keyboard, pointer, history>>

-----------------------------------------------------------------------------
(* History.  clean counts, up to two, the scancodes keyboard_handler has   *)
(* read in full since a byte was last lost to it, since it last took a     *)
(* byte of the mouse for its own or met a key it does not know; whole:     *)
(* nothing of the current scancode was lost; once clean is two, meant is   *)
(* the last scancode read in full, and fresh says that it ended in this    *)
(* notification.                                                           *)
(*   settled counts, up to two, the quiet packets, those without bit 3 in  *)
(* their movements, that mouse_handler has read in full since a byte of    *)
(* the mouse was last lost to it or it was last called without one; part   *)
(* counts the bytes it has read of a packet that is quiet so far; ended:   *)
(* a packet ended in this notification, and settled was two before.        *)

\* A byte of the keyboard that keyboard_handler does not get to use.
KeyByteLost(b) == clean' = 0 /\ whole' = b.last /\ fresh' = FALSE /\ meant' = NUL

\* mouse_handler does not get a byte of the mouse, or gets none when called.
MouseDisturbed == settled' = 0 /\ part' = 0 /\ UNCHANGED ended

Lost(b) ==
  IF b.aux THEN MouseDisturbed /\ UNCHANGED keysHeard
  ELSE KeyByteLost(b) /\ UNCHANGED moves

-----------------------------------------------------------------------------
(* run, before its loop: mouse_data_reporting_enable                       *)

\* try_mouse_operation returns; run() ignores the result.
Started == phase' = "idle" /\ polls' = 0 /\ tries' = 0

\* try_mouse_operation: another attempt, if there is one left.
NextTry ==
  IF tries + 1 < TRIES THEN phase' = "poll" /\ polls' = 0 /\ tries' = tries + 1
  ELSE Started

\* A byte read while its interrupt is not subscribed: the interrupt may be
\* delivered all the same.  The keyboard's was.
Unclaimed(b) == irq' \in IF b.aux THEN {irq, irq \ {"mouse"}} ELSE {irq}

\* mouse_write_byte, mouse_get_state finds a byte and throws it away.
PollFull ==
  /\ phase = "poll" /\ buf # << >>
  /\ buf' = << >>
  /\ Unclaimed(buf[1]) /\ Lost(buf[1])
  /\ IF polls + 1 < POLLS THEN polls' = polls + 1 /\ UNCHANGED <<phase, tries>>
     ELSE NextTry
  /\ UNCHANGED <<hs, devices, keyboard, pointer, counters>>

\* mouse_write_byte, the command goes out, and BYTE_TO_MOUSE_CMD after it: it is for
\* the keyboard, unless a BYTE_TO_MOUSE_CMD from before is still to be used up.  The
\* device gives up what it was sending and answers.
PollEmpty ==
  /\ phase = "poll" /\ buf = << >>
  /\ phase' = "ack"
  /\ IF toMouse
     THEN /\ mouse' = <<ACK>> /\ reporting' = TRUE /\ UNCHANGED kbd
          /\ MouseDisturbed /\ UNCHANGED keysHeard
     ELSE /\ kbd' = <<KBD_ACK>> /\ UNCHANGED <<mouse, reporting>>
          /\ KeyByteLost([last |-> TRUE]) /\ UNCHANGED moves
  /\ toMouse' = TRUE
  /\ UNCHANGED <<polls, tries, hs, irq, buf, keyboard, pointer, counters>>

\* The answers the comparison with BYTE_TO_MOUSE_SUCCESS may have.  An empty buffer
\* gives the byte it had last, whatever that was; a first byte or a movement of the
\* mouse may have the value; a byte with an error does not.
IsAck ==
  IF buf = << >> THEN BOOLEAN
  ELSE IF buf[1].err THEN {FALSE}
  ELSE IF buf[1].byte \in {ACK, KBD_ACK} THEN {TRUE}
  ELSE IF buf[1].aux /\ buf[1].byte.bit3 THEN BOOLEAN
  ELSE {FALSE}

\* mouse_write_byte_ack reads what is there after the delay, or is not.
ReadAck ==
  /\ phase = "ack"
  /\ buf' = << >>
  /\ IF buf = << >> THEN UNCHANGED <<irq, history>>
     ELSE Unclaimed(buf[1]) /\ Lost(buf[1])
  /\ \/ TRUE \in IsAck /\ Started
     \/ FALSE \in IsAck /\ NextTry
  /\ UNCHANGED <<hs, devices, keyboard, pointer, counters>>

-----------------------------------------------------------------------------
(* keyboard.c                                                              *)

Scancode_is_make(b) == b.down
Scancode_get_size(b) == IF b = PREFIX THEN 2 ELSE 1

\* keyboard_get_scancode: the scancode so far, and whether that is all of it.
Awaited == ~assemblied_word /\ bytes[1] = PREFIX
Word(b) == IF Awaited THEN <<PREFIX, b>> ELSE <<b, bytes[2]>>

\* Mutant: the second byte of a scancode is not awaited.
Keyboard_get_scancode_never(b) == TRUE

Keyboard_get_scancode(b) == ~(assemblied_word /\ b = PREFIX)

\* The keys assemble_key_press may give: break codes only, and an arbitrary one
\* for an unknown code of two bytes, since key.key is then not set.
KeyOf(size, b) ==
  CASE size = 1 -> {IF b.key \in Plain /\ ~b.down THEN b.key ELSE NONE}
    [] size = 2 /\ b.key \in Arrows /\ ~b.down -> {b.key}
    [] OTHER -> Plain \cup Arrows \cup {NONE}

\* assemble_key_press
Assemble_key_press(word) ==
  LET size == Scancode_get_size(word[1]) IN
  {[key |-> k, down |-> Scancode_is_make(word[size])] : k \in KeyOf(size, word[size])}

\* The byte values a byte of either device may have for the keyboard.
AsKeyByte(b) == IF b.aux THEN KeyValues ELSE {b.byte}

\* keyboard_handler with a byte: true after the first byte of two as well.
\* The array of a scancode that is complete is written before it is read again.
HearByte(b) ==
  /\ \E v \in AsKeyByte(b) :
       /\ assemblied_word' = Keyboard_get_scancode(v)
       /\ IF Keyboard_get_scancode(v)
          THEN bytes' = <<NUL, NUL>> /\ keyboard_packet' \in Assemble_key_press(Word(v))
          ELSE bytes' = Word(v) /\ UNCHANGED keyboard_packet
  /\ got_key_press' = TRUE

Heard(b) ==
  LET ends == ~b.aux /\ b.last /\ whole
  IN  /\ whole' = (whole \/ (~b.aux /\ b.last))
      /\ clean' = IF b.aux \/ b.byte.key = UNKNOWN2 THEN 0
                  ELSE IF ends /\ clean < 2 THEN clean + 1 ELSE clean
      /\ fresh' = (ends /\ clean' = 2)
      /\ meant' = IF clean' # 2 THEN NUL ELSE IF ends THEN b.byte ELSE meant
      /\ IF b.aux THEN MouseDisturbed ELSE UNCHANGED moves

\* Mutant: a byte with an error is left in the buffer.
Kbc_ih_leavesErrors == buf' = IF buf # << >> /\ buf[1].err THEN buf ELSE << >>

\* kbc_ih reads the byte, if there is one, with or without an error, and
\* does not ask whose it is.
Kbc_ih == buf' = << >>

\* keyboard_handler
Keyboard_handler ==
  /\ Kbc_ih
  /\ IF buf = << >> \/ buf[1].err
     THEN /\ got_key_press' = FALSE
          /\ UNCHANGED <<bytes, assemblied_word, keyboard_packet>>
          /\ IF buf = << >> THEN UNCHANGED history ELSE Lost(buf[1])
     ELSE HearByte(buf[1]) /\ Heard(buf[1])

\* run: the keyboard's part of a notification
KeyStep ==
  /\ phase = "key"
  /\ phase' = "mouse"
  /\ IF "kbd" \in hs THEN Keyboard_handler
     ELSE /\ got_key_press' = FALSE
          /\ keyboard_packet' = [keyboard_packet EXCEPT !.key = NONE]
          /\ UNCHANGED <<buf, bytes, assemblied_word, history>>
  /\ UNCHANGED <<polls, tries, hs, irq, devices, pointer, counters>>

-----------------------------------------------------------------------------
(* mouse.c                                                                 *)

\* Mutant: bit 3 is not looked at.
Mouse_is_synched_always(bs, size) == TRUE

\* mouse_is_synched: the first byte is looked at when the second is there.
Mouse_is_synched(bs, size) == size = 1 => bs[1].bit3

\* bytes[byte_count] = b.  What is past byte_count is written before it is read.
BLANK == [i \in 1..3 |-> ACK]
Store(b) ==
  [i \in 1..3 |-> IF i <= byte_count THEN mbytes[i] ELSE IF i = byte_count + 1 THEN b ELSE ACK]

Forget == byte_count' = 0 /\ got_mouse_packet' = FALSE /\ mbytes' = BLANK

\* byte_count after a packet
AfterPacket == 0

\* assembly_packet: when there is a packet it is the bytes collected, which no call of
\* mouse_handler has touched since.
mouse_packet == mbytes

\* mouse_handler has a byte of the mouse.
Collected(v) ==
  /\ part' = IF v.place = 1 THEN 1
             ELSE IF v.place = 2 /\ part = 1 /\ ~v.bit3 THEN 2 ELSE 0
  /\ settled' = IF v.place = 0 THEN 0
                ELSE IF v.place = 3 /\ part = 2 /\ ~v.bit3 /\ settled < 2 THEN settled + 1
                ELSE settled
  /\ ended' = (v.place = 3 /\ settled = 2)

\* mouse_handler
Mouse_handler ==
  /\ buf' = << >>
  /\ IF buf = << >> \/ buf[1].err \/ ~buf[1].aux THEN Forget /\ MouseDisturbed
     ELSE /\ Collected(buf[1].byte)
          /\ LET b == Store(buf[1].byte) IN
             IF ~Mouse_is_synched(b, byte_count) THEN Forget
             ELSE IF byte_count + 1 < 3
             THEN byte_count' = byte_count + 1 /\ got_mouse_packet' = FALSE /\ mbytes' = b
             ELSE byte_count' = AfterPacket /\ got_mouse_packet' = TRUE /\ mbytes' = b
  /\ IF buf = << >> \/ buf[1].aux THEN UNCHANGED keysHeard ELSE KeyByteLost(buf[1])

\* run: the mouse's part of a notification; event_handler then reads both.
MouseStep ==
  /\ phase = "mouse"
  /\ phase' = "idle"
  /\ IF "mouse" \in hs THEN Mouse_handler
     ELSE /\ got_mouse_packet' = FALSE
          /\ mbytes' = IF got_mouse_packet THEN BLANK ELSE mbytes
          /\ UNCHANGED <<buf, byte_count, history>>
  /\ hs' = {}
  /\ UNCHANGED <<polls, tries, irq, devices, keyboard, counters>>

\* run: a notification has all that is pending; it may be of the timer alone.
Notify ==
  /\ phase = "idle"
  /\ phase' = "key"
  /\ hs' = irq /\ irq' = {}
  /\ fresh' = FALSE /\ ended' = FALSE
  /\ UNCHANGED <<polls, tries, buf, devices, keyboard, pointer, clean, whole, meant, settled,
                 part, counters>>

\* What may be left from before the program: nothing turns the mouse off again, a
\* scancode or a packet may be half sent, a byte may be in the buffer whose interrupt
\* went to nobody (whoever's it was: the first poll throws it away), and this program
\* itself leaves a BYTE_TO_MOUSE_CMD behind.
LeftByKeyboard == {<< >>} \cup {<<b>> : b \in KeyBytes(Arrows \cup {UNKNOWN2})}
LeftByMouse ==
  {<< >>} \cup {Tail(Packet(0, b2, b3)) : b2, b3 \in BOOLEAN}
         \cup {Tail(Tail(Packet(0, TRUE, b3))) : b3 \in BOOLEAN}
LeftInBuffer ==
  {<< >>, <<[aux |-> FALSE, byte |-> [key |-> UNKNOWN, down |-> TRUE], last |-> TRUE,
             err |-> FALSE]>>}

Init ==
  /\ phase = "poll" /\ polls = 0 /\ tries = 0 /\ hs = {} /\ irq = {}
  /\ buf \in LeftInBuffer /\ kbd \in LeftByKeyboard /\ (buf # << >> => kbd = << >>)
  /\ mouse \in LeftByMouse /\ reporting \in BOOLEAN /\ (mouse # << >> => reporting)
  /\ toMouse \in BOOLEAN
  /\ bytes = <<NUL, NUL>> /\ assemblied_word = FALSE
  /\ got_key_press = FALSE /\ keyboard_packet = [key |-> NONE, down |-> FALSE]
  /\ mbytes = BLANK /\ byte_count = 0
  /\ got_mouse_packet = FALSE
  /\ clean = 0 /\ whole = (kbd = << >>) /\ fresh = FALSE /\ meant = NUL
  /\ settled = 0 /\ part = 0 /\ ended = FALSE
  /\ sent = 0 /\ errors = 0

Next ==
  \/ KeyboardSends \/ MouseSends
  \/ PollFull \/ PollEmpty \/ ReadAck
  \/ Notify \/ KeyStep \/ MouseStep

Spec == Init /\ [][Next]_vars

-----------------------------------------------------------------------------
(* Properties                                                              *)

KeyPresses == [key : Plain \cup Arrows \cup {NONE}, down : BOOLEAN]
MouseBytes == [packet : 0..MaxSent, place : 0..3, bit3 : BOOLEAN]

\* Every variable has a value of its type; byte_count stays inside the array.
TypeOK ==
  /\ phase \in {"poll", "ack", "idle", "key", "mouse"}
  /\ polls \in 0..(POLLS - 1) /\ tries \in 0..TRIES
  /\ hs \subseteq {"kbd", "mouse"} /\ irq \subseteq {"kbd", "mouse"}
  /\ Len(buf) <= 1 /\ kbd \in Seq(KeyValues) /\ mouse \in Seq(MouseBytes)
  /\ bytes \in [1..2 -> KeyValues \cup {NUL}] /\ keyboard_packet \in KeyPresses
  /\ mbytes \in [1..3 -> MouseBytes] /\ byte_count \in 0..2
  /\ {reporting, toMouse, assemblied_word, got_key_press, got_mouse_packet, whole, fresh,
      ended} \subseteq BOOLEAN
  /\ clean \in 0..2 /\ settled \in 0..2 /\ part \in 0..2

\* Between two notifications a byte in the buffer has an interrupt to come: else
\* the controller would wait for it to be read for ever, and both devices with it.
NoByteForgotten == phase = "idle" /\ buf # << >> => irq # {}

\* Why: the interrupt of the byte in the buffer is pending, the handler that reads
\* it is still to come in this notification, or the first poll of the start is.
ByteClaimed ==
  buf # << >> =>
    LET d == IF buf[1].aux THEN "mouse" ELSE "kbd" IN
    \/ d \in irq
    \/ phase = "key" /\ d \in hs
    \/ phase = "mouse" /\ d = "mouse" /\ d \in hs
    \/ phase = "poll"

\* Two quiet packets after a disturbance the mouse is heard again, whatever was lost,
\* taken by the keyboard's handler or answered late: from then on each packet, quiet
\* or not, is handed to the game as it ends, and nothing is but what the mouse sent
\* as one packet, until a byte is lost the next time.
PacketsResync ==
  phase = "idle" /\ settled = 2 =>
    /\ ended => got_mouse_packet
    /\ got_mouse_packet =>
         \A i \in 1..3 : /\ mouse_packet[i].place = i
                         /\ mouse_packet[i].packet = mouse_packet[1].packet

\* Two scancodes after a disturbance the keyboard is heard again: a known key is
\* reported as it ends, and no key that goes up is reported but the last one.
KeysResync ==
  phase = "idle" /\ clean = 2 =>
    /\ fresh /\ ~meant.down /\ meant.key \in Plain \cup Arrows =>
         got_key_press /\ keyboard_packet = meant
    /\ got_key_press /\ ~keyboard_packet.down /\ keyboard_packet.key # NONE =>
         keyboard_packet.key = meant.key
=============================================================================
