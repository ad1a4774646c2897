---------------------------- MODULE InputProofs ----------------------------
(* The controller never waits for a byte nobody will read.                 *)
EXTENDS Input, SequenceTheorems, TLAPS

\* A byte that arrives is claimed by the interrupt it raises.
LEMMA ArrivalClaimed ==
  ASSUME NEW aux \in BOOLEAN, NEW value, NEW last, Arrives(aux, value, last)
  PROVE  ByteClaimed'
<1>1. PICK err \in BOOLEAN :
        buf' = <<[aux |-> aux, byte |-> value, last |-> last, err |-> err]>>
  BY DEF Arrives
<1>2. buf'[1].aux = aux
  BY <1>1
<1>3. (IF aux THEN "mouse" ELSE "kbd") \in irq'
  BY DEF Arrives
<1> QED
  BY <1>2, <1>3 DEF ByteClaimed

\* The startup of the mouse, the devices and the handlers leave a byte only
\* where something is still to come for it.
LEMMA ClaimStep == ByteClaimed /\ [Next]_vars => ByteClaimed'
<1> SUFFICES ASSUME ByteClaimed, [Next]_vars
             PROVE  ByteClaimed'
  OBVIOUS
<1>1. CASE KeyboardSends
  BY <1>1, ArrivalClaimed DEF KeyboardSends
<1>2. CASE MouseSends
  BY <1>2, ArrivalClaimed DEF MouseSends
<1>3. CASE PollFull
  BY <1>3 DEF PollFull, ByteClaimed
<1>4. CASE PollEmpty
  BY <1>4 DEF PollEmpty, ByteClaimed
<1>5. CASE ReadAck
  BY <1>5 DEF ReadAck, ByteClaimed
<1>6. CASE Notify
  <2>1. phase = "idle" /\ phase' = "key" /\ hs' = irq /\ buf' = buf
    BY <1>6 DEF Notify
  <2> QED
    BY <2>1 DEF ByteClaimed
<1>7. CASE KeyStep
  <2>1. phase = "key" /\ phase' = "mouse" /\ hs' = hs /\ irq' = irq
    BY <1>7 DEF KeyStep
  <2>2. CASE "kbd" \in hs
    BY <1>7, <2>2 DEF KeyStep, Keyboard_handler, Kbc_ih, ByteClaimed
  <2>3. CASE "kbd" \notin hs
    <3>1. buf' = buf
      BY <1>7, <2>3 DEF KeyStep
    <3> QED
      BY <2>1, <2>3, <3>1 DEF ByteClaimed
  <2> QED
    BY <2>2, <2>3
<1>8. CASE MouseStep
  <2>1. phase = "mouse" /\ irq' = irq
    BY <1>8 DEF MouseStep
  <2>2. CASE "mouse" \in hs
    BY <1>8, <2>2 DEF MouseStep, Mouse_handler, ByteClaimed
  <2>3. CASE "mouse" \notin hs
    <3>1. buf' = buf
      BY <1>8, <2>3 DEF MouseStep
    <3> QED
      BY <2>1, <2>3, <3>1 DEF ByteClaimed
  <2> QED
    BY <2>2, <2>3
<1>9. CASE UNCHANGED vars
  BY <1>9 DEF vars, run, ByteClaimed
<1> QED
  BY <1>1, <1>2, <1>3, <1>4, <1>5, <1>6, <1>7, <1>8, <1>9 DEF Next

\* kbc_ih and mouse_get_state read a byte with an error too and do not ask whose
\* it is: whatever is lost on the way, no byte stays in the buffer without an
\* interrupt to come, so that the input never stops.
THEOREM InputNeverStuck == Spec => []NoByteForgotten
<1>1. Init => ByteClaimed
  BY DEF Init, ByteClaimed
<1>2. ByteClaimed => NoByteForgotten
  BY DEF ByteClaimed, NoByteForgotten
<1> QED
  BY <1>1, <1>2, ClaimStep, PTL DEF Spec

-----------------------------------------------------------------------------
(* Types                                                                   *)

\* A byte in the buffer is one of the device it came from.
ByteOK(b) ==
  /\ b.aux \in BOOLEAN /\ b.last \in BOOLEAN /\ b.err \in BOOLEAN
  /\ b.byte \in IF b.aux THEN MouseBytes ELSE KeyValues

\* TypeOK with what keeps it: the type of the byte under way, the bound on what
\* is sent, which numbers the packets, and an attempt left while one is made.
TypeInv ==
  /\ TypeOK
  /\ buf # << >> => \E b : buf = <<b>> /\ ByteOK(b)
  /\ sent \in 0..MaxSent
  /\ phase \in {"poll", "ack"} => tries < TRIES

\* A byte of a scancode is one of the keyboard.
LEMMA ScancodeBytes ==
  ASSUME NEW code \in Scancodes
  PROVE  Head(code) \in KeyValues /\ Tail(code) \in Seq(KeyValues) /\ Len(code) \in Nat
<1>1. CASE \E b \in KeyBytes(Plain \cup {UNKNOWN}) : code = <<b>>
  <2>1. PICK b \in KeyBytes(Plain \cup {UNKNOWN}) : code = <<b>>
    BY <1>1
  <2>2. b \in KeyValues
    BY DEF KeyBytes, KeyValues
  <2>3. Head(code) = b /\ Tail(code) = << >> /\ Len(code) = 1
    BY <2>1
  <2>4. << >> \in Seq(KeyValues) /\ 1 \in Nat
    OBVIOUS
  <2> QED
    BY <2>2, <2>3, <2>4, Zenon
<1>2. CASE \E b \in KeyBytes(Arrows \cup {UNKNOWN2}) : code = <<PREFIX, b>>
  <2>1. PICK b \in KeyBytes(Arrows \cup {UNKNOWN2}) : code = <<PREFIX, b>>
    BY <1>2
  <2>2. b \in KeyValues /\ PREFIX \in KeyValues
    BY DEF KeyBytes, KeyValues
  <2>3. Tail(code) = <<b>> /\ Head(code) = PREFIX /\ Len(code) = 2
    BY <2>1
  <2>4. <<b>> \in Seq(KeyValues) /\ 2 \in Nat
    BY <2>2
  <2> QED
    BY <2>2, <2>3, <2>4, Zenon
<1> QED
  BY <1>1, <1>2 DEF Scancodes

\* So are those of a packet bytes of the mouse.
LEMMA PacketBytes ==
  ASSUME NEW n \in 0..MaxSent, NEW b2 \in BOOLEAN, NEW b3 \in BOOLEAN
  PROVE  Head(Packet(n, b2, b3)) \in MouseBytes /\ Tail(Packet(n, b2, b3)) \in Seq(MouseBytes)
<1> DEFINE x1 == [packet |-> n, place |-> 1, bit3 |-> TRUE]
           x2 == [packet |-> n, place |-> 2, bit3 |-> b2]
           x3 == [packet |-> n, place |-> 3, bit3 |-> b3]
<1>1. x1 \in MouseBytes /\ x2 \in MouseBytes /\ x3 \in MouseBytes
  BY DEF MouseBytes
<1>2. Packet(n, b2, b3) = <<x1, x2, x3>>
  BY DEF Packet
<1> HIDE DEF x1, x2, x3
<1>3. Head(<<x1, x2, x3>>) = x1 /\ Tail(<<x1, x2, x3>>) = <<x2, x3>>
  OBVIOUS
<1> QED
  BY <1>1, <1>2, <1>3

\* What arrives.
LEMMA ArrivalTypes ==
  ASSUME NEW aux \in BOOLEAN, NEW value \in IF aux THEN MouseBytes ELSE KeyValues,
         NEW last \in BOOLEAN, Arrives(aux, value, last), TypeInv
  PROVE  /\ Len(buf') <= 1
         /\ \E b : buf' = <<b>> /\ ByteOK(b)
         /\ irq' \subseteq {"kbd", "mouse"}
<1>1. PICK err \in BOOLEAN :
        buf' = <<[aux |-> aux, byte |-> value, last |-> last, err |-> err]>>
  BY DEF Arrives
<1>2. ByteOK([aux |-> aux, byte |-> value, last |-> last, err |-> err])
  BY DEF ByteOK
<1>3. irq' \subseteq {"kbd", "mouse"}
  BY DEF Arrives, TypeInv, TypeOK
<1> QED
  BY <1>1, <1>2, <1>3

LEMMA SendTypes == ASSUME TypeInv, KeyboardSends \/ MouseSends PROVE TypeInv'
<1>0. TypeOK
  BY DEF TypeInv
<1>1. CASE KeyboardSends
  <2>1. /\ Len(buf') <= 1 /\ (\E b : buf' = <<b>> /\ ByteOK(b))
        /\ irq' \subseteq {"kbd", "mouse"} /\ kbd' \in Seq(KeyValues)
        /\ sent' \in 0..MaxSent
    <3>1. CASE kbd # << >> /\ Arrives(FALSE, Head(kbd), TRUE) /\ kbd' = << >> /\ UNCHANGED sent
      <4>1. Head(kbd) \in KeyValues
        BY <1>0, <3>1, HeadTailProperties DEF TypeOK
      <4>2. kbd' \in Seq(KeyValues) /\ sent' \in 0..MaxSent
        BY <3>1 DEF TypeInv
      <4> QED
        BY <3>1, <4>1, <4>2, ArrivalTypes
    <3>2. CASE /\ sent < MaxSent /\ sent' = sent + 1
               /\ \E code \in Scancodes :
                    Arrives(FALSE, Head(code), Len(code) = 1) /\ kbd' = Tail(code)
      <4>1. PICK code \in Scancodes :
              Arrives(FALSE, Head(code), Len(code) = 1) /\ kbd' = Tail(code)
        BY <3>2
      <4>2. Head(code) \in KeyValues /\ kbd' \in Seq(KeyValues) /\ (Len(code) = 1) \in BOOLEAN
        BY <4>1, ScancodeBytes
      <4>3. sent' \in 0..MaxSent
        BY <3>2, InputAssumption DEF TypeInv
      <4> QED
        BY <4>1, <4>2, <4>3, ArrivalTypes
    <3> QED
      BY <1>1, <3>1, <3>2 DEF KeyboardSends
  <2>2. UNCHANGED <<run, mouse, reporting, toMouse, keyboard, pointer, history>>
    BY <1>1 DEF KeyboardSends
  <2> QED
    BY <2>1, <2>2 DEF TypeInv, TypeOK, run, keyboard, pointer, history, keysHeard, moves
<1>2. CASE MouseSends
  <2>1. /\ Len(buf') <= 1 /\ (\E b : buf' = <<b>> /\ ByteOK(b))
        /\ irq' \subseteq {"kbd", "mouse"} /\ mouse' \in Seq(MouseBytes)
        /\ sent' \in 0..MaxSent
    <3>1. CASE /\ mouse # << >> /\ Arrives(TRUE, Head(mouse), Len(mouse) = 1)
               /\ mouse' = Tail(mouse) /\ UNCHANGED sent
      <4>1. Head(mouse) \in MouseBytes /\ mouse' \in Seq(MouseBytes) /\ (Len(mouse) = 1) \in BOOLEAN
        BY <1>0, <3>1, HeadTailProperties DEF TypeOK
      <4> QED
        BY <3>1, <4>1, ArrivalTypes DEF TypeInv
    <3>2. CASE /\ sent < MaxSent /\ sent' = sent + 1
               /\ \E b2, b3 \in BOOLEAN :
                    /\ Arrives(TRUE, Head(Packet(sent + 1, b2, b3)), FALSE)
                    /\ mouse' = Tail(Packet(sent + 1, b2, b3))
      <4>1. PICK b2, b3 \in BOOLEAN :
              /\ Arrives(TRUE, Head(Packet(sent + 1, b2, b3)), FALSE)
              /\ mouse' = Tail(Packet(sent + 1, b2, b3))
        BY <3>2
      <4>2. sent' \in 0..MaxSent /\ sent + 1 \in 0..MaxSent
        BY <3>2, InputAssumption DEF TypeInv
      <4>3. Head(Packet(sent + 1, b2, b3)) \in MouseBytes /\ mouse' \in Seq(MouseBytes)
        BY <4>1, <4>2, PacketBytes
      <4> QED
        BY <4>1, <4>2, <4>3, ArrivalTypes
    <3> QED
      BY <1>2, <3>1, <3>2 DEF MouseSends
  <2>2. UNCHANGED <<run, kbd, reporting, toMouse, keyboard, pointer, history>>
    BY <1>2 DEF MouseSends
  <2> QED
    BY <2>1, <2>2 DEF TypeInv, TypeOK, run, keyboard, pointer, history, keysHeard, moves
<1> QED
  BY <1>1, <1>2

\* The history after a byte that is lost.
KeysHeardOK == clean \in 0..2 /\ {whole, fresh} \subseteq BOOLEAN
MovesOK     == settled \in 0..2 /\ part \in 0..2 /\ ended \in BOOLEAN
HistoryOK   == KeysHeardOK /\ MovesOK

LEMMA HistoryTyped == TypeOK => HistoryOK
BY DEF TypeOK, HistoryOK, KeysHeardOK, MovesOK

LEMMA KeyByteLostTypes ==
  ASSUME NEW b, b.last \in BOOLEAN, KeyByteLost(b)
  PROVE  KeysHeardOK'
<1>1. clean' = 0 /\ whole' \in BOOLEAN /\ fresh' \in BOOLEAN
  BY Zenon DEF KeyByteLost
<1> QED
  BY <1>1 DEF KeysHeardOK

LEMMA DisturbedTypes == ASSUME TypeOK, MouseDisturbed PROVE MovesOK'
BY HistoryTyped DEF MouseDisturbed, MovesOK, HistoryOK

LEMMA LostTypes ==
  ASSUME NEW b, ByteOK(b), TypeOK, Lost(b)
  PROVE  HistoryOK'
<1>1. CASE b.aux
  <2>1. MouseDisturbed /\ UNCHANGED keysHeard
    BY <1>1 DEF Lost
  <2> QED
    BY <2>1, DisturbedTypes, HistoryTyped DEF HistoryOK, KeysHeardOK, keysHeard
<1>2. CASE ~b.aux
  <2>1. KeyByteLost(b) /\ UNCHANGED moves
    BY <1>2 DEF Lost
  <2>2. KeysHeardOK'
    BY <2>1, KeyByteLostTypes DEF ByteOK
  <2> QED
    BY <2>1, <2>2, HistoryTyped DEF HistoryOK, MovesOK, moves
<1> QED
  BY <1>1, <1>2

\* The startup of the mouse.
LEMMA StartTypes == ASSUME TypeInv, PollFull \/ PollEmpty \/ ReadAck PROVE TypeInv'
<1>0. TypeOK /\ POLLS \in Nat \ {0} /\ TRIES \in Nat \ {0}
  BY InputAssumption DEF TypeInv
<1>1. ASSUME NextTry \/ Started, phase \in {"poll", "ack"}
      PROVE  /\ phase' \in {"poll", "idle"} /\ tries' \in 0..TRIES /\ polls' \in 0..(POLLS - 1)
             /\ phase' \in {"poll", "ack"} => tries' < TRIES
  <2>1. CASE Started
    BY <1>0, <2>1 DEF Started
  <2>2. CASE ~Started
    BY <1>0, <1>1, <2>2 DEF NextTry, TypeInv, TypeOK
  <2> QED
    BY <2>1, <2>2
<1>2. CASE PollFull \/ ReadAck
  <2>1. HistoryOK' /\ irq' \subseteq {"kbd", "mouse"} /\ buf' = << >> /\ Len(buf') = 0
    <3>0. buf' = << >>
      BY <1>2 DEF PollFull, ReadAck
    <3>1. CASE buf = << >>
      <4>1. UNCHANGED <<irq, history>>
        BY <1>2, <3>1 DEF PollFull, ReadAck
      <4>2. HistoryOK'
        BY <1>0, <4>1, HistoryTyped
           DEF HistoryOK, KeysHeardOK, MovesOK, history, keysHeard, moves
      <4> QED
        BY <1>0, <3>0, <4>1, <4>2 DEF TypeOK
    <3>2. CASE buf # << >>
      <4>1. PICK b : buf = <<b>> /\ ByteOK(b)
        BY <3>2 DEF TypeInv
      <4>2. buf[1] = b
        BY <4>1
      <4>3. Lost(b) /\ Unclaimed(b)
        BY <1>2, <3>2, <4>2 DEF PollFull, ReadAck
      <4>4. irq' \subseteq {"kbd", "mouse"}
        BY <1>0, <4>3 DEF Unclaimed, TypeOK
      <4> QED
        BY <1>0, <3>0, <4>1, <4>3, <4>4, LostTypes
    <3> QED
      BY <3>1, <3>2
  <2>2. /\ phase' \in {"poll", "ack", "idle"} /\ tries' \in 0..TRIES /\ polls' \in 0..(POLLS - 1)
        /\ phase' \in {"poll", "ack"} => tries' < TRIES
    <3>0. phase \in {"poll", "ack"}
      BY <1>2 DEF PollFull, ReadAck
    <3>1. CASE NextTry \/ Started
      BY <1>1, <3>0, <3>1
    <3>2. CASE ReadAck
      <4>1. NextTry \/ Started
        BY <3>2 DEF ReadAck
      <4> QED
        BY <3>1, <4>1
    <3>3. CASE PollFull /\ polls + 1 < POLLS
      <4>1. polls' = polls + 1 /\ UNCHANGED <<phase, tries>>
        BY <3>3 DEF PollFull
      <4> QED
        BY <1>0, <3>0, <3>3, <4>1 DEF TypeInv, TypeOK
    <3>4. CASE PollFull /\ ~(polls + 1 < POLLS)
      <4>1. NextTry
        BY <3>4 DEF PollFull
      <4> QED
        BY <3>1, <4>1
    <3> QED
      BY <1>2, <3>2, <3>3, <3>4
  <2>3. UNCHANGED <<hs, devices, keyboard, pointer, counters>>
    BY <1>2 DEF PollFull, ReadAck
  <2> QED
    BY <2>1, <2>2, <2>3
       DEF TypeInv, TypeOK, HistoryOK, KeysHeardOK, MovesOK, devices, keyboard, pointer, counters
<1>3. CASE PollEmpty
  <2>0. /\ phase' = "ack" /\ tries' = tries /\ tries < TRIES /\ toMouse' \in BOOLEAN
        /\ UNCHANGED <<polls, hs, irq, buf, keyboard, pointer, counters>>
    BY <1>3, Zenon DEF PollEmpty, TypeInv
  <2>1. CASE toMouse
    <3>1. <<ACK>> \in Seq(MouseBytes)
      <4>1. ACK \in MouseBytes
        BY InputAssumption DEF ACK, MouseBytes
      <4> HIDE DEF ACK
      <4> QED
        BY <4>1
    <3>2. mouse' = <<ACK>> /\ reporting' \in BOOLEAN /\ kbd' = kbd
      BY <1>3, <2>1, Zenon DEF PollEmpty
    <3>3. MovesOK' /\ UNCHANGED keysHeard
      BY <1>0, <1>3, <2>1, DisturbedTypes DEF PollEmpty
    <3> QED
      BY <2>0, <3>1, <3>2, <3>3
         DEF TypeInv, TypeOK, MovesOK, keysHeard, keyboard, pointer, counters
  <2>2. CASE ~toMouse
    <3>1. <<KBD_ACK>> \in Seq(KeyValues)
      <4>1. KBD_ACK \in KeyValues
        BY DEF KeyValues
      <4> HIDE DEF KBD_ACK
      <4> QED
        BY <4>1
    <3>2. kbd' = <<KBD_ACK>> /\ UNCHANGED <<mouse, reporting, moves>>
      BY <1>3, <2>2 DEF PollEmpty
    <3>3. KeysHeardOK'
      <4> DEFINE x == [last |-> TRUE]
      <4>1. KeyByteLost(x)
        BY <1>3, <2>2 DEF PollEmpty
      <4>2. x.last \in BOOLEAN
        OBVIOUS
      <4> HIDE DEF x
      <4> QED
        BY <4>1, <4>2, KeyByteLostTypes
    <3> QED
      BY <2>0, <3>1, <3>2, <3>3
         DEF TypeInv, TypeOK, KeysHeardOK, moves, keyboard, pointer, counters
  <2> QED
    BY <2>1, <2>2
<1> QED
  BY <1>2, <1>3

\* What the keyboard's handler makes of a byte.
LEMMA HearTypes ==
  ASSUME TypeOK, NEW b, ByteOK(b), HearByte(b), Heard(b)
  PROVE  /\ bytes' \in [1..2 -> KeyValues \cup {NUL}] /\ keyboard_packet' \in KeyPresses
         /\ {assemblied_word', got_key_press'} \subseteq BOOLEAN
         /\ HistoryOK'
<1>1. PICK v \in AsKeyByte(b) :
        /\ assemblied_word' = Keyboard_get_scancode(v)
        /\ IF Keyboard_get_scancode(v)
           THEN bytes' = <<NUL, NUL>> /\ keyboard_packet' \in Assemble_key_press(Word(v))
           ELSE bytes' = Word(v) /\ UNCHANGED keyboard_packet
  BY DEF HearByte
<1>2. v \in KeyValues
  BY DEF AsKeyByte, ByteOK
<1>3. Word(v) \in [1..2 -> KeyValues \cup {NUL}] /\ <<NUL, NUL>> \in [1..2 -> KeyValues \cup {NUL}]
  <2>1. bytes[2] \in KeyValues \cup {NUL}
    BY DEF TypeOK
  <2>2. PREFIX \in KeyValues
    BY DEF KeyValues
  <2> HIDE DEF PREFIX, NUL
  <2> QED
    BY <1>2, <2>1, <2>2 DEF Word
<1>4. bytes' \in [1..2 -> KeyValues \cup {NUL}]
  BY <1>1, <1>3
<1>5. assemblied_word' \in BOOLEAN /\ got_key_press' \in BOOLEAN
  BY <1>1, Zenon DEF Keyboard_get_scancode, HearByte
<1>6. keyboard_packet' \in KeyPresses
  <2>1. CASE Keyboard_get_scancode(v)
    <3> DEFINE w == Word(v)
               size == Scancode_get_size(w[1])
    <3>1. size \in 1..2
      BY DEF Scancode_get_size
    <3>2. w[size] \in KeyValues \cup {NUL}
      BY <1>3, <3>1
    <3>3. w[size].down \in BOOLEAN
      <4>1. \A x \in KeyValues \cup {NUL} : x.down \in BOOLEAN
        <5>1. \A x \in KeyBytes(Plain \cup Arrows \cup {UNKNOWN, UNKNOWN2}) : x.down \in BOOLEAN
          BY DEF KeyBytes
        <5>2. NUL.down = TRUE /\ PREFIX.down = FALSE /\ KBD_ACK.down = FALSE
          BY DEF NUL, PREFIX, KBD_ACK
        <5> QED
          BY <5>1, <5>2, Zenon DEF KeyValues
      <4> HIDE DEF size, w
      <4> QED
        BY <3>2, <4>1
    <3>4. keyboard_packet' \in Assemble_key_press(w)
      BY <1>1, <2>1
    <3> HIDE DEF w
    <3>5. PICK k \in KeyOf(size, w[size]) :
            keyboard_packet' = [key |-> k, down |-> w[size].down]
      BY <3>4 DEF Assemble_key_press, Scancode_is_make, size
    <3> HIDE DEF size
    <3>6. k \in Plain \cup Arrows \cup {NONE}
      BY <3>5 DEF KeyOf
    <3> QED
      BY <3>3, <3>5, <3>6 DEF KeyPresses
  <2>2. CASE ~Keyboard_get_scancode(v)
    BY <1>1, <2>2 DEF TypeOK
  <2> QED
    BY <2>1, <2>2
<1>7. HistoryOK'
  <2>1. fresh' \in BOOLEAN /\ whole' \in BOOLEAN
    BY Zenon DEF Heard
  <2>2. clean' \in 0..2
    BY DEF Heard, TypeOK
  <2>3. MovesOK'
    <3>1. CASE b.aux
      BY <3>1, DisturbedTypes DEF Heard
    <3>2. CASE ~b.aux
      BY <3>2, HistoryTyped DEF Heard, HistoryOK, MovesOK, moves
    <3> QED
      BY <3>1, <3>2
  <2> QED
    BY <2>1, <2>2, <2>3 DEF HistoryOK, KeysHeardOK
<1> QED
  BY <1>4, <1>5, <1>6, <1>7

LEMMA KeyStepTypes == ASSUME TypeInv, KeyStep PROVE TypeInv'
<1>0. TypeOK
  BY DEF TypeInv
<1>1. UNCHANGED <<polls, tries, hs, irq, devices, pointer, counters>> /\ phase' = "mouse"
  BY DEF KeyStep
<1>2. /\ bytes' \in [1..2 -> KeyValues \cup {NUL}] /\ keyboard_packet' \in KeyPresses
      /\ {assemblied_word', got_key_press'} \subseteq BOOLEAN
      /\ HistoryOK' /\ (buf' = << >> \/ buf' = buf)
  <2>0. ASSUME UNCHANGED history PROVE HistoryOK'
    BY <1>0, <2>0, HistoryTyped DEF HistoryOK, KeysHeardOK, MovesOK, history, keysHeard, moves
  <2>1. CASE "kbd" \notin hs
    <3>1. keyboard_packet' \in KeyPresses
      BY <1>0, <2>1 DEF KeyStep, TypeOK, KeyPresses
    <3>2. UNCHANGED <<buf, bytes, assemblied_word, history>> /\ got_key_press' = FALSE
      BY <2>1 DEF KeyStep
    <3> QED
      BY <1>0, <2>0, <3>1, <3>2 DEF TypeOK
  <2>2. CASE "kbd" \in hs /\ (buf = << >> \/ buf[1].err)
    <3>1. /\ got_key_press' = FALSE /\ buf' = << >>
          /\ UNCHANGED <<bytes, assemblied_word, keyboard_packet>>
      BY <2>2 DEF KeyStep, Keyboard_handler, Kbc_ih
    <3>2. HistoryOK'
      <4>1. CASE buf = << >>
        BY <2>0, <2>2, <4>1 DEF KeyStep, Keyboard_handler
      <4>2. CASE buf # << >>
        <5>1. PICK b : buf = <<b>> /\ ByteOK(b)
          BY <4>2 DEF TypeInv
        <5>2. buf[1] = b
          BY <5>1
        <5>3. Lost(b)
          BY <2>2, <4>2, <5>2 DEF KeyStep, Keyboard_handler
        <5> QED
          BY <1>0, <5>1, <5>3, LostTypes
      <4> QED
        BY <4>1, <4>2
    <3> QED
      BY <1>0, <3>1, <3>2 DEF TypeOK
  <2>3. CASE "kbd" \in hs /\ ~(buf = << >> \/ buf[1].err)
    <3>1. PICK b : buf = <<b>> /\ ByteOK(b)
      BY <2>3 DEF TypeInv
    <3>2. buf[1] = b
      BY <3>1
    <3>3. HearByte(b) /\ Heard(b) /\ buf' = << >>
      BY <2>3, <3>2 DEF KeyStep, Keyboard_handler, Kbc_ih
    <3> QED
      BY <1>0, <3>1, <3>3, HearTypes
  <2> QED
    BY <2>1, <2>2, <2>3
<1>3. Len(buf') <= 1 /\ (buf' # << >> => \E b : buf' = <<b>> /\ ByteOK(b))
  BY <1>2 DEF TypeInv, TypeOK
<1> QED
  BY <1>1, <1>2, <1>3
     DEF TypeInv, TypeOK, HistoryOK, KeysHeardOK, MovesOK, devices, pointer, counters

\* What mouse_handler makes of one.
LEMMA BlankTyped == BLANK \in [1..3 -> MouseBytes]
<1>1. ACK \in MouseBytes
  BY InputAssumption DEF ACK, MouseBytes
<1> HIDE DEF ACK
<1> QED
  BY <1>1 DEF BLANK

LEMMA CollectTypes ==
  ASSUME TypeOK, NEW v \in MouseBytes, Collected(v)
  PROVE  MovesOK'
<1>1. part' \in 0..2 /\ settled' \in 0..2
  BY HistoryTyped DEF Collected, HistoryOK, MovesOK
<1>2. ended' \in BOOLEAN
  BY Zenon DEF Collected
<1> QED
  BY <1>1, <1>2 DEF MovesOK

\* The ways through mouse_handler with a byte of the mouse.
LEMMA HandlerCases ==
  ASSUME TypeInv, Mouse_handler, ~(buf = << >> \/ buf[1].err \/ ~buf[1].aux)
  PROVE  /\ byte_count \in 0..2 /\ buf[1].byte \in MouseBytes
         /\ Store(buf[1].byte) \in [1..3 -> MouseBytes]
         /\ Collected(buf[1].byte) /\ UNCHANGED keysHeard
         /\ \/ /\ byte_count = 0 /\ byte_count' = 1 /\ got_mouse_packet' = FALSE
               /\ mbytes' = Store(buf[1].byte)
            \/ /\ byte_count = 1 /\ ~mbytes[1].bit3 /\ byte_count' = 0
               /\ got_mouse_packet' = FALSE /\ mbytes' = BLANK
            \/ /\ byte_count = 1 /\ mbytes[1].bit3 /\ byte_count' = 2
               /\ got_mouse_packet' = FALSE /\ mbytes' = Store(buf[1].byte)
            \/ /\ byte_count = 2 /\ byte_count' = 0 /\ got_mouse_packet' = TRUE
               /\ mbytes' = Store(buf[1].byte)
<1> DEFINE v == buf[1].byte
           st == Store(v)
<1>0. byte_count \in 0..2 /\ mbytes \in [1..3 -> MouseBytes]
  BY DEF TypeInv, TypeOK
<1>1. v \in MouseBytes
  <2>1. PICK b : buf = <<b>> /\ ByteOK(b)
    BY DEF TypeInv
  <2> QED
    BY <2>1 DEF ByteOK
<1>2. st \in [1..3 -> MouseBytes] /\ (byte_count = 1 => st[1] = mbytes[1])
  <2>1. ACK \in MouseBytes
    BY InputAssumption DEF ACK, MouseBytes
  <2> HIDE DEF ACK
  <2> QED
    BY <1>0, <1>1, <2>1 DEF Store
<1>3. /\ Collected(v) /\ UNCHANGED keysHeard
      /\ IF ~Mouse_is_synched(st, byte_count) THEN Forget
         ELSE IF byte_count + 1 < 3
         THEN byte_count' = byte_count + 1 /\ got_mouse_packet' = FALSE /\ mbytes' = st
         ELSE byte_count' = AfterPacket /\ got_mouse_packet' = TRUE /\ mbytes' = st
  BY DEF Mouse_handler
<1> HIDE DEF st, v
<1>4. Mouse_is_synched(st, byte_count) <=> (byte_count = 1 => mbytes[1].bit3)
  BY <1>2, Zenon DEF Mouse_is_synched
<1>5. CASE byte_count = 0
  <2>1. Mouse_is_synched(st, byte_count) /\ byte_count + 1 < 3 /\ byte_count + 1 = 1
    BY <1>4, <1>5
  <2> QED
    BY <1>0, <1>1, <1>2, <1>3, <1>5, <2>1, Zenon DEF st, v
<1>6. CASE byte_count = 1 /\ mbytes[1].bit3
  <2>1. Mouse_is_synched(st, byte_count) /\ byte_count + 1 < 3 /\ byte_count + 1 = 2
    BY <1>4, <1>6
  <2> QED
    BY <1>0, <1>1, <1>2, <1>3, <1>6, <2>1, Zenon DEF st, v
<1>7. CASE byte_count = 1 /\ ~mbytes[1].bit3
  <2>1. Forget
    BY <1>3, <1>4, <1>7, Zenon
  <2> QED
    BY <1>0, <1>1, <1>2, <1>3, <1>7, <2>1, Zenon DEF st, v, Forget
<1>8. CASE byte_count = 2
  <2>1. Mouse_is_synched(st, byte_count) /\ ~(byte_count + 1 < 3)
    BY <1>4, <1>8
  <2> QED
    BY <1>0, <1>1, <1>2, <1>3, <1>8, <2>1, Zenon DEF st, v, AfterPacket
<1>9. byte_count = 0 \/ byte_count = 1 \/ byte_count = 2
  BY <1>0
<1> QED
  BY <1>5, <1>6, <1>7, <1>8, <1>9, Zenon

LEMMA MouseStepTypes == ASSUME TypeInv, MouseStep PROVE TypeInv'
<1>0. TypeOK
  BY DEF TypeInv
<1>1. UNCHANGED <<polls, tries, irq, devices, keyboard, counters>> /\ phase' = "idle" /\ hs' = {}
  BY DEF MouseStep
<1>2. /\ mbytes' \in [1..3 -> MouseBytes] /\ byte_count' \in 0..2 /\ got_mouse_packet' \in BOOLEAN
      /\ HistoryOK' /\ (buf' = << >> \/ buf' = buf)
  <2>1. CASE "mouse" \notin hs
    <3>1. UNCHANGED <<buf, byte_count, history>> /\ got_mouse_packet' = FALSE
          /\ (mbytes' = BLANK \/ mbytes' = mbytes)
      BY <2>1 DEF MouseStep
    <3>2. HistoryOK'
      BY <1>0, <3>1, HistoryTyped DEF HistoryOK, KeysHeardOK, MovesOK, history, keysHeard, moves
    <3>3. got_mouse_packet' \in BOOLEAN
      BY <3>1, Zenon
    <3> QED
      BY <1>0, <3>1, <3>2, <3>3, BlankTyped DEF TypeOK
  <2>2. CASE "mouse" \in hs
    <3>0. Mouse_handler /\ buf' = << >>
      BY <2>2 DEF MouseStep, Mouse_handler
    <3>1. KeysHeardOK'
      <4>1. CASE buf = << >> \/ buf[1].aux
        <5>1. UNCHANGED keysHeard
          BY <3>0, <4>1 DEF Mouse_handler
        <5> QED
          BY <1>0, <5>1, HistoryTyped DEF HistoryOK, KeysHeardOK, keysHeard
      <4>2. CASE ~(buf = << >> \/ buf[1].aux)
        <5>1. PICK b : buf = <<b>> /\ ByteOK(b)
          BY <4>2 DEF TypeInv
        <5>2. buf[1] = b
          BY <5>1
        <5>3. KeyByteLost(b)
          BY <3>0, <4>2, <5>2 DEF Mouse_handler
        <5> QED
          BY <5>1, <5>3, KeyByteLostTypes DEF ByteOK
      <4> QED
        BY <4>1, <4>2
    <3>2. CASE buf = << >> \/ buf[1].err \/ ~buf[1].aux
      <4>1. mbytes' = BLANK /\ byte_count' = 0 /\ got_mouse_packet' = FALSE /\ MouseDisturbed
        BY <3>0, <3>2 DEF Mouse_handler, Forget
      <4>2. got_mouse_packet' \in BOOLEAN
        BY <4>1, Zenon
      <4>3. mbytes' \in [1..3 -> MouseBytes] /\ byte_count' \in 0..2
        BY <4>1, BlankTyped
      <4>4. HistoryOK'
        BY <1>0, <3>1, <4>1, DisturbedTypes DEF HistoryOK
      <4> QED
        BY <3>0, <4>2, <4>3, <4>4, Zenon
    <3>3. CASE ~(buf = << >> \/ buf[1].err \/ ~buf[1].aux)
      <4>1. HistoryOK'
        BY <1>0, <3>0, <3>1, <3>3, HandlerCases, CollectTypes DEF HistoryOK
      <4>2. got_mouse_packet' \in BOOLEAN
        <5>1. got_mouse_packet' = FALSE \/ got_mouse_packet' = TRUE
          BY <3>0, <3>3, HandlerCases, Zenon
        <5> QED
          BY <5>1, Zenon
      <4>3. mbytes' \in [1..3 -> MouseBytes] /\ byte_count' \in 0..2
        <5>1. /\ Store(buf[1].byte) \in [1..3 -> MouseBytes]
              /\ mbytes' = BLANK \/ mbytes' = Store(buf[1].byte)
              /\ byte_count' = 0 \/ byte_count' = 1 \/ byte_count' = 2
          BY <3>0, <3>3, HandlerCases, Zenon
        <5> QED
          BY <5>1, BlankTyped
      <4> QED
        BY <3>0, <4>1, <4>2, <4>3, Zenon
    <3> QED
      BY <3>2, <3>3
  <2> QED
    BY <2>1, <2>2
<1>3. Len(buf') <= 1 /\ (buf' # << >> => \E b : buf' = <<b>> /\ ByteOK(b))
  BY <1>2 DEF TypeInv, TypeOK
<1> QED
  BY <1>1, <1>2, <1>3
     DEF TypeInv, TypeOK, HistoryOK, KeysHeardOK, MovesOK, devices, keyboard, counters

\* What is left from before the program.
LEMMA LeftTypes ==
  /\ LeftByKeyboard \subseteq Seq(KeyValues)
  /\ LeftByMouse \subseteq Seq(MouseBytes)
  /\ \A x \in LeftInBuffer : Len(x) <= 1 /\ (x # << >> => \E b : x = <<b>> /\ ByteOK(b))
<1>1. LeftByKeyboard \subseteq Seq(KeyValues)
  <2>1. ASSUME NEW b \in KeyBytes(Arrows \cup {UNKNOWN2}) PROVE <<b>> \in Seq(KeyValues)
    <3>1. b \in KeyValues
      BY DEF KeyBytes, KeyValues
    <3> QED
      BY <3>1
  <2>2. << >> \in Seq(KeyValues)
    OBVIOUS
  <2> QED
    BY <2>1, <2>2, Zenon DEF LeftByKeyboard
<1>2. LeftByMouse \subseteq Seq(MouseBytes)
  <2>1. ASSUME NEW b2 \in BOOLEAN, NEW b3 \in BOOLEAN
        PROVE  /\ Tail(Packet(0, b2, b3)) \in Seq(MouseBytes)
               /\ Tail(Tail(Packet(0, b2, b3))) \in Seq(MouseBytes)
    <3> DEFINE x1 == [packet |-> 0, place |-> 1, bit3 |-> TRUE]
               x2 == [packet |-> 0, place |-> 2, bit3 |-> b2]
               x3 == [packet |-> 0, place |-> 3, bit3 |-> b3]
    <3>1. x2 \in MouseBytes /\ x3 \in MouseBytes
      BY InputAssumption DEF MouseBytes
    <3>2. Packet(0, b2, b3) = <<x1, x2, x3>>
      BY DEF Packet
    <3> HIDE DEF x1, x2, x3
    <3>3. Tail(<<x1, x2, x3>>) = <<x2, x3>> /\ Tail(<<x2, x3>>) = <<x3>>
      OBVIOUS
    <3>4. <<x2, x3>> \in Seq(MouseBytes) /\ <<x3>> \in Seq(MouseBytes)
      BY <3>1
    <3> QED
      BY <3>2, <3>3, <3>4, Zenon
  <2>2. << >> \in Seq(MouseBytes) /\ TRUE \in BOOLEAN
    OBVIOUS
  <2>3. ASSUME NEW x \in LeftByMouse PROVE x \in Seq(MouseBytes)
    <3> DEFINE A == {Tail(Packet(0, b2, b3)) : b2, b3 \in BOOLEAN}
               B == {Tail(Tail(Packet(0, TRUE, b3))) : b3 \in BOOLEAN}
    <3>0. LeftByMouse = {<< >>} \cup A \cup B
      BY DEF LeftByMouse
    <3>1. CASE x \in A
      <4>1. \E b2, b3 \in BOOLEAN : x = Tail(Packet(0, b2, b3))
        BY <3>1
      <4> QED
        BY <2>1, <4>1, Zenon
    <3>2. CASE x \in B
      <4>1. \E b3 \in BOOLEAN : x = Tail(Tail(Packet(0, TRUE, b3)))
        BY <3>2
      <4> QED
        BY <2>1, <2>2, <4>1, Zenon
    <3> HIDE DEF A, B
    <3>3. x = << >> \/ x \in A \/ x \in B
      BY <3>0
    <3> QED
      BY <2>2, <3>1, <3>2, <3>3, Zenon
  <2> QED
    BY <2>3
<1>3. ASSUME NEW x \in LeftInBuffer
      PROVE  Len(x) <= 1 /\ (x # << >> => \E b : x = <<b>> /\ ByteOK(b))
  <2> DEFINE u == [key |-> UNKNOWN, down |-> TRUE]
             w == [aux |-> FALSE, byte |-> u, last |-> TRUE, err |-> FALSE]
  <2>1. u \in KeyValues
    BY DEF KeyValues, KeyBytes
  <2> HIDE DEF u
  <2>2. ByteOK(w)
    BY <2>1 DEF ByteOK
  <2>3. x = << >> \/ x = <<w>>
    BY DEF LeftInBuffer, u
  <2> HIDE DEF w
  <2>4. Len(x) <= 1
    <3>1. Len(<< >>) = 0 /\ Len(<<w>>) = 1
      OBVIOUS
    <3>2. 0 <= 1 /\ 1 <= 1
      OBVIOUS
    <3> QED
      BY <2>3, <3>1, <3>2, Zenon
  <2> QED
    BY <2>2, <2>3, <2>4, Zenon
<1> QED
  BY <1>1, <1>2, <1>3

LEMMA TypeInvInit == Init => TypeInv
<1> SUFFICES ASSUME Init PROVE TypeInv
  OBVIOUS
<1>1. MaxSent \in Nat /\ POLLS \in Nat \ {0} /\ TRIES \in Nat \ {0}
  BY InputAssumption
<1>2. bytes \in [1..2 -> KeyValues \cup {NUL}]
  BY DEF Init
<1>3. mbytes \in [1..3 -> MouseBytes]
  BY BlankTyped DEF Init
<1>4. keyboard_packet \in KeyPresses
  BY DEF Init, KeyPresses
<1>5. {reporting, toMouse, assemblied_word, got_key_press, got_mouse_packet, whole, fresh, ended}
        \subseteq BOOLEAN
  BY Zenon DEF Init
<1>6. /\ Len(buf) <= 1 /\ (buf # << >> => \E b : buf = <<b>> /\ ByteOK(b))
      /\ kbd \in Seq(KeyValues) /\ mouse \in Seq(MouseBytes)
  BY LeftTypes DEF Init
<1>7. /\ polls \in 0..(POLLS - 1) /\ tries \in 0..TRIES /\ tries < TRIES /\ clean \in 0..2
      /\ byte_count \in 0..2 /\ sent \in 0..MaxSent /\ settled \in 0..2 /\ part \in 0..2
  BY <1>1 DEF Init
<1>8. phase = "poll" /\ hs = {} /\ irq = {}
  BY DEF Init
<1>9. TypeOK
  BY <1>2, <1>3, <1>4, <1>5, <1>6, <1>7, <1>8 DEF TypeOK
<1> QED
  BY <1>6, <1>7, <1>9 DEF TypeInv

LEMMA TypeInvStep == TypeInv /\ [Next]_vars => TypeInv'
<1> SUFFICES ASSUME TypeInv, [Next]_vars PROVE TypeInv'
  OBVIOUS
<1>1. CASE Notify
  BY <1>1 DEF Notify, TypeInv, TypeOK, devices, keyboard, pointer, counters
<1>2. CASE UNCHANGED vars
  BY <1>2 DEF vars, run, devices, keyboard, pointer, history, keysHeard, moves, counters,
              TypeInv, TypeOK
<1> QED
  BY <1>1, <1>2, SendTypes, StartTypes, KeyStepTypes, MouseStepTypes DEF Next

\* Every variable of Input keeps its type.  byte_count stays inside the array
\* mouse_handler writes to, and a byte is one of the device that sent it, whatever
\* is lost or read by the other handler.
THEOREM TypeCorrect == Spec => []TypeOK
<1>1. TypeInv => TypeOK
  BY DEF TypeInv
<1> QED
  BY <1>1, TypeInvInit, TypeInvStep, PTL DEF Spec

-----------------------------------------------------------------------------
(* The packets of the mouse                                                *)

\* A byte of a packet, and what is left of one after its first or its second byte.
Byte(n, place, b) == [packet |-> n, place |-> place, bit3 |-> b]
Rest2(n, b2, b3) == <<Byte(n, 2, b2), Byte(n, 3, b3)>>
Rest3(n, b3) == <<Byte(n, 3, b3)>>

AuxIn == buf # << >> /\ buf[1].aux

\* What the mouse has still to send is the rest of one packet, and goes on where
\* the byte in the buffer ends.
StreamInv ==
  IF AuxIn
  THEN \/ buf[1].byte = ACK /\ mouse = << >>
       \/ \E n \in Nat, b2, b3 \in BOOLEAN :
            \/ buf[1].byte = Byte(n, 1, TRUE) /\ mouse = Rest2(n, b2, b3)
            \/ buf[1].byte = Byte(n, 2, b2) /\ mouse = Rest3(n, b3)
            \/ buf[1].byte = Byte(n, 3, b3) /\ mouse = << >>
  ELSE \/ mouse = << >> \/ mouse = <<ACK>>
       \/ \E n \in Nat, b2, b3 \in BOOLEAN : mouse = Rest2(n, b2, b3) \/ mouse = Rest3(n, b3)

\* The place of the byte mouse_handler sees next, and its packet.
NextPlace ==
  IF AuxIn THEN buf[1].byte.place ELSE IF mouse = << >> THEN 1 ELSE Head(mouse).place
NextPacket == IF AuxIn THEN buf[1].byte.packet ELSE Head(mouse).packet

\* The first bytes collected are those of the packet that goes on.
Has1 == mbytes[1].place = 1 /\ mbytes[1].bit3 /\ mbytes[1].packet = NextPacket
Has2 == Has1 /\ mbytes[2].place = 2 /\ mbytes[2].packet = NextPacket

\* A quiet packet moves byte_count towards its place: the first byte collected is
\* refused unless it has bit 3.  After one, byte_count is right or one behind, or
\* two bytes of other packets are collected; after the second it is right.
QuietInv ==
  /\ settled # 0 \/ part # 0 => NextPlace # 0
  /\ part = 1 => NextPlace = 2 /\ (byte_count = 1 => mbytes[1].bit3)
  /\ part = 2 => NextPlace = 3 /\ (byte_count = 1 => ~mbytes[1].bit3)
OnceInv ==
  settled = 1 =>
    /\ NextPlace = 1 => (byte_count = 1 => ~mbytes[1].bit3)
    /\ NextPlace = 2 => byte_count = 0 \/ (byte_count = 1 /\ Has1)
    /\ NextPlace = 3 => byte_count = 1 \/ (byte_count = 2 /\ Has2)
TwiceInv ==
  settled = 2 =>
    /\ NextPlace = 1 => byte_count = 0
    /\ NextPlace = 2 => byte_count = 1 /\ Has1
    /\ NextPlace = 3 => byte_count = 2 /\ Has2

\* What is handed out.
Whole(p) == \A i \in 1..3 : p[i].place = i /\ p[i].packet = p[1].packet
GotInv ==
  /\ got_mouse_packet => byte_count = 0
  /\ settled = 2 /\ got_mouse_packet => Whole(mbytes)
  /\ ended => phase = "idle" /\ got_mouse_packet

MouseInv == TypeInv /\ StreamInv /\ QuietInv /\ OnceInv /\ TwiceInv /\ GotInv

LEMMA RestFacts ==
  ASSUME NEW n, NEW b2, NEW b3
  PROVE  /\ Rest2(n, b2, b3) # << >> /\ Head(Rest2(n, b2, b3)) = Byte(n, 2, b2)
         /\ Tail(Rest2(n, b2, b3)) = Rest3(n, b3)
         /\ Rest3(n, b3) # << >> /\ Head(Rest3(n, b3)) = Byte(n, 3, b3)
         /\ Tail(Rest3(n, b3)) = << >>
BY DEF Rest2, Rest3

LEMMA AckFacts ==
  <<ACK>> # << >> /\ Head(<<ACK>>) = ACK /\ Tail(<<ACK>>) = << >> /\ ACK.place = 0
<1>1. ACK.place = 0
  BY DEF ACK
<1> HIDE DEF ACK
<1> QED
  BY <1>1

LEMMA PacketIs ==
  ASSUME NEW n, NEW b2, NEW b3
  PROVE  /\ Head(Packet(n, b2, b3)) = Byte(n, 1, TRUE)
         /\ Tail(Packet(n, b2, b3)) = Rest2(n, b2, b3)
         /\ Tail(Tail(Packet(n, b2, b3))) = Rest3(n, b3)
<1>1. Packet(n, b2, b3) = <<Byte(n, 1, TRUE), Byte(n, 2, b2), Byte(n, 3, b3)>>
  BY Zenon DEF Packet, Byte
<1>2. \A x, y, z : /\ Head(<<x, y, z>>) = x /\ Tail(<<x, y, z>>) = <<y, z>>
                   /\ Tail(Tail(<<x, y, z>>)) = <<z>>
  OBVIOUS
<1>3. /\ Head(Packet(n, b2, b3)) = Byte(n, 1, TRUE)
      /\ Tail(Packet(n, b2, b3)) = <<Byte(n, 2, b2), Byte(n, 3, b3)>>
      /\ Tail(Tail(Packet(n, b2, b3))) = <<Byte(n, 3, b3)>>
  BY <1>1, <1>2, Zenon
<1> QED
  BY <1>3, Zenon DEF Rest2, Rest3

\* Steps that leave the bytes of the mouse where they are.
LEMMA SameStream ==
  ASSUME StreamInv, mouse' = mouse, AuxIn' <=> AuxIn, AuxIn => buf'[1].byte = buf[1].byte
  PROVE  StreamInv' /\ NextPlace' = NextPlace /\ NextPacket' = NextPacket
<1>1. CASE AuxIn
  BY <1>1 DEF StreamInv, NextPlace, NextPacket
<1>2. CASE ~AuxIn
  BY <1>2 DEF StreamInv, NextPlace, NextPacket
<1> QED
  BY <1>1, <1>2

\* A byte of the mouse is read: the next one follows it.
LEMMA ReadStream ==
  ASSUME StreamInv, AuxIn, ~AuxIn', mouse' = mouse
  PROVE  LET v == buf[1].byte IN
         /\ StreamInv'
         /\ \/ v.place = 0 /\ NextPlace' = 1
            \/ v.place = 1 /\ v.bit3 /\ NextPlace' = 2 /\ NextPacket' = v.packet
            \/ v.place = 2 /\ NextPlace' = 3 /\ NextPacket' = v.packet
            \/ v.place = 3 /\ NextPlace' = 1
         /\ NextPlace = v.place /\ NextPacket = v.packet
<1> DEFINE v == buf[1].byte
<1>1. NextPlace = v.place /\ NextPacket = v.packet
  BY DEF NextPlace, NextPacket
<1>2. /\ mouse = << >> => NextPlace' = 1
      /\ mouse # << >> => NextPlace' = Head(mouse).place /\ NextPacket' = Head(mouse).packet
  BY DEF NextPlace, NextPacket
<1>3. CASE v = ACK /\ mouse = << >>
  <2>1. StreamInv'
    BY <1>3 DEF StreamInv
  <2> QED
    BY <1>1, <1>2, <1>3, <2>1, AckFacts
<1>4. CASE v # ACK \/ mouse # << >>
  <2>1. PICK n \in Nat, b2 \in BOOLEAN, b3 \in BOOLEAN :
          \/ v = Byte(n, 1, TRUE) /\ mouse = Rest2(n, b2, b3)
          \/ v = Byte(n, 2, b2) /\ mouse = Rest3(n, b3)
          \/ v = Byte(n, 3, b3) /\ mouse = << >>
    BY <1>4 DEF StreamInv
  <2> HIDE DEF v
  <2>2. CASE v = Byte(n, 1, TRUE) /\ mouse = Rest2(n, b2, b3)
    <3>1. StreamInv'
      BY <2>2 DEF StreamInv
    <3>2. v.place = 1 /\ v.packet = n /\ v.bit3 = TRUE
      BY <2>2 DEF Byte
    <3>3. NextPlace' = 2 /\ NextPacket' = n
      <4>1. Head(mouse) = Byte(n, 2, b2) /\ mouse # << >>
        BY <2>2, RestFacts
      <4> QED
        BY <1>2, <4>1 DEF Byte
    <3> QED
      BY <1>1, <3>1, <3>2, <3>3 DEF v
  <2>3. CASE v = Byte(n, 2, b2) /\ mouse = Rest3(n, b3)
    <3>1. StreamInv'
      BY <2>3 DEF StreamInv
    <3>2. v.place = 2 /\ v.packet = n
      BY <2>3 DEF Byte
    <3>3. NextPlace' = 3 /\ NextPacket' = n
      <4>1. Head(mouse) = Byte(n, 3, b3) /\ mouse # << >>
        BY <2>3, RestFacts
      <4> QED
        BY <1>2, <4>1 DEF Byte
    <3> QED
      BY <1>1, <3>1, <3>2, <3>3 DEF v
  <2>4. CASE v = Byte(n, 3, b3) /\ mouse = << >>
    <3>1. StreamInv'
      BY <2>4 DEF StreamInv
    <3>2. v.place = 3
      BY <2>4 DEF Byte
    <3>3. NextPlace' = 1
      BY <1>2, <2>4
    <3> QED
      BY <1>1, <3>1, <3>2, <3>3 DEF v
  <2> QED
    BY <2>1, <2>2, <2>3, <2>4
<1> QED
  BY <1>3, <1>4

\* The mouse sends: what mouse_handler sees next stays the same.
LEMMA SendStream ==
  ASSUME TypeInv, StreamInv, MouseSends
  PROVE  /\ StreamInv' /\ NextPlace' = NextPlace
         /\ NextPlace \in {2, 3} => NextPacket' = NextPacket
<1>0. ~AuxIn
  BY DEF MouseSends, Arrives, AuxIn
<1>1. ASSUME NEW value, NEW last, Arrives(TRUE, value, last)
      PROVE  AuxIn' /\ buf'[1].byte = value
  <2>1. PICK b : buf' = <<b>> /\ b.aux = TRUE /\ b.byte = value
    BY <1>1 DEF Arrives
  <2> QED
    BY <2>1 DEF AuxIn
<1>2. CASE mouse # << >>
  <2>1. AuxIn' /\ buf'[1].byte = Head(mouse) /\ mouse' = Tail(mouse)
    BY <1>1, <1>2 DEF MouseSends
  <2>2. NextPlace' = NextPlace /\ NextPacket' = NextPacket
    BY <1>0, <1>2, <2>1 DEF NextPlace, NextPacket
  <2>3. StreamInv'
    <3>1. CASE mouse = <<ACK>>
      <4>1. buf'[1].byte = ACK /\ mouse' = << >>
        BY <2>1, <3>1, AckFacts
      <4> QED
        BY <2>1, <4>1 DEF StreamInv
    <3>2. CASE mouse # <<ACK>>
      <4>1. PICK n \in Nat, b2 \in BOOLEAN, b3 \in BOOLEAN :
              mouse = Rest2(n, b2, b3) \/ mouse = Rest3(n, b3)
        BY <1>0, <1>2, <3>2 DEF StreamInv
      <4>2. \/ buf'[1].byte = Byte(n, 2, b2) /\ mouse' = Rest3(n, b3)
            \/ buf'[1].byte = Byte(n, 3, b3) /\ mouse' = << >>
        BY <2>1, <4>1, RestFacts
      <4> QED
        BY <2>1, <4>2 DEF StreamInv
    <3> QED
      BY <3>1, <3>2
  <2> QED
    BY <2>2, <2>3
<1>3. CASE mouse = << >>
  <2>1. PICK b2 \in BOOLEAN, b3 \in BOOLEAN :
          /\ Arrives(TRUE, Head(Packet(sent + 1, b2, b3)), FALSE)
          /\ mouse' = Tail(Packet(sent + 1, b2, b3))
    BY <1>3 DEF MouseSends
  <2>2. sent + 1 \in Nat
    BY DEF TypeInv
  <2>3. AuxIn' /\ buf'[1].byte = Byte(sent + 1, 1, TRUE) /\ mouse' = Rest2(sent + 1, b2, b3)
    BY <1>1, <2>1, PacketIs
  <2>4. StreamInv'
    BY <2>2, <2>3 DEF StreamInv
  <2>5. NextPlace = 1 /\ NextPlace' = 1
    <3>1. Byte(sent + 1, 1, TRUE).place = 1
      BY DEF Byte
    <3> QED
      BY <1>0, <1>3, <2>3, <3>1 DEF NextPlace
  <2> QED
    BY <2>4, <2>5
<1> QED
  BY <1>2, <1>3

\* A step that leaves what mouse_handler has and what it sees next.
LEMMA StillCollected ==
  ASSUME MouseInv, NextPlace' = NextPlace, NextPlace \in {2, 3} => NextPacket' = NextPacket,
         UNCHANGED <<byte_count, settled, part>>, mbytes' = mbytes \/ byte_count = 0
  PROVE  QuietInv' /\ OnceInv' /\ TwiceInv'
<1>1. CASE mbytes' = mbytes
  BY <1>1 DEF MouseInv, QuietInv, OnceInv, TwiceInv, Has1, Has2
<1>2. CASE byte_count = 0
  BY <1>2 DEF MouseInv, QuietInv, OnceInv, TwiceInv, Has1, Has2
<1> QED
  BY <1>1, <1>2

LEMMA StillGot ==
  ASSUME GotInv, UNCHANGED <<mbytes, byte_count, got_mouse_packet, ended, phase>>,
         settled' = 2 => settled = 2
  PROVE  GotInv'
BY DEF GotInv, Whole

\* After a disturbance nothing is claimed of what is collected.
LEMMA DisturbedCollected ==
  ASSUME MouseDisturbed
  PROVE  QuietInv' /\ OnceInv' /\ TwiceInv'
BY DEF MouseDisturbed, QuietInv, OnceInv, TwiceInv

\* The entries of the array after a byte is stored.
LEMMA StoredAt ==
  ASSUME NEW v, byte_count \in 0..2
  PROVE  /\ Store(v)[1] = IF byte_count = 0 THEN v ELSE mbytes[1]
         /\ byte_count = 1 => Store(v)[2] = v
         /\ byte_count = 2 => Store(v)[2] = mbytes[2] /\ Store(v)[3] = v
<1> HIDE DEF ACK
<1> QED
  BY DEF Store

\* mouse_handler with a byte of the mouse.
LEMMA CollectsInv ==
  ASSUME MouseInv, Mouse_handler, ~(buf = << >> \/ buf[1].err \/ ~buf[1].aux),
         phase' = "idle", mouse' = mouse
  PROVE  StreamInv' /\ QuietInv' /\ OnceInv' /\ TwiceInv' /\ GotInv'
<1> DEFINE v == buf[1].byte
<1>0. TypeInv /\ StreamInv /\ QuietInv /\ OnceInv /\ TwiceInv /\ GotInv
  BY DEF MouseInv
<1>1. AuxIn /\ ~AuxIn'
  BY DEF AuxIn, Mouse_handler
<1>2. /\ StreamInv' /\ NextPlace = v.place /\ NextPacket = v.packet
      /\ \/ v.place = 0 /\ NextPlace' = 1
         \/ v.place = 1 /\ v.bit3 /\ NextPlace' = 2 /\ NextPacket' = v.packet
         \/ v.place = 2 /\ NextPlace' = 3 /\ NextPacket' = v.packet
         \/ v.place = 3 /\ NextPlace' = 1
  BY <1>0, <1>1, ReadStream
<1>3. /\ byte_count \in 0..2 /\ Collected(v)
      /\ \/ /\ byte_count = 0 /\ byte_count' = 1 /\ ~got_mouse_packet'
            /\ mbytes'[1] = v
         \/ /\ byte_count = 1 /\ ~mbytes[1].bit3 /\ byte_count' = 0
            /\ ~got_mouse_packet'
         \/ /\ byte_count = 1 /\ mbytes[1].bit3 /\ byte_count' = 2
            /\ ~got_mouse_packet' /\ mbytes'[1] = mbytes[1] /\ mbytes'[2] = v
         \/ /\ byte_count = 2 /\ byte_count' = 0 /\ got_mouse_packet'
            /\ mbytes'[1] = mbytes[1] /\ mbytes'[2] = mbytes[2] /\ mbytes'[3] = v
  <2> DEFINE st == Store(v)
  <2>1. /\ byte_count \in 0..2 /\ Collected(v)
        /\ \/ /\ byte_count = 0 /\ byte_count' = 1 /\ ~got_mouse_packet' /\ mbytes' = st
           \/ /\ byte_count = 1 /\ ~mbytes[1].bit3 /\ byte_count' = 0 /\ ~got_mouse_packet'
           \/ /\ byte_count = 1 /\ mbytes[1].bit3 /\ byte_count' = 2 /\ ~got_mouse_packet'
              /\ mbytes' = st
           \/ /\ byte_count = 2 /\ byte_count' = 0 /\ got_mouse_packet' /\ mbytes' = st
    BY <1>0, HandlerCases, Zenon
  <2>2. /\ byte_count = 0 => st[1] = v
        /\ byte_count = 1 => st[1] = mbytes[1] /\ st[2] = v
        /\ byte_count = 2 => st[1] = mbytes[1] /\ st[2] = mbytes[2] /\ st[3] = v
    BY <2>1, StoredAt
  <2> HIDE DEF st, v
  <2> QED
    BY <2>1, <2>2, Zenon
<1> HIDE DEF v
<1>4. /\ part' = IF v.place = 1 THEN 1
                 ELSE IF v.place = 2 /\ part = 1 /\ ~v.bit3 THEN 2 ELSE 0
      /\ settled' = IF v.place = 0 THEN 0
                    ELSE IF v.place = 3 /\ part = 2 /\ ~v.bit3 /\ settled < 2 THEN settled + 1
                    ELSE settled
      /\ settled \in 0..2 /\ part \in 0..2
  BY <1>0, <1>3 DEF Collected, TypeInv, TypeOK
<1>5. ended' => v.place = 3 /\ settled = 2
  BY <1>3 DEF Collected
<1>6. QuietInv'
  BY <1>0, <1>2, <1>3, <1>4 DEF QuietInv
<1>7. OnceInv'
  <2>1. CASE v.place = 0
    BY <1>4, <2>1 DEF OnceInv
  <2>2. CASE v.place = 1
    BY <1>0, <1>2, <1>3, <1>4, <2>2 DEF OnceInv, Has1
  <2>3. CASE v.place = 2
    BY <1>0, <1>2, <1>3, <1>4, <2>3 DEF OnceInv, Has1, Has2
  <2>4. CASE v.place = 3
    BY <1>0, <1>2, <1>3, <1>4, <2>4 DEF QuietInv, OnceInv
  <2> QED
    BY <1>2, <2>1, <2>2, <2>3, <2>4
<1>8. TwiceInv'
  <2>1. CASE v.place = 0
    BY <1>4, <2>1 DEF TwiceInv
  <2>2. CASE v.place = 1
    BY <1>0, <1>2, <1>3, <1>4, <2>2 DEF TwiceInv, Has1
  <2>3. CASE v.place = 2
    BY <1>0, <1>2, <1>3, <1>4, <2>3 DEF TwiceInv, Has1, Has2
  <2>4. CASE v.place = 3
    BY <1>0, <1>2, <1>3, <1>4, <2>4 DEF QuietInv, OnceInv, TwiceInv
  <2> QED
    BY <1>2, <2>1, <2>2, <2>3, <2>4
<1>9. GotInv'
  <2>1. ended' => got_mouse_packet'
    BY <1>0, <1>2, <1>3, <1>5 DEF TwiceInv
  <2>2. got_mouse_packet' => byte_count' = 0
    BY <1>3
  <2>3. ASSUME settled' = 2, got_mouse_packet' PROVE Whole(mbytes')
    <3>1. byte_count = 2 /\ mbytes'[1] = mbytes[1] /\ mbytes'[2] = mbytes[2] /\ mbytes'[3] = v
      BY <1>3, <2>3
    <3>2. v.place = 3 /\ Has2
      BY <1>0, <1>2, <1>4, <2>3, <3>1 DEF OnceInv, TwiceInv
    <3>3. /\ mbytes'[1].place = 1 /\ mbytes'[2].place = 2 /\ mbytes'[3].place = 3
          /\ mbytes'[1].packet = v.packet /\ mbytes'[2].packet = v.packet
          /\ mbytes'[3].packet = v.packet
      BY <1>2, <3>1, <3>2 DEF Has1, Has2
    <3> QED
      BY <3>3 DEF Whole
  <2> QED
    BY <2>1, <2>2, <2>3 DEF GotInv
<1> QED
  BY <1>2, <1>6, <1>7, <1>8, <1>9

LEMMA MouseStepInv ==
  ASSUME MouseInv, MouseStep
  PROVE  StreamInv' /\ QuietInv' /\ OnceInv' /\ TwiceInv' /\ GotInv'
<1>0. phase = "mouse" /\ phase' = "idle" /\ mouse' = mouse /\ ~ended
  BY DEF MouseStep, devices, MouseInv, GotInv
<1>1. CASE "mouse" \notin hs
  <2>1. /\ UNCHANGED <<buf, byte_count, settled, part, ended>> /\ ~got_mouse_packet'
        /\ mbytes' = IF got_mouse_packet THEN BLANK ELSE mbytes
    BY <1>1 DEF MouseStep, history, moves
  <2>2. AuxIn' <=> AuxIn
    BY <2>1 DEF AuxIn
  <2>3. StreamInv' /\ NextPlace' = NextPlace /\ NextPacket' = NextPacket
    BY <1>0, <2>1, <2>2, SameStream DEF MouseInv
  <2>4. mbytes' = mbytes \/ byte_count = 0
    BY <2>1 DEF MouseInv, GotInv
  <2>5. GotInv'
    BY <1>0, <2>1 DEF GotInv
  <2> QED
    BY <2>1, <2>3, <2>4, <2>5, StillCollected
<1>2. CASE "mouse" \in hs
  <2>0. Mouse_handler /\ ~AuxIn'
    BY <1>2 DEF MouseStep, Mouse_handler, AuxIn
  <2>1. CASE buf = << >> \/ buf[1].err \/ ~buf[1].aux
    <3>1. MouseDisturbed /\ ~got_mouse_packet' /\ ~ended'
      BY <1>0, <2>0, <2>1 DEF Mouse_handler, Forget, MouseDisturbed
    <3>2. GotInv'
      BY <3>1 DEF GotInv
    <3>3. StreamInv'
      BY <1>0, <2>0, ReadStream, SameStream DEF MouseInv
    <3> QED
      BY <3>1, <3>2, <3>3, DisturbedCollected
  <2>2. CASE ~(buf = << >> \/ buf[1].err \/ ~buf[1].aux)
    BY <1>0, <2>0, <2>2, CollectsInv
  <2> QED
    BY <2>1, <2>2
<1> QED
  BY <1>1, <1>2

\* The keyboard's handler takes a byte of the mouse, which is a disturbance, or leaves
\* the mouse alone.
LEMMA KeyStepInv ==
  ASSUME MouseInv, KeyStep
  PROVE  StreamInv' /\ QuietInv' /\ OnceInv' /\ TwiceInv' /\ GotInv'
<1>0. /\ phase = "key" /\ phase' = "mouse" /\ mouse' = mouse /\ ~ended
      /\ UNCHANGED <<mbytes, byte_count, got_mouse_packet>>
  BY DEF KeyStep, devices, pointer, MouseInv, GotInv
<1>1. ASSUME UNCHANGED moves, AuxIn' <=> AuxIn, AuxIn => buf' = buf
      PROVE  StreamInv' /\ QuietInv' /\ OnceInv' /\ TwiceInv' /\ GotInv'
  <2>1. UNCHANGED <<settled, part, ended>>
    BY <1>1 DEF moves
  <2>2. StreamInv' /\ NextPlace' = NextPlace /\ NextPacket' = NextPacket
    BY <1>0, <1>1, SameStream DEF MouseInv
  <2>3. GotInv'
    BY <1>0, <2>1 DEF MouseInv, GotInv, Whole
  <2> QED
    BY <1>0, <2>1, <2>2, <2>3, StillCollected
<1>2. CASE "kbd" \notin hs
  <2>1. UNCHANGED <<buf, moves>>
    BY <1>2 DEF KeyStep, history
  <2>2. AuxIn' <=> AuxIn
    BY <2>1 DEF AuxIn
  <2> QED
    BY <1>1, <2>1, <2>2
<1>3. CASE "kbd" \in hs
  <2>0. Keyboard_handler /\ ~AuxIn'
    BY <1>3 DEF KeyStep, Keyboard_handler, Kbc_ih, AuxIn
  <2>1. CASE AuxIn
    <3>1. MouseDisturbed
      BY <2>0, <2>1 DEF Keyboard_handler, AuxIn, Lost, Heard
    <3>2. StreamInv'
      BY <1>0, <2>0, <2>1, ReadStream DEF MouseInv
    <3>3. GotInv'
      BY <1>0, <3>1 DEF MouseInv, GotInv, MouseDisturbed
    <3> QED
      BY <3>1, <3>2, <3>3, DisturbedCollected
  <2>2. CASE ~AuxIn
    <3>1. UNCHANGED moves
      BY <2>0, <2>2 DEF Keyboard_handler, AuxIn, Lost, Heard, history
    <3> QED
      BY <1>1, <2>0, <2>2, <3>1
  <2> QED
    BY <2>1, <2>2
<1> QED
  BY <1>2, <1>3

LEMMA SendsInv ==
  ASSUME MouseInv, KeyboardSends \/ MouseSends
  PROVE  StreamInv' /\ QuietInv' /\ OnceInv' /\ TwiceInv' /\ GotInv'
<1>0. UNCHANGED <<phase, mbytes, byte_count, got_mouse_packet, settled, part, ended>>
  BY DEF KeyboardSends, MouseSends, run, pointer, history, moves
<1>1. /\ StreamInv' /\ NextPlace' = NextPlace
      /\ NextPlace \in {2, 3} => NextPacket' = NextPacket
  <2>1. CASE KeyboardSends
    <3>1. ~AuxIn /\ mouse' = mouse
      BY <2>1 DEF KeyboardSends, Arrives, AuxIn
    <3>2. PICK b : buf' = <<b>> /\ b.aux = FALSE
      BY <2>1 DEF KeyboardSends, Arrives
    <3>3. ~AuxIn'
      BY <3>2 DEF AuxIn
    <3> QED
      BY <3>1, <3>3, SameStream DEF MouseInv
  <2>2. CASE MouseSends
    BY <2>2, SendStream DEF MouseInv
  <2> QED
    BY <2>1, <2>2
<1>2. GotInv'
  BY <1>0, StillGot DEF MouseInv
<1> QED
  BY <1>0, <1>1, <1>2, StillCollected

\* Before the loop a byte of the mouse that is read away, or an answer of the mouse,
\* is a disturbance.
LEMMA StartsInv ==
  ASSUME MouseInv, PollFull \/ PollEmpty \/ ReadAck
  PROVE  StreamInv' /\ QuietInv' /\ OnceInv' /\ TwiceInv' /\ GotInv'
<1>0. /\ phase # "idle" /\ ~ended /\ ~AuxIn'
      /\ UNCHANGED <<mbytes, byte_count, got_mouse_packet>>
  BY DEF PollFull, PollEmpty, ReadAck, pointer, MouseInv, GotInv, AuxIn
<1>1. ASSUME MouseDisturbed PROVE QuietInv' /\ OnceInv' /\ TwiceInv' /\ GotInv'
  <2>1. GotInv'
    BY <1>0, <1>1 DEF MouseInv, GotInv, MouseDisturbed
  <2> QED
    BY <1>1, <2>1, DisturbedCollected
<1>2. ASSUME UNCHANGED moves, mouse' = mouse, ~AuxIn
      PROVE  StreamInv' /\ QuietInv' /\ OnceInv' /\ TwiceInv' /\ GotInv'
  <2>1. UNCHANGED <<settled, part, ended>>
    BY <1>2 DEF moves
  <2>2. StreamInv' /\ NextPlace' = NextPlace /\ NextPacket' = NextPacket
    BY <1>0, <1>2, SameStream DEF MouseInv
  <2>3. GotInv'
    BY <1>0, <2>1 DEF MouseInv, GotInv, Whole
  <2> QED
    BY <1>0, <2>1, <2>2, <2>3, StillCollected
<1>3. CASE PollEmpty
  <2>1. CASE toMouse
    <3>1. MouseDisturbed /\ mouse' = <<ACK>>
      BY <1>3, <2>1 DEF PollEmpty
    <3>2. StreamInv'
      BY <1>0, <3>1 DEF StreamInv
    <3> QED
      BY <1>1, <3>1, <3>2
  <2>2. CASE ~toMouse
    <3>1. UNCHANGED moves /\ mouse' = mouse /\ ~AuxIn
      BY <1>3, <2>2 DEF PollEmpty, AuxIn
    <3> QED
      BY <1>2, <3>1
  <2> QED
    BY <2>1, <2>2
<1>4. CASE PollFull \/ ReadAck
  <2>0. mouse' = mouse
    BY <1>4 DEF PollFull, ReadAck, devices
  <2>1. CASE AuxIn
    <3>1. MouseDisturbed
      BY <1>4, <2>1 DEF PollFull, ReadAck, AuxIn, Lost
    <3>2. StreamInv'
      BY <1>0, <2>0, <2>1, ReadStream DEF MouseInv
    <3> QED
      BY <1>1, <3>1, <3>2
  <2>2. CASE ~AuxIn
    <3>1. UNCHANGED moves
      BY <1>4, <2>2 DEF PollFull, ReadAck, AuxIn, Lost, history
    <3> QED
      BY <1>2, <2>0, <2>2, <3>1
  <2> QED
    BY <2>1, <2>2
<1> QED
  BY <1>3, <1>4

\* Whatever was lost, whichever handler took it, whatever the mouse was in the middle of
\* when the program started and whatever bit 3 of the movements was until then, two
\* packets without it bring mouse_handler back in step with the mouse, and it stays so
\* for packets of any movements: each is handed over as it ends and none is mixed.
\* One such packet is not enough: the first byte collected may be its third one, and
\* the first byte of the next packet is then refused with it.
THEOREM PacketsAlwaysResync == Spec => []PacketsResync
<1>1. Init => MouseInv
  <2> SUFFICES ASSUME Init PROVE MouseInv
    OBVIOUS
  <2>1. ~AuxIn
    <3>1. CASE buf = << >>
      BY <3>1 DEF AuxIn
    <3>2. CASE buf # << >>
      <4>1. PICK b : buf = <<b>> /\ b.aux = FALSE
        BY <3>2 DEF Init, LeftInBuffer
      <4> QED
        BY <4>1 DEF AuxIn
    <3> QED
      BY <3>1, <3>2
  <2>2. \/ mouse = << >>
        \/ \E b2, b3 \in BOOLEAN : mouse = Rest2(0, b2, b3) \/ mouse = Rest3(0, b3)
    <3> DEFINE A == {Tail(Packet(0, b2, b3)) : b2, b3 \in BOOLEAN}
               B == {Tail(Tail(Packet(0, TRUE, b3))) : b3 \in BOOLEAN}
    <3>1. LeftByMouse = {<< >>} \cup A \cup B
      BY DEF LeftByMouse
    <3>2. CASE mouse \in A
      <4>1. PICK b2, b3 \in BOOLEAN : mouse = Tail(Packet(0, b2, b3))
        BY <3>2
      <4> QED
        BY <4>1, PacketIs
    <3>3. CASE mouse \in B
      <4>1. PICK b3 \in BOOLEAN : mouse = Tail(Tail(Packet(0, TRUE, b3)))
        BY <3>3
      <4>2. mouse = Rest3(0, b3)
        BY <4>1, PacketIs
      <4> QED
        BY <4>2
    <3> HIDE DEF A, B
    <3> QED
      BY <3>1, <3>2, <3>3 DEF Init
  <2>3. StreamInv
    BY <2>1, <2>2 DEF StreamInv
  <2>4. QuietInv /\ OnceInv /\ TwiceInv /\ GotInv
    BY DEF Init, QuietInv, OnceInv, TwiceInv, GotInv
  <2> QED
    BY <2>3, <2>4, TypeInvInit DEF MouseInv
<1>2. MouseInv /\ [Next]_vars => MouseInv'
  <2> SUFFICES ASSUME MouseInv, [Next]_vars PROVE MouseInv'
    OBVIOUS
  <2>1. TypeInv'
    BY TypeInvStep DEF MouseInv
  <2>2. CASE Notify \/ UNCHANGED vars
    <3>1. /\ UNCHANGED <<buf, mouse, mbytes, byte_count, got_mouse_packet, settled, part>>
          /\ ~ended' \/ UNCHANGED <<phase, ended>>
      BY <2>2 DEF Notify, vars, run, devices, pointer, history, moves
    <3>2. AuxIn' <=> AuxIn
      BY <3>1 DEF AuxIn
    <3>3. StreamInv' /\ NextPlace' = NextPlace /\ NextPacket' = NextPacket
      BY <3>1, <3>2, SameStream DEF MouseInv
    <3>4. GotInv'
      BY <3>1 DEF MouseInv, GotInv, Whole
    <3> QED
      BY <2>1, <3>1, <3>3, <3>4, StillCollected DEF MouseInv
  <2> QED
    BY <2>1, <2>2, SendsInv, StartsInv, KeyStepInv, MouseStepInv DEF Next, MouseInv
<1>3. MouseInv => PacketsResync
  BY DEF MouseInv, GotInv, Whole, PacketsResync, mouse_packet
<1> QED
  BY <1>1, <1>2, <1>3, PTL DEF Spec

-----------------------------------------------------------------------------
(* The keys heard                                                          *)

\* A byte of the keyboard is in the buffer; the scancodes of one byte and the answer
\* to a command, which is as long, and the second bytes of the others.
KeyIn   == buf # << >> /\ ~buf[1].aux
Singles == KeyBytes(Plain \cup {UNKNOWN}) \cup {KBD_ACK}
Seconds == KeyBytes(Arrows \cup {UNKNOWN2})

\* The keyboard has a second byte or an answer to send or nothing, and goes on where
\* the byte in the buffer ends.
KeyStreamInv ==
  /\ kbd = << >> \/ kbd = <<KBD_ACK>> \/ \E b \in Seconds : kbd = <<b>>
  /\ KeyIn => \/ buf[1].byte = PREFIX /\ ~buf[1].last /\ \E b \in Seconds : kbd = <<b>>
              \/ buf[1].byte \in Singles \cup Seconds /\ buf[1].last /\ kbd = << >>

\* The next byte of the keyboard is the second of its scancode.
SecondNext == IF KeyIn THEN buf[1].byte \in Seconds ELSE kbd # << >> /\ kbd # <<KBD_ACK>>

\* Once a scancode was heard in full, keyboard_get_scancode waits for a second
\* byte exactly if one comes.
SyncInv ==
  clean # 0 =>
    /\ whole
    /\ IF SecondNext THEN ~assemblied_word /\ bytes[1] = PREFIX ELSE assemblied_word

\* A key that goes up and is still in the packet is the last one meant.
EchoInv == clean = 2 => keyboard_packet.down \/ keyboard_packet.key \in {NONE, meant.key}

\* The key meant in this notification is the one reported.
FreshInv ==
  IF phase \in {"mouse", "idle"}
  THEN clean = 2 /\ fresh /\ ~meant.down /\ meant.key \in Plain \cup Arrows =>
         got_key_press /\ keyboard_packet = meant
  ELSE ~fresh

KeysInv == TypeInv /\ KeyStreamInv /\ SyncInv /\ EchoInv /\ FreshInv

\* Which byte of a scancode it is can be seen from the byte.
LEMMA KindsOfBytes ==
  /\ \A b \in Singles : /\ b \notin Seconds /\ b # PREFIX
                        /\ b.key \in Plain \cup {UNKNOWN, KBD_ACK.key} /\ b.key \notin Arrows
                        /\ b.down \in BOOLEAN /\ b = [key |-> b.key, down |-> b.down]
                        /\ b.key # UNKNOWN2
  /\ \A b \in Seconds : /\ b \notin Singles /\ b # PREFIX /\ b.key \in Arrows \cup {UNKNOWN2}
                        /\ b.down \in BOOLEAN /\ b = [key |-> b.key, down |-> b.down]
  /\ PREFIX \notin Singles /\ PREFIX \notin Seconds /\ PREFIX.key # UNKNOWN2
<1> DEFINE Known == KeyBytes(Plain \cup {UNKNOWN})
<1>1. \A b \in Known : /\ b \notin Seconds /\ b # PREFIX
                       /\ b.key \in Plain \cup {UNKNOWN} /\ b.key \notin Arrows
                       /\ b.down \in BOOLEAN /\ b = [key |-> b.key, down |-> b.down]
                       /\ b.key # UNKNOWN2 /\ b # KBD_ACK
  BY InputAssumption, KeysAssumption
     DEF Seconds, KeyBytes, PREFIX, NUL, KBD_ACK, UNKNOWN, UNKNOWN2, NONE
<1>2. \A b \in Seconds : /\ b \notin Known /\ b # PREFIX /\ b.key \in Arrows \cup {UNKNOWN2}
                         /\ b.down \in BOOLEAN /\ b = [key |-> b.key, down |-> b.down]
                         /\ b # KBD_ACK
  BY InputAssumption, KeysAssumption
     DEF Seconds, KeyBytes, PREFIX, NUL, KBD_ACK, UNKNOWN, UNKNOWN2, NONE
<1>3. PREFIX \notin Known /\ PREFIX \notin Seconds /\ PREFIX.key # UNKNOWN2 /\ PREFIX # KBD_ACK
  BY InputAssumption, KeysAssumption
     DEF Seconds, KeyBytes, PREFIX, NUL, KBD_ACK, UNKNOWN, UNKNOWN2, NONE
<1>4. /\ KBD_ACK \notin Seconds /\ KBD_ACK # PREFIX /\ KBD_ACK.key \notin Arrows
      /\ KBD_ACK.down \in BOOLEAN /\ KBD_ACK = [key |-> KBD_ACK.key, down |-> KBD_ACK.down]
      /\ KBD_ACK.key # UNKNOWN2
  BY InputAssumption, KeysAssumption
     DEF Seconds, KeyBytes, PREFIX, NUL, KBD_ACK, UNKNOWN, UNKNOWN2, NONE
<1> HIDE DEF Known
<1>5. Singles = Known \cup {KBD_ACK}
  BY DEF Singles, Known
<1> HIDE DEF KBD_ACK, PREFIX
<1> QED
  BY <1>1, <1>2, <1>3, <1>4, <1>5, Zenon

\* An answer is no second byte.
LEMMA AnswerIs ==
  /\ <<KBD_ACK>> # << >> /\ Head(<<KBD_ACK>>) = KBD_ACK /\ KBD_ACK \in Singles
  /\ \A b \in Seconds : <<b>> # << >> /\ <<b>> # <<KBD_ACK>> /\ Head(<<b>>) = b
<1>1. KBD_ACK \in Singles /\ KBD_ACK \notin Seconds
  BY KindsOfBytes DEF Singles
<1> HIDE DEF KBD_ACK
<1> QED
  BY <1>1

\* Steps that leave the bytes of the keyboard where they are.
LEMMA QuietKeys ==
  ASSUME KeysInv, kbd' = kbd, KeyIn' <=> KeyIn, KeyIn => buf'[1] = buf[1],
         UNCHANGED <<bytes, assemblied_word, clean, whole, meant>>,
         keyboard_packet' = keyboard_packet \/ keyboard_packet'.key = NONE
  PROVE  KeyStreamInv' /\ SyncInv' /\ EchoInv'
<1>1. KeyStreamInv'
  <2>1. CASE KeyIn
    BY <2>1 DEF KeysInv, KeyStreamInv
  <2>2. CASE ~KeyIn
    BY <2>2 DEF KeysInv, KeyStreamInv
  <2> QED
    BY <2>1, <2>2
<1>2. SecondNext' <=> SecondNext
  BY DEF SecondNext
<1>3. SyncInv'
  BY <1>2 DEF KeysInv, SyncInv
<1>4. EchoInv'
  BY DEF KeysInv, EchoInv
<1> QED
  BY <1>1, <1>3, <1>4

\* After a disturbance nothing is promised.
LEMMA DisturbedKeys ==
  ASSUME KeysInv, kbd' = kbd, ~KeyIn', clean' = 0
  PROVE  KeyStreamInv' /\ SyncInv' /\ EchoInv'
BY DEF KeysInv, KeyStreamInv, SyncInv, EchoInv

\* A byte read away before the keyboard's handler has it.
LEMMA LostKeys ==
  ASSUME KeysInv, NEW b, buf = <<b>>, ByteOK(b), buf' = << >>, kbd' = kbd,
         IF b.aux THEN UNCHANGED keysHeard ELSE KeyByteLost(b),
         UNCHANGED <<bytes, assemblied_word, keyboard_packet>>
  PROVE  /\ KeyStreamInv' /\ SyncInv' /\ EchoInv'
         /\ (clean' = 0 /\ ~fresh') \/ UNCHANGED <<clean, meant, fresh>>
<1>0. buf[1] = b /\ ~KeyIn'
  BY DEF KeyIn
<1>1. CASE b.aux
  <2>1. ~KeyIn /\ UNCHANGED <<clean, whole, fresh, meant>>
    BY <1>0, <1>1 DEF KeyIn, keysHeard
  <2> QED
    BY <1>0, <2>1, QuietKeys
<1>2. CASE ~b.aux
  <2>1. clean' = 0 /\ ~fresh'
    BY <1>2 DEF KeyByteLost
  <2> QED
    BY <1>0, <2>1, DisturbedKeys
<1> QED
  BY <1>1, <1>2

LEMMA SendsKeys ==
  ASSUME KeysInv, KeyboardSends \/ MouseSends
  PROVE  KeyStreamInv' /\ SyncInv' /\ EchoInv' /\ FreshInv'
<1>0. /\ buf = << >> /\ ~KeyIn
      /\ UNCHANGED <<phase, bytes, assemblied_word, got_key_press, keyboard_packet,
                     clean, whole, fresh, meant>>
  BY DEF KeyboardSends, MouseSends, Arrives, KeyIn, run, keyboard, history, keysHeard
<1>1. FreshInv'
  BY <1>0 DEF KeysInv, FreshInv
<1>2. CASE MouseSends
  <2>1. kbd' = kbd /\ \E b : buf' = <<b>> /\ b.aux = TRUE
    BY <1>2 DEF MouseSends, Arrives
  <2>2. ~KeyIn'
    BY <2>1 DEF KeyIn
  <2> QED
    BY <1>0, <1>1, <2>1, <2>2, QuietKeys
<1>3. CASE KeyboardSends
  <2>1. ASSUME NEW value, NEW last, Arrives(FALSE, value, last)
        PROVE  KeyIn' /\ buf'[1].byte = value /\ buf'[1].last = last
    <3>1. PICK b : buf' = <<b>> /\ b.aux = FALSE /\ b.byte = value /\ b.last = last
      BY <2>1 DEF Arrives
    <3> QED
      BY <3>1 DEF KeyIn
  <2>2. KeyStreamInv' /\ (SecondNext' <=> SecondNext)
    <3>1. CASE kbd # << >>
      <4>0. KeyIn' /\ buf'[1].byte = Head(kbd) /\ buf'[1].last = TRUE /\ kbd' = << >>
        BY <1>3, <2>1, <3>1 DEF KeyboardSends
      <4>1. CASE kbd = <<KBD_ACK>>
        <5>1. buf'[1].byte = KBD_ACK
          BY <4>0, <4>1, AnswerIs
        <5>2. ~SecondNext' /\ ~SecondNext
          BY <1>0, <4>0, <4>1, <5>1, AnswerIs, KindsOfBytes DEF SecondNext
        <5>3. KeyStreamInv'
          BY <4>0, <5>1, AnswerIs DEF KeyStreamInv
        <5> QED
          BY <5>2, <5>3
      <4>2. CASE kbd # <<KBD_ACK>>
        <5>1. PICK b \in Seconds : kbd = <<b>>
          BY <3>1, <4>2 DEF KeysInv, KeyStreamInv
        <5>2. buf'[1].byte = b
          BY <4>0, <5>1, AnswerIs
        <5>3. SecondNext' /\ SecondNext
          BY <1>0, <3>1, <4>0, <4>2, <5>2 DEF SecondNext
        <5>4. KeyStreamInv'
          BY <4>0, <5>2 DEF KeyStreamInv
        <5> QED
          BY <5>3, <5>4
      <4> QED
        BY <4>1, <4>2
    <3>2. CASE kbd = << >>
      <4>1. PICK code \in Scancodes :
              Arrives(FALSE, Head(code), Len(code) = 1) /\ kbd' = Tail(code)
        BY <1>3, <3>2 DEF KeyboardSends
      <4>2. KeyIn' /\ buf'[1].byte = Head(code) /\ buf'[1].last = (Len(code) = 1)
        BY <2>1, <4>1
      <4>3. ~SecondNext
        BY <1>0, <3>2 DEF SecondNext
      <4>4. CASE \E b \in KeyBytes(Plain \cup {UNKNOWN}) : code = <<b>>
        <5>1. PICK b \in Singles : code = <<b>>
          BY <4>4 DEF Singles
        <5>2. Head(code) = b /\ Tail(code) = << >> /\ Len(code) = 1
          BY <5>1
        <5>3. buf'[1].byte = b /\ buf'[1].last /\ kbd' = << >>
          BY <4>1, <4>2, <5>2
        <5>4. ~SecondNext'
          BY <4>2, <5>3, KindsOfBytes DEF SecondNext
        <5>5. KeyStreamInv'
          BY <5>3 DEF KeyStreamInv
        <5> QED
          BY <4>3, <5>4, <5>5
      <4>5. CASE \E b \in Seconds : code = <<PREFIX, b>>
        <5>1. PICK b \in Seconds : code = <<PREFIX, b>>
          BY <4>5
        <5>2. Head(code) = PREFIX /\ Tail(code) = <<b>> /\ Len(code) = 2 /\ <<b>> # << >>
          BY <5>1
        <5>3. buf'[1].byte = PREFIX /\ ~buf'[1].last /\ kbd' = <<b>> /\ kbd' # << >>
          <6>1. ~(2 = 1)
            OBVIOUS
          <6> QED
            BY <4>1, <4>2, <5>2, <6>1, Zenon
        <5>4. ~SecondNext'
          BY <4>2, <5>3, KindsOfBytes DEF SecondNext
        <5>5. KeyStreamInv'
          BY <5>3 DEF KeyStreamInv
        <5> QED
          BY <4>3, <5>4, <5>5
      <4> QED
        BY <4>4, <4>5 DEF Scancodes, Seconds
    <3> QED
      BY <3>1, <3>2
  <2>3. SyncInv' /\ EchoInv'
    BY <1>0, <2>2 DEF KeysInv, SyncInv, EchoInv
  <2> QED
    BY <1>1, <2>2, <2>3
<1> QED
  BY <1>2, <1>3

LEMMA StartsKeys ==
  ASSUME KeysInv, PollFull \/ PollEmpty \/ ReadAck
  PROVE  KeyStreamInv' /\ SyncInv' /\ EchoInv' /\ FreshInv'
<1>0. phase \in {"poll", "ack"} /\ ~fresh /\ ~KeyIn' /\ UNCHANGED keyboard
  BY DEF PollFull, PollEmpty, ReadAck, KeysInv, FreshInv, KeyIn
<1>1. ASSUME ~KeyIn, kbd' = kbd, UNCHANGED keysHeard
      PROVE  KeyStreamInv' /\ SyncInv' /\ EchoInv' /\ FreshInv'
  <2>1. UNCHANGED <<clean, whole, fresh, meant>>
    BY <1>1 DEF keysHeard
  <2>2. KeyStreamInv' /\ SyncInv' /\ EchoInv'
    BY <1>0, <1>1, <2>1, QuietKeys DEF keyboard
  <2>3. FreshInv'
    BY <1>0, <2>1 DEF FreshInv
  <2> QED
    BY <2>2, <2>3
<1>2. CASE PollEmpty
  <2>0. ~KeyIn
    BY <1>2 DEF PollEmpty, KeyIn
  <2>1. CASE toMouse
    BY <1>1, <1>2, <2>0, <2>1 DEF PollEmpty
  <2>2. CASE ~toMouse
    <3>1. kbd' = <<KBD_ACK>> /\ clean' = 0 /\ ~fresh'
      BY <1>2, <2>2 DEF PollEmpty, KeyByteLost
    <3> QED
      BY <1>0, <3>1 DEF KeyStreamInv, SyncInv, EchoInv, FreshInv
  <2> QED
    BY <2>1, <2>2
<1>3. CASE PollFull \/ ReadAck
  <2>0. kbd' = kbd /\ buf' = << >>
    BY <1>3 DEF PollFull, ReadAck, devices
  <2>1. CASE buf = << >>
    <3>1. ~KeyIn /\ UNCHANGED keysHeard
      BY <1>3, <2>1 DEF PollFull, ReadAck, history, KeyIn
    <3> QED
      BY <1>1, <2>0, <3>1
  <2>2. CASE buf # << >>
    <3>1. PICK b : buf = <<b>> /\ ByteOK(b)
      BY <2>2 DEF KeysInv, TypeInv
    <3>2. buf[1] = b
      BY <3>1
    <3>3. IF b.aux THEN UNCHANGED keysHeard ELSE KeyByteLost(b)
      BY <1>3, <2>2, <3>2 DEF PollFull, ReadAck, Lost
    <3>4. /\ KeyStreamInv' /\ SyncInv' /\ EchoInv'
          /\ (clean' = 0 /\ ~fresh') \/ UNCHANGED <<clean, meant, fresh>>
      BY <1>0, <2>0, <3>1, <3>3, LostKeys DEF keyboard
    <3>5. FreshInv'
      BY <1>0, <3>4 DEF FreshInv
    <3> QED
      BY <3>4, <3>5
  <2> QED
    BY <2>1, <2>2
<1> QED
  BY <1>2, <1>3

\* The first byte of a scancode of two.
LEMMA HearsPrefix ==
  ASSUME KeysInv, NEW b, buf = <<b>>, ByteOK(b), b.byte = PREFIX, ~b.aux,
         HearByte(b), Heard(b), kbd' = kbd, buf' = << >>
  PROVE  KeyStreamInv' /\ SyncInv' /\ EchoInv' /\ ~fresh'
<1>0. buf[1] = b /\ KeyIn /\ ~KeyIn'
  BY DEF KeyIn
<1>1. ~b.last /\ ~SecondNext /\ SecondNext'
  <2>1. ~b.last /\ (\E c \in Seconds : kbd = <<c>>) /\ ~SecondNext
    BY <1>0, KindsOfBytes DEF KeysInv, KeyStreamInv, SecondNext
  <2>2. kbd' # << >> /\ kbd' # <<KBD_ACK>>
    BY <2>1, AnswerIs
  <2> QED
    BY <1>0, <2>1, <2>2 DEF SecondNext
<1>2. ~fresh'
  BY <1>1, Zenon DEF Heard
<1>3. whole' = whole
  <2>1. whole' = (whole \/ (~b.aux /\ b.last)) /\ whole \in BOOLEAN
    BY Zenon DEF Heard, KeysInv, TypeInv, TypeOK
  <2> QED
    BY <1>1, <2>1, Zenon
<1>4. clean' = clean /\ (clean' = 2 => meant' = meant)
  <2>1. ~(~b.aux /\ b.last /\ whole) /\ ~(b.aux \/ b.byte.key = UNKNOWN2)
    BY <1>1, KindsOfBytes
  <2> QED
    BY <2>1 DEF Heard
<1>5. CASE clean = 0
  BY <1>0, <1>2, <1>4, <1>5, DisturbedKeys
<1>6. CASE clean # 0
  <2>1. whole /\ assemblied_word
    BY <1>1, <1>6 DEF KeysInv, SyncInv
  <2>2. ~Keyboard_get_scancode(PREFIX) /\ Word(PREFIX) = <<PREFIX, bytes[2]>>
    BY <2>1 DEF Keyboard_get_scancode, Word, Awaited
  <2>3. bytes' = <<PREFIX, bytes[2]>> /\ ~assemblied_word' /\ keyboard_packet' = keyboard_packet
    BY <2>2 DEF HearByte, AsKeyByte
  <2>4. bytes'[1] = PREFIX
    BY <2>3
  <2>6. SyncInv'
    BY <1>1, <1>3, <2>1, <2>3, <2>4 DEF SyncInv
  <2>7. EchoInv'
    BY <1>4, <2>3 DEF KeysInv, EchoInv
  <2>8. KeyStreamInv'
    BY <1>0 DEF KeysInv, KeyStreamInv
  <2> QED
    BY <1>2, <2>6, <2>7, <2>8
<1> QED
  BY <1>5, <1>6

\* The last byte of a scancode, heard in step, gives the key that was meant.
LEMMA HearsInStep ==
  ASSUME KeysInv, NEW b, buf = <<b>>, ~b.aux, clean # 0,
         b.byte \in Singles \cup Seconds, b.byte.key # UNKNOWN2, HearByte(b)
  PROVE  /\ got_key_press'
         /\ ~b.byte.down /\ b.byte.key \in Plain \cup Arrows => keyboard_packet' = b.byte
         /\ keyboard_packet'.down \/ keyboard_packet'.key \in {NONE, b.byte.key}
<1> DEFINE v == b.byte
<1>0. buf[1] = b /\ KeyIn
  BY DEF KeyIn
<1>1. got_key_press' /\ keyboard_packet' \in Assemble_key_press(Word(v))
  <2>1. Keyboard_get_scancode(v)
    BY KindsOfBytes DEF Keyboard_get_scancode
  <2> QED
    BY <2>1 DEF HearByte, AsKeyByte
<1>3. CASE v \in Singles
  <2>1. assemblied_word
    BY <1>0, <1>3, KindsOfBytes DEF KeysInv, SyncInv, SecondNext
  <2>2. v # PREFIX
    BY <1>3, KindsOfBytes
  <2>3. Word(v) = <<v, bytes[2]>>
    BY <2>1 DEF Word, Awaited
  <2>4. Word(v)[1] = v
    BY <2>3
  <2>5. Scancode_get_size(Word(v)[1]) = 1
    BY <2>2, <2>4 DEF Scancode_get_size
  <2>6. PICK k \in KeyOf(1, v) : keyboard_packet' = [key |-> k, down |-> v.down]
    BY <1>1, <2>4, <2>5 DEF Assemble_key_press, Scancode_is_make
  <2>7. k = IF v.key \in Plain /\ ~v.down THEN v.key ELSE NONE
    BY <2>6 DEF KeyOf
  <2>8. /\ v.key \notin Arrows /\ v.down \in BOOLEAN
        /\ v = [key |-> v.key, down |-> v.down]
    BY <1>3, KindsOfBytes
  <2>9. keyboard_packet'.key = k
    BY <2>6
  <2>10. ~v.down /\ v.key \in Plain \cup Arrows => keyboard_packet' = v
    BY <2>6, <2>7, <2>8, Zenon
  <2> QED
    BY <1>1, <2>7, <2>9, <2>10, Zenon
<1>4. CASE v \in Seconds
  <2>1. ~assemblied_word /\ bytes[1] = PREFIX
    BY <1>0, <1>4 DEF KeysInv, SyncInv, SecondNext
  <2>2. Word(v) = <<PREFIX, v>>
    BY <2>1 DEF Word, Awaited
  <2>3. Word(v)[1] = PREFIX /\ Word(v)[2] = v
    BY <2>2
  <2>4. Scancode_get_size(Word(v)[1]) = 2
    BY <2>3 DEF Scancode_get_size
  <2>5. PICK k \in KeyOf(2, v) : keyboard_packet' = [key |-> k, down |-> v.down]
    BY <1>1, <2>3, <2>4 DEF Assemble_key_press, Scancode_is_make
  <2>6. /\ v.key \in Arrows /\ v.down \in BOOLEAN /\ v = [key |-> v.key, down |-> v.down]
    BY <1>4, KindsOfBytes
  <2>7. ~v.down => k = v.key
    BY <2>5, <2>6 DEF KeyOf
  <2>8. keyboard_packet'.key = k /\ keyboard_packet'.down = v.down
    BY <2>5
  <2>9. ~v.down => keyboard_packet' = v
    BY <2>5, <2>6, <2>7, Zenon
  <2> QED
    BY <1>1, <2>6, <2>7, <2>8, <2>9, Zenon
<1> QED
  BY <1>3, <1>4

LEMMA HearsLast ==
  ASSUME KeysInv, NEW b, buf = <<b>>, ByteOK(b), ~b.aux,
         b.byte \in Singles \cup Seconds, b.last, kbd = << >>,
         HearByte(b), Heard(b), kbd' = kbd, buf' = << >>, phase' = "mouse"
  PROVE  KeyStreamInv' /\ SyncInv' /\ EchoInv' /\ FreshInv'
<1>0. ~KeyIn' /\ ~SecondNext' /\ KeyStreamInv'
  BY DEF KeyIn, SecondNext, KeyStreamInv
<1>1. b.byte # PREFIX
  BY KindsOfBytes
<1>2. whole' /\ assemblied_word'
  <2>1. Keyboard_get_scancode(b.byte)
    BY <1>1 DEF Keyboard_get_scancode
  <2>2. assemblied_word'
    BY <2>1 DEF HearByte, AsKeyByte
  <2>3. whole'
    BY Zenon DEF Heard
  <2> QED
    BY <2>2, <2>3
<1>3. SyncInv'
  BY <1>0, <1>2 DEF SyncInv
<1>4. CASE clean' # 2
  BY <1>0, <1>3, <1>4 DEF EchoInv, FreshInv
<1>5. CASE clean' = 2
  <2>1. b.byte.key # UNKNOWN2 /\ clean # 0
    <3>1. clean \in 0..2
      BY DEF KeysInv, TypeInv, TypeOK
    <3>2. b.byte.key # UNKNOWN2
      BY <1>5 DEF Heard
    <3>3. clean' = clean + 1 \/ clean' = clean
      BY <3>2 DEF Heard
    <3>4. clean = 0 => clean' = 0 \/ clean' = 1
      BY <3>3
    <3> QED
      BY <1>5, <3>1, <3>2, <3>4
  <2>2. meant' = b.byte
    <3>1. b.last /\ ~b.aux /\ whole
      BY <2>1 DEF KeysInv, SyncInv
    <3> QED
      BY <1>5, <3>1 DEF Heard
  <2>3. /\ got_key_press'
        /\ ~b.byte.down /\ b.byte.key \in Plain \cup Arrows => keyboard_packet' = b.byte
        /\ keyboard_packet'.down \/ keyboard_packet'.key \in {NONE, b.byte.key}
    BY <2>1, HearsInStep
  <2>4. EchoInv' /\ FreshInv'
    BY <2>2, <2>3 DEF EchoInv, FreshInv
  <2> QED
    BY <1>0, <1>3, <2>4
<1> QED
  BY <1>4, <1>5

LEMMA KeyStepKeys ==
  ASSUME KeysInv, KeyStep
  PROVE  KeyStreamInv' /\ SyncInv' /\ EchoInv' /\ FreshInv'
<1>0. phase' = "mouse" /\ kbd' = kbd /\ ~fresh
  BY DEF KeyStep, devices, KeysInv, FreshInv
<1>1. CASE "kbd" \notin hs
  <2>1. /\ UNCHANGED <<buf, bytes, assemblied_word, clean, whole, fresh, meant>>
        /\ keyboard_packet' = [keyboard_packet EXCEPT !.key = NONE]
    BY <1>1 DEF KeyStep, history, keysHeard
  <2>2. keyboard_packet'.key = NONE
    BY <2>1 DEF KeysInv, TypeInv, TypeOK, KeyPresses
  <2>3. KeyIn' <=> KeyIn
    BY <2>1 DEF KeyIn
  <2>4. FreshInv'
    BY <1>0, <2>1 DEF FreshInv
  <2> QED
    BY <1>0, <2>1, <2>2, <2>3, <2>4, QuietKeys
<1>2. CASE "kbd" \in hs
  <2>0. Keyboard_handler /\ buf' = << >> /\ ~KeyIn'
    BY <1>2 DEF KeyStep, Keyboard_handler, Kbc_ih, KeyIn
  <2>1. CASE buf = << >>
    <3>1. /\ ~KeyIn
          /\ UNCHANGED <<bytes, assemblied_word, keyboard_packet, clean, whole, fresh, meant>>
      BY <2>0, <2>1 DEF Keyboard_handler, history, keysHeard, KeyIn
    <3>2. FreshInv'
      BY <1>0, <3>1 DEF FreshInv
    <3> QED
      BY <1>0, <2>0, <3>1, <3>2, QuietKeys
  <2>2. CASE buf # << >>
    <3>1. PICK b : buf = <<b>> /\ ByteOK(b)
      BY <2>2 DEF KeysInv, TypeInv
    <3>2. buf[1] = b
      BY <3>1
    <3>3. CASE b.err
      <4>1. UNCHANGED <<bytes, assemblied_word, keyboard_packet>>
        BY <2>0, <3>2, <3>3 DEF Keyboard_handler
      <4>2. CASE b.aux
        <5>1. ~KeyIn /\ UNCHANGED <<clean, whole, fresh, meant>>
          BY <2>0, <2>2, <3>2, <3>3, <4>2 DEF Keyboard_handler, Lost, keysHeard, KeyIn
        <5>2. FreshInv'
          BY <1>0, <5>1 DEF FreshInv
        <5> QED
          BY <1>0, <2>0, <4>1, <5>1, <5>2, QuietKeys
      <4>3. CASE ~b.aux
        <5>1. clean' = 0
          BY <2>0, <2>2, <3>2, <3>3, <4>3 DEF Keyboard_handler, Lost, KeyByteLost
        <5>2. FreshInv'
          BY <1>0, <5>1 DEF FreshInv
        <5> QED
          BY <1>0, <2>0, <5>1, <5>2, DisturbedKeys
      <4> QED
        BY <4>2, <4>3
    <3>4. CASE ~b.err
      <4>1. HearByte(b) /\ Heard(b)
        BY <2>0, <2>2, <3>2, <3>4 DEF Keyboard_handler
      <4>2. CASE b.aux
        <5>1. clean' = 0
          BY <4>1, <4>2 DEF Heard
        <5>2. FreshInv'
          BY <1>0, <5>1 DEF FreshInv
        <5> QED
          BY <1>0, <2>0, <5>1, <5>2, DisturbedKeys
      <4>3. CASE ~b.aux
        <5>1. KeyIn
          BY <2>2, <3>2, <4>3 DEF KeyIn
        <5>2. \/ b.byte = PREFIX
              \/ b.byte \in Singles \cup Seconds /\ b.last /\ kbd = << >>
          BY <3>2, <5>1 DEF KeysInv, KeyStreamInv
        <5>3. CASE b.byte = PREFIX
          <6>1. KeyStreamInv' /\ SyncInv' /\ EchoInv' /\ ~fresh'
            BY <1>0, <2>0, <3>1, <4>1, <4>3, <5>3, HearsPrefix
          <6> QED
            BY <6>1 DEF FreshInv
        <5>4. CASE b.byte \in Singles \cup Seconds /\ b.last /\ kbd = << >>
          BY <1>0, <2>0, <3>1, <4>1, <4>3, <5>4, HearsLast
        <5> QED
          BY <5>2, <5>3, <5>4
      <4> QED
        BY <4>2, <4>3
    <3> QED
      BY <3>3, <3>4
  <2> QED
    BY <2>1, <2>2
<1> QED
  BY <1>1, <1>2

LEMMA MouseStepKeys ==
  ASSUME KeysInv, MouseStep
  PROVE  KeyStreamInv' /\ SyncInv' /\ EchoInv' /\ FreshInv'
<1>0. /\ phase = "mouse" /\ phase' = "idle" /\ kbd' = kbd
      /\ UNCHANGED <<bytes, assemblied_word, got_key_press, keyboard_packet>>
  BY DEF MouseStep, devices, keyboard
<1>1. CASE "mouse" \in hs /\ buf # << >>
  <2>1. PICK b : buf = <<b>> /\ ByteOK(b)
    BY <1>1 DEF KeysInv, TypeInv
  <2>2. buf[1] = b
    BY <2>1
  <2>3. buf' = << >> /\ IF b.aux THEN UNCHANGED keysHeard ELSE KeyByteLost(b)
    BY <1>1, <2>2 DEF MouseStep, Mouse_handler
  <2>4. /\ KeyStreamInv' /\ SyncInv' /\ EchoInv'
        /\ (clean' = 0 /\ ~fresh') \/ UNCHANGED <<clean, meant, fresh>>
    BY <1>0, <2>1, <2>3, LostKeys
  <2>5. FreshInv'
    BY <1>0, <2>4 DEF KeysInv, FreshInv
  <2> QED
    BY <2>4, <2>5
<1>2. CASE ~("mouse" \in hs /\ buf # << >>)
  <2>1. UNCHANGED <<buf, clean, whole, fresh, meant>>
    BY <1>2 DEF MouseStep, Mouse_handler, history, keysHeard
  <2>2. KeyIn' <=> KeyIn
    BY <2>1 DEF KeyIn
  <2>3. FreshInv'
    BY <1>0, <2>1 DEF KeysInv, FreshInv
  <2> QED
    BY <1>0, <2>1, <2>2, <2>3, QuietKeys
<1> QED
  BY <1>1, <1>2

\* Whatever was lost, and whatever of the mouse keyboard_handler took for a
\* scancode, two scancodes later each known key that goes up is reported as it
\* ends, and no other: one scancode brings keyboard_get_scancode back in step, since
\* a last byte leaves assemblied_word set whatever it waited for.
THEOREM KeysAlwaysResync == Spec => []KeysResync
<1>1. Init => KeysInv
  <2> SUFFICES ASSUME Init PROVE KeysInv
    OBVIOUS
  <2>1. KeyStreamInv /\ SyncInv /\ EchoInv /\ FreshInv
    <3>1. kbd = << >> \/ \E b \in Seconds : kbd = <<b>>
      BY DEF Init, LeftByKeyboard, Seconds
    <3>2. KeyIn => buf[1].byte \in Singles /\ buf[1].last /\ kbd = << >>
      <4>1. ASSUME KeyIn PROVE buf[1].byte \in Singles /\ buf[1].last /\ kbd = << >>
        <5> DEFINE u == [key |-> UNKNOWN, down |-> TRUE]
               w == [aux |-> FALSE, byte |-> u, last |-> TRUE, err |-> FALSE]
        <5>1. u \in Singles
          BY DEF Singles, KeyBytes
        <5>2. buf = <<w>>
          BY <4>1 DEF Init, LeftInBuffer, KeyIn
        <5> HIDE DEF u
        <5>3. w.byte = u /\ w.last = TRUE
          OBVIOUS
        <5> HIDE DEF w
        <5>4. buf[1] = w /\ kbd = << >>
          BY <5>2 DEF Init
        <5> QED
          BY <5>1, <5>3, <5>4, Zenon
      <4> QED
        BY <4>1
    <3> QED
      BY <3>1, <3>2 DEF Init, KeyStreamInv, SyncInv, EchoInv, FreshInv
  <2> QED
    BY <2>1, TypeInvInit DEF KeysInv
<1>2. KeysInv /\ [Next]_vars => KeysInv'
  <2> SUFFICES ASSUME KeysInv, [Next]_vars PROVE KeysInv'
    OBVIOUS
  <2>1. TypeInv'
    BY TypeInvStep DEF KeysInv
  <2>2. CASE Notify
    <3>1. /\ UNCHANGED <<buf, kbd, bytes, assemblied_word, keyboard_packet, clean, whole, meant>>
          /\ fresh' = FALSE /\ phase' = "key"
      BY <2>2 DEF Notify, devices, keyboard
    <3>2. (KeyIn' <=> KeyIn) /\ FreshInv'
      BY <3>1 DEF KeyIn, FreshInv
    <3> QED
      BY <2>1, <3>1, <3>2, QuietKeys DEF KeysInv
  <2>3. CASE UNCHANGED vars
    <3>1. UNCHANGED <<buf, kbd, bytes, assemblied_word, got_key_press, keyboard_packet, clean,
                      whole, fresh, meant, phase>>
      BY <2>3 DEF vars, run, devices, keyboard, history, keysHeard
    <3>2. (KeyIn' <=> KeyIn) /\ FreshInv'
      BY <3>1 DEF KeyIn, FreshInv, KeysInv
    <3> QED
      BY <2>1, <3>1, <3>2, QuietKeys DEF KeysInv
  <2> QED
    BY <2>1, <2>2, <2>3, SendsKeys, StartsKeys, KeyStepKeys, MouseStepKeys DEF Next, KeysInv
<1>3. KeysInv => KeysResync
  BY DEF KeysInv, FreshInv, EchoInv, KeysResync
<1> QED
  BY <1>1, <1>2, <1>3, PTL DEF Spec
=============================================================================
