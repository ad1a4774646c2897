---------------------------- MODULE MpGameProofs ----------------------------
(***************************************************************************)
(* The first game of two computers over the serial line, for every number  *)
(* of rounds and every sequence of clicks, ticks and interrupts: the turn, *)
(* the handshake, that the two play one game, and the array it is kept in. *)
(***************************************************************************)
EXTENDS MpGame, SequenceTheorems, TLAPS

-----------------------------------------------------------------------------
(* The record of a computer                                                *)

Fields ==
  {"mode", "game_started", "game_end", "is_player_1", "buttons", "max_buttons_size", "guessed",
   "time_left_for_click", "VS_was_pressed", "is_vs_round", "ws", "player_score", "heap", "alarm",
   "received_no_bytes", "num_round_sent_bytes", "received_byte", "queue", "waited", "opened_VS",
   "data", "todo", "sessions", "thr", "tsr", "rbr", "thre"}

TaskNames == {"key", "mouse", "rtc", "uart", "change_player"}

\* A register or the queue holds one byte or none.
Slot(q) == q = << >> \/ \E b \in Nat : q = <<b>>

IsRecord(s) == DOMAIN s = Fields /\ s = [f \in Fields |-> s[f]]

MachineOK(s) ==
  /\ IsRecord(s)
  /\ s.game_started \in BOOLEAN /\ s.game_end \in BOOLEAN /\ s.is_player_1 \in BOOLEAN
  /\ Slot(s.queue) /\ Slot(s.thr) /\ Slot(s.tsr) /\ Slot(s.rbr) /\ s.data \in Int
  /\ s.todo \in Seq(TaskNames)
  /\ s.max_buttons_size \in Nat /\ s.received_byte \in Nat
  /\ s.received_no_bytes \in Nat /\ s.num_round_sent_bytes \in Nat

\* t differs from s in these fields at most.
Differ(s, t, F) == IsRecord(t) /\ \A f \in Fields \ F : t[f] = s[f]

Registers == {"thr", "tsr", "thre"}
Outgoing  == Registers \cup {"queue", "waited"}

-----------------------------------------------------------------------------
(* Tokens: a turn taken for one's own, and a byte that brings the turn     *)

TurnBytes == {IS_VS, IS_NOT_VS, READY}
One(p) == IF p THEN 1 ELSE 0
Holds(q) == q # << >> /\ q[1] \in TurnBytes

BytesHeld(s) ==
  One(Holds(s.queue)) + One(Holds(s.thr)) + One(Holds(s.tsr)) + One(Holds(s.rbr))
    + One(s.data \in TurnBytes)
Tokens(m, s) == One(MyTurn(m, s)) + BytesHeld(s)

\* Tokens are counted.
LEMMA TokensAreNat ==
  ASSUME NEW m, NEW s
  PROVE  BytesHeld(s) \in Nat /\ Tokens(m, s) \in Nat
BY DEF BytesHeld, Tokens, One

\* serial_write_byte
LEMMA SerialWrites ==
  ASSUME NEW s, MachineOK(s), NEW byte \in Nat
  PROVE  LET t == Serial_write_byte(s, byte) IN
         /\ MachineOK(t) /\ Differ(s, t, Registers)
         /\ BytesHeld(t) <= BytesHeld(s) + One(byte \in TurnBytes)
<1> DEFINE t == Serial_write_byte(s, byte)
<1>1. IsRecord(t) /\ Differ(s, t, Registers)
  BY DEF Serial_write_byte, MachineOK, IsRecord, Differ, Registers, Fields
<1>2. Slot(t.thr) /\ Slot(t.tsr)
  BY DEF Serial_write_byte, MachineOK, IsRecord, Fields, Slot
<1>3. MachineOK(t)
  BY <1>1, <1>2 DEF MachineOK, Differ, Registers, Fields
<1>4. \/ t.thr = s.thr /\ t.tsr = s.tsr
      \/ t.thr = s.thr /\ t.tsr = <<byte>>
      \/ s.thr = << >> /\ t.thr = <<byte>> /\ t.tsr = s.tsr
  BY DEF Serial_write_byte, MachineOK, IsRecord, Fields, ThrEmpty
<1>5. t.queue = s.queue /\ t.rbr = s.rbr /\ t.data = s.data
  BY <1>1 DEF Differ, Registers, Fields
<1>6. <<byte>> # << >> /\ <<byte>>[1] = byte
  OBVIOUS
<1>7. BytesHeld(t) <= BytesHeld(s) + One(byte \in TurnBytes)
  BY <1>4, <1>5, <1>6 DEF BytesHeld, Holds, One
<1> QED
  BY <1>1, <1>3, <1>7

\* uart_set_queue and serial_write_byte, for one message
LEMMA Sends ==
  ASSUME NEW s, MachineOK(s), NEW byte \in Nat
  PROVE  LET t == Send(s, byte) IN
         /\ MachineOK(t) /\ Differ(s, t, Outgoing)
         /\ BytesHeld(t) <= BytesHeld(s) + One(byte \in TurnBytes)
<1> DEFINE t == Send(s, byte)
<1>1. CASE ThrEmpty(s)
  BY <1>1, SerialWrites DEF Send, Differ, Outgoing
<1>2. CASE ~ThrEmpty(s)
  <2>1. t = [s EXCEPT !.queue = <<byte>>, !.waited = TRUE]
    BY <1>2 DEF Send
  <2>2. IsRecord(t) /\ Differ(s, t, Outgoing)
    BY <2>1 DEF MachineOK, IsRecord, Differ, Outgoing, Registers, Fields
  <2>3. t.queue = <<byte>> /\ \A f \in {"thr", "tsr", "rbr", "data"} : t[f] = s[f]
    BY <2>1 DEF MachineOK, IsRecord, Fields
  <2>4. MachineOK(t)
    BY <2>2, <2>3 DEF MachineOK, Differ, Outgoing, Registers, Fields, Slot
  <2>5. <<byte>> # << >> /\ <<byte>>[1] = byte
    OBVIOUS
  <2>6. BytesHeld(t) <= BytesHeld(s) + One(byte \in TurnBytes)
    BY <2>3, <2>5 DEF BytesHeld, Holds, One
  <2> QED
    BY <2>2, <2>4, <2>6
<1> QED
  BY <1>1, <1>2

\* uart_ready: the byte of the queue goes to the register.
LEMMA QueueEmpties ==
  ASSUME NEW s, MachineOK(s), s.queue # << >>
  PROVE  LET t == Uart_ready(s) IN
         MachineOK(t) /\ Differ(s, t, Outgoing) /\ BytesHeld(t) <= BytesHeld(s)
<1> DEFINE u == [s EXCEPT !.queue = << >>]
           t == Uart_ready(s)
<1>1. PICK b \in Nat : s.queue = <<b>>
  BY DEF MachineOK, Slot
<1>2. s.queue[1] = b
  BY <1>1
<1>3. Differ(s, u, {"queue"}) /\ u.queue = << >>
  BY DEF MachineOK, IsRecord, Differ, Fields
<1>4. MachineOK(u)
  BY <1>3 DEF MachineOK, Differ, Fields, Slot
<1>5. BytesHeld(s) = BytesHeld(u) + One(b \in TurnBytes)
  <2>1. \A f \in {"thr", "tsr", "rbr", "data"} : u[f] = s[f]
    BY <1>3 DEF Differ, Fields
  <2> QED
    BY <1>1, <1>2, <1>3, <2>1 DEF BytesHeld, Holds, One
<1>6. t = Serial_write_byte(u, b)
  BY <1>2 DEF Uart_ready
<1>7. MachineOK(t) /\ Differ(u, t, Registers) /\ BytesHeld(t) <= BytesHeld(u) + One(b \in TurnBytes)
  BY <1>4, <1>6, SerialWrites
<1>8. Differ(s, t, Outgoing)
  BY <1>3, <1>7 DEF Differ, Outgoing
<1>9. BytesHeld(t) <= BytesHeld(s)
  BY <1>5, <1>7
<1> QED
  BY <1>7, <1>8, <1>9

-----------------------------------------------------------------------------
(* What a handler does that leaves the turn alone                          *)

\* What the turn does not depend on.
GameFields ==
  {"mode", "buttons", "guessed", "player_score", "ws", "game_end", "alarm", "heap",
   "VS_was_pressed", "is_vs_round", "time_left_for_click", "opened_VS"}

Acts(s, t) ==
  MachineOK(t) /\ Differ(s, t, Outgoing \cup GameFields) /\ BytesHeld(t) <= BytesHeld(s)

\* Two such acts in a row are one.
LEMMA ActsTrans == ASSUME NEW s, NEW t, NEW u, Acts(s, t), Acts(t, u) PROVE Acts(s, u)
<1>1. BytesHeld(s) \in Nat /\ BytesHeld(t) \in Nat /\ BytesHeld(u) \in Nat
  BY TokensAreNat
<1> QED
  BY <1>1 DEF Acts, Differ

\* A change of the game alone, without a message
LEMMA GameActs ==
  ASSUME NEW s, NEW t, MachineOK(s), Differ(s, t, GameFields), t.game_end \in BOOLEAN
  PROVE  Acts(s, t)
<1>1. MachineOK(t)
  BY DEF MachineOK, Differ, GameFields, Fields
<1>2. \A f \in {"queue", "thr", "tsr", "rbr", "data"} : t[f] = s[f]
  BY DEF Differ, GameFields, Fields
<1>3. BytesHeld(t) = BytesHeld(s) /\ BytesHeld(s) \in Nat
  BY <1>2, TokensAreNat DEF BytesHeld
<1> QED
  BY <1>1, <1>3 DEF Acts, Differ

\* A message that does not bring the turn
LEMMA SendActs ==
  ASSUME NEW s, MachineOK(s), NEW byte \in Nat \ TurnBytes
  PROVE  Acts(s, Send(s, byte))
<1>1. One(byte \in TurnBytes) = 0 /\ BytesHeld(s) \in Nat
  BY TokensAreNat DEF One
<1> QED
  BY <1>1, Sends DEF Acts, Differ

\* What the bytes are.
LEMMA Messages ==
  /\ TurnBytes = {9, 10, 11}
  /\ ACK \in Nat \ TurnBytes /\ CONNECTED \in Nat \ TurnBytes
  /\ LOSE \in Nat \ TurnBytes /\ TIE_REMOTE \in Nat \ TurnBytes
  /\ \A click \in 0..5 : GREEN_REMOTE + click \in Nat \ TurnBytes
  /\ GREEN_REMOTE..WHITE_REMOTE = 3..8
BY DEF TurnBytes, IS_VS, IS_NOT_VS, READY, ACK, CONNECTED, LOSE, TIE_REMOTE, GREEN_REMOTE,
       WHITE_REMOTE

\* mp_end_game, mp_get_winner, mp_add_button and the score
LEMMA EndActs == ASSUME NEW s, MachineOK(s) PROVE Acts(s, Mp_end_game(s))
<1> DEFINE t == Mp_end_game(s)
<1>1. Differ(s, t, GameFields) /\ t.game_end = TRUE
  BY DEF Mp_end_game, MachineOK, IsRecord, Differ, GameFields, Fields
<1> QED
  BY <1>1, GameActs

\* mp_get_winner, the score, the way out and mp_add_button
LEMMA WinnerActs ==
  ASSUME NEW s, MachineOK(s)
  PROVE  /\ Acts(s, Mp_get_winner(s)) /\ Acts(s, SetScore(s)) /\ Acts(s, LeaveGame(s))
         /\ \A w : Acts(s, [s EXCEPT !.ws = w])
         /\ \A click : Acts(s, Mp_add_button(s, click))
<1>1. ASSUME NEW t, NEW f \in GameFields \ {"game_end"}, NEW v, t = [s EXCEPT ![f] = v]
      PROVE  Acts(s, t)
  <2>1. Differ(s, t, GameFields) /\ t.game_end = s.game_end
    BY <1>1 DEF MachineOK, IsRecord, Differ, GameFields, Fields
  <2> QED
    BY <2>1, GameActs DEF MachineOK
<1>2. {"ws", "player_score", "mode", "buttons"} \subseteq GameFields \ {"game_end"}
  BY DEF GameFields
<1>3. Acts(s, Mp_get_winner(s))
  BY <1>1, <1>2 DEF Mp_get_winner
<1>4. Acts(s, SetScore(s))
  BY <1>1, <1>2 DEF SetScore
<1>5. Acts(s, LeaveGame(s))
  BY <1>1, <1>2 DEF LeaveGame
<1>6. \A w : Acts(s, [s EXCEPT !.ws = w])
  BY <1>1, <1>2
<1>7. \A click : Acts(s, Mp_add_button(s, click))
  BY <1>1, <1>2 DEF Mp_add_button
<1> QED
  BY <1>3, <1>4, <1>5, <1>6, <1>7

\* A game is lost or tied and the other computer told.
LEMMA ResultActs ==
  ASSUME NEW s, MachineOK(s)
  PROVE  /\ Acts(s, Mp_end_game(Mp_send_winner(Mp_get_winner(s))))
         /\ \A w : Acts(s, Mp_send_winner(Mp_end_game([s EXCEPT !.ws = w])))
<1>1. ASSUME NEW t, MachineOK(t) PROVE Acts(t, Mp_send_winner(t))
  BY <1>1, SendActs, Messages DEF Mp_send_winner
<1>2. Acts(s, Mp_end_game(Mp_send_winner(Mp_get_winner(s))))
  <2>1. Acts(s, Mp_get_winner(s))
    BY WinnerActs
  <2>2. Acts(Mp_get_winner(s), Mp_send_winner(Mp_get_winner(s)))
    BY <1>1, <2>1 DEF Acts
  <2>3. Acts(Mp_send_winner(Mp_get_winner(s)), Mp_end_game(Mp_send_winner(Mp_get_winner(s))))
    BY <2>2, EndActs DEF Acts
  <2> QED
    BY <2>1, <2>2, <2>3, ActsTrans
<1>3. ASSUME NEW w PROVE Acts(s, Mp_send_winner(Mp_end_game([s EXCEPT !.ws = w])))
  <2> DEFINE a == [s EXCEPT !.ws = w]
  <2>1. Acts(s, a)
    BY WinnerActs
  <2> HIDE DEF a
  <2>2. Acts(a, Mp_end_game(a))
    BY <2>1, EndActs DEF Acts
  <2>3. Acts(Mp_end_game(a), Mp_send_winner(Mp_end_game(a)))
    BY <1>1, <2>2 DEF Acts
  <2>4. Acts(s, Mp_send_winner(Mp_end_game(a)))
    BY <2>1, <2>2, <2>3, ActsTrans
  <2> QED
    BY <2>4 DEF a
<1> QED
  BY <1>2, <1>3

-----------------------------------------------------------------------------
(* What a handler does to the turn                                         *)

\* mp_change_player is due only at once, and only of the player to move.
Calm(s) == \A i \in 1..Len(s.todo) : s.todo[i] # "change_player"
TodoOK(m, s) == \A i \in 1..Len(s.todo) : s.todo[i] = "change_player" => i = 1 /\ MyTurn(m, s)

TurnFields == Outgoing \cup GameFields \cup {"is_player_1", "todo", "game_started"}

\* No turn comes from nowhere: it is given up before it is sent.
Turns(m, s, t, n) ==
  /\ MachineOK(t) /\ TodoOK(m, t) /\ Differ(s, t, TurnFields)
  /\ s.game_started => t.game_started
  /\ Tokens(m, t) <= Tokens(m, s) + n

\* An act that leaves the turn alone, as a handler
LEMMA ActsTurns ==
  ASSUME NEW m, NEW s, NEW t, MachineOK(s), Calm(s), Acts(s, t), NEW n \in Nat
  PROVE  Turns(m, s, t, n)
<1>1. t.is_player_1 = s.is_player_1 /\ t.todo = s.todo /\ t.game_started = s.game_started
  BY DEF Acts, Differ, Outgoing, Registers, GameFields, Fields
<1>2. TodoOK(m, t)
  BY <1>1 DEF Calm, TodoOK
<1>3. Differ(s, t, TurnFields)
  BY DEF Acts, Differ, TurnFields
<1>4. One(MyTurn(m, t)) = One(MyTurn(m, s)) /\ One(MyTurn(m, s)) \in Nat
  BY <1>1 DEF MyTurn, One
<1>5. BytesHeld(s) \in Nat /\ BytesHeld(t) \in Nat
  BY TokensAreNat
<1>6. Tokens(m, t) <= Tokens(m, s) + n
  BY <1>4, <1>5 DEF Tokens, Acts
<1> QED
  BY <1>1, <1>2, <1>3, <1>6 DEF Acts, Turns

\* A handler that goes on to change the player has the turn.
LEMMA ThenTurns ==
  ASSUME NEW m, NEW s, NEW u, MachineOK(s), Calm(s), MyTurn(m, s), Acts(s, u), NEW n \in Nat
  PROVE  Turns(m, s, ThenChangePlayer(u), n)
<1> DEFINE t == ThenChangePlayer(u)
<1>1. u.is_player_1 = s.is_player_1 /\ u.todo = s.todo /\ u.game_started = s.game_started
  BY DEF Acts, Differ, Outgoing, Registers, GameFields, Fields
<1>2. Differ(u, t, {"todo"}) /\ t.todo = <<"change_player">> \o s.todo
  BY <1>1 DEF ThenChangePlayer, Acts, MachineOK, IsRecord, Differ, Fields
<1>3. s.todo \in Seq(TaskNames) /\ <<"change_player">> \in Seq(TaskNames)
  BY DEF MachineOK, TaskNames
<1>4. t.todo \in Seq(TaskNames)
  BY <1>2, <1>3
<1>5. MachineOK(t)
  BY <1>2, <1>4 DEF Acts, MachineOK, Differ, Fields
<1>6. t.is_player_1 = s.is_player_1 /\ t.game_started = s.game_started
  BY <1>1, <1>2 DEF Differ, Fields
<1>7. MyTurn(m, t)
  BY <1>6 DEF MyTurn
<1>8. TodoOK(m, t)
  <2> SUFFICES ASSUME NEW i \in 1..Len(t.todo), i # 1
               PROVE  t.todo[i] # "change_player"
    BY <1>7 DEF TodoOK
  <2>1. i - 1 \in 1..Len(s.todo) /\ t.todo[i] = s.todo[i - 1]
    BY <1>2, <1>3
  <2> QED
    BY <2>1 DEF Calm
<1>9. Differ(s, t, TurnFields)
  BY <1>2 DEF Acts, Differ, TurnFields
<1>10. Tokens(m, s) = 1 + BytesHeld(s) /\ Tokens(m, t) = 1 + BytesHeld(t)
  BY <1>7 DEF Tokens, One
<1>11. BytesHeld(t) = BytesHeld(u)
  <2>1. \A f \in {"queue", "thr", "tsr", "rbr", "data"} : t[f] = u[f]
    BY <1>2 DEF Differ, Fields
  <2> QED
    BY <2>1 DEF BytesHeld
<1>12. BytesHeld(s) \in Nat /\ BytesHeld(u) \in Nat
  BY TokensAreNat
<1>13. BytesHeld(u) <= BytesHeld(s)
  BY DEF Acts
<1> HIDE DEF t
<1>14. Tokens(m, t) <= Tokens(m, s) + n
  BY <1>10, <1>11, <1>12, <1>13
<1>15. Turns(m, s, t, n)
  BY <1>5, <1>6, <1>8, <1>9, <1>14 DEF Turns
<1> QED
  BY <1>15 DEF t

\* mp_click_button
LEMMA ClickOutcomes ==
  ASSUME NEW s, MachineOK(s), NEW click \in 0..5, NEW t \in Mp_click_button(s, click)
  PROVE  Acts(s, t) \/ \E u : Acts(s, u) /\ t = ThenChangePlayer(u)
<1>1. GREEN_REMOTE + click \in Nat \ TurnBytes
  BY Messages
<1>2. CASE Adding(s)
  <2> DEFINE a == SetScore(s)
             b == Mp_add_button(a, click)
             c == Mp_send_button(b, click)
  <2>1. t = IF s.guessed = s.max_buttons_size
            THEN Mp_send_winner(Mp_end_game([a EXCEPT !.ws = TIE]))
            ELSE AddOwn(a, click)
    BY <1>2 DEF Mp_click_button
  <2>2. Acts(s, a) /\ MachineOK(a)
    BY WinnerActs DEF Acts
  <2>3. Acts(a, b) /\ MachineOK(b)
    BY <2>2, WinnerActs DEF Acts
  <2>4. Acts(b, c) /\ MachineOK(c)
    BY <1>1, <2>3, SendActs DEF Acts, Mp_send_button
  <2>5. Acts(s, c)
    BY <2>2, <2>3, <2>4, ActsTrans
  <2>6. Acts(s, Mp_send_winner(Mp_end_game([a EXCEPT !.ws = TIE])))
    BY <2>2, ResultActs, ActsTrans
  <2>7. AddOwn(a, click) =
          IF a.is_vs_round /\ a.VS_was_pressed THEN c
          ELSE IF a.is_vs_round /\ click = VS_B
          THEN [c EXCEPT !.VS_was_pressed = TRUE, !.time_left_for_click = VS_INTERVAL,
                         !.opened_VS = TRUE]
          ELSE ThenChangePlayer(c)
    BY DEF AddOwn
  <2> HIDE DEF a, b, c
  <2>8. Acts(s, [c EXCEPT !.VS_was_pressed = TRUE, !.time_left_for_click = VS_INTERVAL,
                          !.opened_VS = TRUE])
    <3> DEFINE d == [c EXCEPT !.VS_was_pressed = TRUE, !.time_left_for_click = VS_INTERVAL,
                              !.opened_VS = TRUE]
    <3>1. Differ(c, d, GameFields) /\ d.game_end = c.game_end
      BY <2>4 DEF MachineOK, IsRecord, Differ, GameFields, Fields
    <3>2. d.game_end \in BOOLEAN
      BY <2>4, <3>1 DEF MachineOK
    <3> HIDE DEF d
    <3>3. Acts(c, d)
      BY <2>4, <3>1, <3>2, GameActs
    <3>4. Acts(s, d)
      BY <2>5, <3>3, ActsTrans
    <3> QED
      BY <3>4 DEF d
  <2> QED
    BY <2>1, <2>5, <2>6, <2>7, <2>8
<1>3. CASE ~Adding(s)
  <2>1. t = Repeat(s, click) \/ t = Mp_end_game(Mp_send_winner(Mp_get_winner(s)))
    BY <1>3 DEF Mp_click_button
  <2> DEFINE c == Mp_send_button(s, click)
             d == Repeat(s, click)
  <2>2. Acts(s, c) /\ MachineOK(c)
    BY <1>1, SendActs DEF Acts, Mp_send_button
  <2>3. Differ(c, d, GameFields) /\ d.game_end = c.game_end
    <3>1. \E x, y : d = [c EXCEPT !.guessed = x, !.time_left_for_click = y]
      BY DEF Repeat
    <3> HIDE DEF c, d
    <3> QED
      BY <2>2, <3>1 DEF MachineOK, IsRecord, Differ, GameFields, Fields
  <2>4. d.game_end \in BOOLEAN
    BY <2>2, <2>3 DEF MachineOK
  <2>5. Acts(s, d)
    BY <2>2, <2>3, <2>4, GameActs, ActsTrans
  <2> QED
    BY <2>1, <2>5, ResultActs
<1> QED
  BY <1>2, <1>3

\* mp_remote_click_button
LEMMA RemoteActs ==
  ASSUME NEW s, MachineOK(s), NEW click, NEW t \in Mp_remote_click_button(s, click)
  PROVE  Acts(s, t)
<1> DEFINE a == SetScore(s)
           b == [a EXCEPT !.VS_was_pressed = @ \/ (s.is_vs_round /\ click = VS_B)]
           g == [s EXCEPT !.guessed = @ + 1]
<1>1. \/ t = Mp_end_game([a EXCEPT !.ws = TIE]) \/ t = Mp_add_button(b, click)
      \/ t = g \/ t = s
  BY DEF Mp_remote_click_button
<1>2. Acts(s, a) /\ MachineOK(a)
  BY WinnerActs DEF Acts
<1>3. Acts(s, Mp_end_game([a EXCEPT !.ws = TIE]))
  <2>1. Acts(a, [a EXCEPT !.ws = TIE])
    BY <1>2, WinnerActs
  <2> QED
    BY <1>2, <2>1, EndActs, ActsTrans DEF Acts
<1>4. ASSUME NEW x, MachineOK(x), NEW f \in GameFields \ {"game_end"}, NEW v
      PROVE  Acts(x, [x EXCEPT ![f] = v])
  <2> DEFINE y == [x EXCEPT ![f] = v]
  <2>1. Differ(x, y, GameFields) /\ y.game_end = x.game_end
    BY <1>4 DEF MachineOK, IsRecord, Differ, GameFields, Fields
  <2>2. y.game_end \in BOOLEAN
    BY <1>4, <2>1 DEF MachineOK
  <2> HIDE DEF y
  <2>3. Acts(x, y)
    BY <1>4, <2>1, <2>2, GameActs
  <2> QED
    BY <2>3 DEF y
<1>5. {"VS_was_pressed", "guessed"} \subseteq GameFields \ {"game_end"}
  BY DEF GameFields
<1>6. Acts(s, g)
  BY <1>4, <1>5
<1>7. Acts(a, b) /\ MachineOK(b)
  <2>1. Acts(a, b)
    BY <1>2, <1>4, <1>5
  <2> QED
    BY <2>1 DEF Acts
<1> HIDE DEF a, b, g
<1>8. Acts(s, Mp_add_button(b, click))
  BY <1>2, <1>7, WinnerActs, ActsTrans
<1>9. Acts(s, s)
  <2>1. Differ(s, s, GameFields)
    BY DEF Differ, MachineOK
  <2> QED
    BY <2>1, GameActs DEF MachineOK
<1> QED
  BY <1>1, <1>3, <1>6, <1>8, <1>9

\* A change of player on this computer.
LEMMA Flips ==
  ASSUME NEW m \in Machines, NEW s, MachineOK(s)
  PROVE  LET t == PassTurn(s) IN
         /\ MachineOK(t) /\ Differ(s, t, {"is_player_1", "guessed"})
         /\ MyTurn(m, t) <=> ~MyTurn(m, s)
         /\ BytesHeld(t) = BytesHeld(s)
<1> DEFINE t == PassTurn(s)
<1>1. Differ(s, t, {"is_player_1", "guessed"}) /\ t.is_player_1 = ~s.is_player_1
  BY DEF PassTurn, MachineOK, IsRecord, Differ, Fields
<1>2. MachineOK(t)
  <2>1. t.is_player_1 \in BOOLEAN
    BY <1>1, Zenon
  <2> QED
    BY <1>1, <2>1 DEF MachineOK, Differ, Fields
<1>3. MyTurn(m, t) <=> ~MyTurn(m, s)
  <2>1. s.is_player_1 \in BOOLEAN
    BY DEF MachineOK
  <2>2. CASE m = "host"
    <3>1. (m = "host") = TRUE
      BY <2>2, Zenon
    <3> QED
      BY <1>1, <2>1, <3>1, Zenon DEF MyTurn
  <2>3. CASE m # "host"
    <3>1. (m = "host") = FALSE
      BY <2>3, Zenon
    <3> QED
      BY <1>1, <2>1, <3>1, Zenon DEF MyTurn
  <2> QED
    BY <2>2, <2>3
<1>4. BytesHeld(t) = BytesHeld(s)
  <2>1. \A f \in {"queue", "thr", "tsr", "rbr", "data"} : t[f] = s[f]
    BY <1>1 DEF Differ, Fields
  <2> QED
    BY <2>1 DEF BytesHeld
<1> QED
  BY <1>1, <1>2, <1>3, <1>4

\* A record after the turn has changed on this computer.
LEMMA FlipTurns ==
  ASSUME NEW m \in Machines, NEW s, NEW t, MachineOK(s), Calm(s), NEW n \in Nat,
         Differ(s, t, Outgoing \cup GameFields \cup {"is_player_1"}), MachineOK(t),
         MyTurn(m, t) <=> ~MyTurn(m, s),
         \/ MyTurn(m, s) /\ BytesHeld(t) <= BytesHeld(s) + 1
         \/ n = 1 /\ BytesHeld(t) <= BytesHeld(s)
  PROVE  Turns(m, s, t, n)
<1>1. t.todo = s.todo /\ t.game_started = s.game_started
  BY DEF Differ, Outgoing, Registers, GameFields, Fields
<1>2. TodoOK(m, t)
  BY <1>1 DEF Calm, TodoOK
<1>3. Differ(s, t, TurnFields)
  BY DEF Differ, TurnFields
<1>4. BytesHeld(s) \in Nat /\ BytesHeld(t) \in Nat
  BY TokensAreNat
<1>5. Tokens(m, t) <= Tokens(m, s) + n
  <2>1. CASE MyTurn(m, s)
    <3>1. Tokens(m, s) = 1 + BytesHeld(s) /\ Tokens(m, t) = 0 + BytesHeld(t)
      BY <2>1 DEF Tokens, One
    <3> QED
      BY <1>4, <3>1
  <2>2. CASE ~MyTurn(m, s)
    <3>1. Tokens(m, s) = 0 + BytesHeld(s) /\ Tokens(m, t) = 1 + BytesHeld(t)
      BY <2>2 DEF Tokens, One
    <3> QED
      BY <1>4, <2>2, <3>1
  <2> QED
    BY <2>1, <2>2
<1> QED
  BY <1>1, <1>2, <1>3, <1>5 DEF Turns

\* mp_change_player
LEMMA ChangeTurns ==
  ASSUME NEW m \in Machines, NEW s, MachineOK(s), Calm(s), MyTurn(m, s)
  PROVE  /\ Turns(m, s, Mp_change_player(m, s), 0)
         /\ Differ(s, Mp_change_player(m, s), Outgoing \cup GameFields \cup {"is_player_1"})
         /\ Mp_change_player(m, s).game_end = s.game_end
<1> DEFINE t == PassTurn(s)
           v == Mp_is_VS_round(t)
           r == Mp_change_player(m, s)
<1>1. /\ MachineOK(t) /\ Differ(s, t, {"is_player_1", "guessed"})
      /\ MyTurn(m, t) <=> ~MyTurn(m, s)
      /\ BytesHeld(t) = BytesHeld(s)
  BY Flips
<1> HIDE DEF t
<1>2. Differ(t, v, GameFields) /\ v.game_end = t.game_end
  BY <1>1 DEF Mp_is_VS_round, MachineOK, IsRecord, Differ, GameFields, Fields
<1>3. Acts(t, v)
  BY <1>1, <1>2, GameActs DEF MachineOK
<1>4. \E u : /\ u = t \/ u = v
             /\ \E byte \in TurnBytes : r = Send(u, byte)
  <2>1. r = IF m = "host" THEN Send(v, IF v.is_vs_round THEN IS_VS ELSE IS_NOT_VS)
            ELSE Send(t, READY)
    BY DEF Mp_change_player, t
  <2>2. IS_VS \in TurnBytes /\ IS_NOT_VS \in TurnBytes /\ READY \in TurnBytes
    BY DEF TurnBytes
  <2> HIDE DEF v, r
  <2> QED
    BY <2>1, <2>2
<1>5. PICK u : /\ u = t \/ u = v
               /\ \E byte \in TurnBytes : r = Send(u, byte)
  BY <1>4
<1>6. /\ MachineOK(u) /\ BytesHeld(u) <= BytesHeld(s)
      /\ Differ(s, u, GameFields \cup {"is_player_1"}) /\ u.game_end = s.game_end
      /\ u.is_player_1 = t.is_player_1
  <2>1. CASE u = t
    <3>1. "guessed" \in GameFields
      BY DEF GameFields
    <3>2. Differ(s, u, GameFields \cup {"is_player_1"})
      BY <1>1, <2>1, <3>1 DEF Differ
    <3>3. u.game_end = s.game_end
      BY <1>1, <2>1 DEF Differ, Fields
    <3>4. BytesHeld(s) \in Nat
      BY TokensAreNat
    <3> QED
      BY <1>1, <2>1, <3>2, <3>3, <3>4
  <2>2. CASE u = v
    <3>1. "guessed" \in GameFields
      BY DEF GameFields
    <3>2. Differ(s, u, GameFields \cup {"is_player_1"})
      BY <1>1, <1>2, <2>2, <3>1 DEF Differ
    <3>3. u.game_end = s.game_end
      BY <1>1, <1>2, <2>2 DEF Differ, Fields
    <3>4. u.is_player_1 = t.is_player_1
      BY <1>2, <2>2 DEF Differ, Fields, GameFields
    <3> QED
      BY <1>1, <1>3, <2>2, <3>2, <3>3, <3>4 DEF Acts
  <2> QED
    BY <1>5, <2>1, <2>2
<1>7. PICK byte \in TurnBytes : r = Send(u, byte)
  BY <1>5
<1>8. byte \in Nat /\ One(byte \in TurnBytes) = 1
  BY <1>7, Messages DEF One
<1>9. MachineOK(r) /\ Differ(u, r, Outgoing) /\ BytesHeld(r) <= BytesHeld(u) + 1
  BY <1>6, <1>7, <1>8, Sends
<1> HIDE DEF r
<1>10. BytesHeld(r) <= BytesHeld(s) + 1
  <2>1. BytesHeld(s) \in Nat /\ BytesHeld(u) \in Nat /\ BytesHeld(r) \in Nat
    BY TokensAreNat
  <2> QED
    BY <1>6, <1>9, <2>1
<1>11. Differ(s, r, Outgoing \cup GameFields \cup {"is_player_1"})
  BY <1>6, <1>9 DEF Differ
<1>12. MyTurn(m, r) <=> ~MyTurn(m, s)
  <2>1. r.is_player_1 = t.is_player_1
    BY <1>6, <1>9 DEF Differ, Outgoing, Registers, Fields
  <2> QED
    BY <1>1, <2>1 DEF MyTurn
<1>13. Turns(m, s, r, 0)
  BY <1>9, <1>10, <1>11, <1>12, FlipTurns
<1>14. r.game_end = s.game_end
  BY <1>6, <1>9 DEF Differ, Outgoing, Registers, Fields
<1> QED
  BY <1>11, <1>13, <1>14 DEF r

\* mp_game_update_status_key, _mouse and _rtc
LEMMA KeyTurns ==
  ASSUME NEW m, NEW s, MachineOK(s), Calm(s)
  PROVE  Turns(m, s, s, 0) /\ Turns(m, s, OnKey(s), 0)
<1>1. Acts(s, s)
  <2>1. Differ(s, s, GameFields)
    BY DEF Differ, MachineOK
  <2> QED
    BY <2>1, GameActs DEF MachineOK
<1>2. Acts(s, OnKey(s))
  BY <1>1, WinnerActs DEF OnKey
<1> QED
  BY <1>1, <1>2, ActsTurns

\* mp_game_update_status_mouse
LEMMA MouseTurns ==
  ASSUME NEW m, NEW s, MachineOK(s), Calm(s), NEW click \in 0..5, NEW t \in OnMouse(m, s, click)
  PROVE  Turns(m, s, t, 0)
<1>1. CASE TakesClicks(m, s)
  <2>1. MyTurn(m, s) /\ t \in Mp_click_button(s, click)
    BY <1>1 DEF OnMouse, TakesClicks
  <2> QED
    BY <2>1, ClickOutcomes, ActsTurns, ThenTurns
<1>2. CASE ~TakesClicks(m, s)
  BY <1>2, KeyTurns DEF OnMouse
<1> QED
  BY <1>1, <1>2

\* The player who leaves the winner screen.
Left(t) == IF t.game_end THEN LeaveGame([t EXCEPT !.alarm = "seconds"]) ELSE t

\* The way out of a finished game, when the clock ticks
LEMMA LeftActs == ASSUME NEW t, MachineOK(t) PROVE Acts(t, Left(t))
<1> DEFINE a == [t EXCEPT !.alarm = "seconds"]
<1>1. Differ(t, a, GameFields) /\ a.game_end = t.game_end
  BY DEF MachineOK, IsRecord, Differ, GameFields, Fields
<1>2. Acts(t, a) /\ MachineOK(a)
  BY <1>1, GameActs DEF MachineOK, Acts
<1> HIDE DEF a
<1>3. Acts(t, LeaveGame(a))
  BY <1>2, WinnerActs, ActsTrans
<1>4. Acts(t, t)
  <2>1. Differ(t, t, GameFields)
    BY DEF Differ, MachineOK
  <2> QED
    BY <2>1, GameActs DEF MachineOK
<1> QED
  BY <1>3, <1>4 DEF Left, a

\* mp_game_update_status_rtc
LEMMA RtcTurns ==
  ASSUME NEW m \in Machines, NEW s, MachineOK(s), Calm(s)
  PROVE  Turns(m, s, OnRtc(m, s), 0)
<1> DEFINE t == OnRtc(m, s)
           d == [s EXCEPT !.time_left_for_click = @ - 1]
<1>1. \/ t = Mp_end_game(Mp_send_winner(Mp_get_winner(s)))
      \/ MyTurn(m, s) /\ ~s.game_end /\ t = Left(Mp_change_player(m, s))
      \/ t = Left(d) \/ t = Left(s)
  BY DEF OnRtc, Left, CountsDown
<1>2. CASE t = Mp_end_game(Mp_send_winner(Mp_get_winner(s)))
  BY <1>2, ResultActs, ActsTurns
<1>3. CASE MyTurn(m, s) /\ ~s.game_end /\ t = Left(Mp_change_player(m, s))
  <2>1. Turns(m, s, Mp_change_player(m, s), 0) /\ Mp_change_player(m, s).game_end = s.game_end
    BY <1>3, ChangeTurns
  <2>2. t = Mp_change_player(m, s)
    BY <1>3, <2>1 DEF Left
  <2> QED
    BY <2>1, <2>2
<1>4. CASE t = Left(d)
  <2>1. Differ(s, d, GameFields) /\ d.game_end = s.game_end
    BY DEF MachineOK, IsRecord, Differ, GameFields, Fields
  <2>2. d.game_end \in BOOLEAN
    BY <2>1 DEF MachineOK
  <2>3. Acts(s, d) /\ MachineOK(d)
    BY <2>1, <2>2, GameActs DEF Acts
  <2> HIDE DEF d
  <2>4. Acts(s, Left(d))
    BY <2>3, LeftActs, ActsTrans
  <2> QED
    BY <1>4, <2>4, ActsTurns
<1>5. CASE t = Left(s)
  BY <1>5, LeftActs, ActsTurns
<1> QED
  BY <1>1, <1>2, <1>3, <1>4, <1>5

\* play_game and mp_game_update_status_uart, once the game has started: a byte that
\* brings the turn makes one token of another.
LEMMA PlayTurns ==
  ASSUME NEW m \in Machines, NEW s, MachineOK(s), Calm(s), NEW data \in Int,
         NEW t \in Play_game(m, s, data)
  PROVE  Turns(m, s, t, One(data \in TurnBytes))
<1>0. One(data \in TurnBytes) \in Nat
  BY DEF One
<1>1. \/ data \in 3..8 /\ t \in Mp_buttons_handler(m, s, data - 3)
      \/ data \in TurnBytes /\ \E vs : t = BeginTurn(s, vs)
      \/ \E w : t = Mp_end_game([s EXCEPT !.ws = w])
      \/ t = s
  <2>1. \/ data \in GREEN_REMOTE..WHITE_REMOTE /\ t \in Mp_buttons_handler(m, s, data - GREEN_REMOTE)
        \/ data = IS_VS /\ t = BeginTurn(s, TRUE)
        \/ data = IS_NOT_VS /\ t = BeginTurn(s, FALSE)
        \/ data = READY /\ t = BeginTurn(s, Mp_is_VS_round(s).is_vs_round)
        \/ t = Mp_end_game([s EXCEPT !.ws = IF m = "host" THEN WINNER1 ELSE WINNER2])
        \/ t = Mp_end_game([s EXCEPT !.ws = TIE])
        \/ t = s
    BY DEF Play_game
  <2>2. GREEN_REMOTE = 3
    BY DEF GREEN_REMOTE
  <2> QED
    BY <2>1, <2>2, Messages, Zenon DEF TurnBytes
<1>2. CASE data \in 3..8 /\ t \in Mp_buttons_handler(m, s, data - 3)
  <2>1. data - 3 \in 0..5
    BY <1>2
  <2>2. CASE MyTurn(m, s)
    <3>1. t \in Mp_click_button(s, data - 3)
      BY <1>2, <2>2 DEF Mp_buttons_handler
    <3> QED
      BY <1>0, <2>1, <2>2, <3>1, ClickOutcomes, ActsTurns, ThenTurns
  <2>3. CASE ~MyTurn(m, s)
    <3>1. t \in Mp_remote_click_button(s, data - 3)
      BY <1>2, <2>3 DEF Mp_buttons_handler
    <3> QED
      BY <1>0, <3>1, RemoteActs, ActsTurns
  <2> QED
    BY <2>2, <2>3
<1>3. CASE data \in TurnBytes /\ \E vs : t = BeginTurn(s, vs)
  <2>1. PICK vs : t = BeginTurn(s, vs)
    BY <1>3
  <2> DEFINE p == PassTurn(s)
  <2>2. /\ MachineOK(p) /\ Differ(s, p, {"is_player_1", "guessed"})
        /\ MyTurn(m, p) <=> ~MyTurn(m, s)
        /\ BytesHeld(p) = BytesHeld(s)
    BY Flips
  <2>3. t = [p EXCEPT !.is_vs_round = vs, !.VS_was_pressed = FALSE, !.time_left_for_click = INTERVAL]
    BY <2>1 DEF BeginTurn
  <2> HIDE DEF p
  <2>4. Differ(p, t, GameFields) /\ t.game_end = p.game_end /\ t.is_player_1 = p.is_player_1
    BY <2>2, <2>3 DEF MachineOK, IsRecord, Differ, GameFields, Fields
  <2>5. Acts(p, t)
    BY <2>2, <2>4, GameActs DEF MachineOK
  <2>6. MachineOK(t) /\ BytesHeld(t) <= BytesHeld(s)
    BY <2>2, <2>5 DEF Acts
  <2>7. Differ(s, t, Outgoing \cup GameFields \cup {"is_player_1"})
    <3>1. "guessed" \in GameFields
      BY DEF GameFields
    <3> QED
      BY <2>2, <2>4, <3>1 DEF Differ
  <2>8. MyTurn(m, t) <=> ~MyTurn(m, s)
    BY <2>2, <2>4 DEF MyTurn
  <2>9. One(data \in TurnBytes) = 1
    BY <1>3 DEF One
  <2> QED
    BY <2>6, <2>7, <2>8, <2>9, FlipTurns
<1>4. CASE \E w : t = Mp_end_game([s EXCEPT !.ws = w])
  <2>1. PICK w : t = Mp_end_game([s EXCEPT !.ws = w])
    BY <1>4
  <2>2. Acts(s, [s EXCEPT !.ws = w])
    BY WinnerActs
  <2>3. Acts(s, t)
    BY <2>1, <2>2, EndActs, ActsTrans DEF Acts
  <2> QED
    BY <1>0, <2>3, ActsTurns
<1>5. CASE t = s
  <2>1. Acts(s, s)
    <3>1. Differ(s, s, GameFields)
      BY DEF Differ, MachineOK
    <3> QED
      BY <3>1, GameActs DEF MachineOK
  <2> QED
    BY <1>0, <1>5, <2>1, ActsTurns
<1> QED
  BY <1>1, <1>2, <1>3, <1>4, <1>5

\* mp_game_update_status_uart, once the handshake is over
LEMMA UartTurns ==
  ASSUME NEW m \in Machines, NEW s, MachineOK(s), Calm(s), NEW data \in Int,
         m = "client" => s.game_started,
         m = "host" => s.num_round_sent_bytes = 2,
         NEW t \in OnUart(m, s, data)
  PROVE  Turns(m, s, t, One(data \in TurnBytes))
<1>0. One(data \in TurnBytes) \in Nat
  BY DEF One
<1>1. CASE ~s.game_started
  <2>0. m = "host"
    BY <1>1 DEF Machines
  <2>1. t = HostStart(s, data) \/ t = HostStart(s, CONNECTED)
    <3>1. CASE data >= 0
      BY <1>1, <2>0, <3>1 DEF OnUart
    <3>2. CASE data < 0
      <4>1. ~(data >= 0)
        BY <3>2
      <4> QED
        BY <1>1, <2>0, <3>2, <4>1 DEF OnUart
    <3> QED
      BY <3>1, <3>2
  <2>2. ~MoreBytes(s)
    BY <2>0 DEF MoreBytes
  <2>3. PICK x : t = [s EXCEPT !.game_started = @ \/ x = ACK]
    BY <2>1, <2>2 DEF HostStart
  <2>4. Differ(s, t, {"game_started"}) /\ t.game_started = (s.game_started \/ x = ACK)
    BY <2>3 DEF MachineOK, IsRecord, Differ, Fields
  <2>5. t.game_started \in BOOLEAN
    BY <2>4, Zenon
  <2>6. MachineOK(t)
    BY <2>4, <2>5 DEF MachineOK, Differ, Fields
  <2>7. t.todo = s.todo /\ \A f \in {"queue", "thr", "tsr", "rbr", "data", "is_player_1"} : t[f] = s[f]
    BY <2>4 DEF Differ, Fields
  <2>8. Tokens(m, t) = Tokens(m, s) /\ Tokens(m, s) \in Nat
    BY <2>7, TokensAreNat DEF Tokens, BytesHeld, MyTurn
  <2>9. TodoOK(m, t)
    BY <2>7 DEF Calm, TodoOK
  <2>10. Differ(s, t, TurnFields)
    BY <2>4 DEF Differ, TurnFields
  <2> QED
    BY <1>0, <1>1, <2>6, <2>8, <2>9, <2>10 DEF Turns
<1>2. CASE s.game_started /\ data >= 0
  BY <1>2, PlayTurns DEF OnUart
<1>3. CASE s.game_started /\ ~(data >= 0)
  <2>1. t = IF s.queue # << >> THEN Uart_ready(s) ELSE s
    BY <1>3 DEF OnUart
  <2>2. CASE s.queue # << >>
    <3>1. Acts(s, t)
      BY <2>1, <2>2, QueueEmpties DEF Acts, Differ
    <3> QED
      BY <1>0, <3>1, ActsTurns
  <2>3. CASE s.queue = << >>
    <3>1. Acts(s, s)
      <4>1. Differ(s, s, GameFields)
        BY DEF Differ, MachineOK
      <4> QED
        BY <4>1, GameActs DEF MachineOK
    <3> QED
      BY <1>0, <2>1, <2>3, <3>1, ActsTurns
  <2> QED
    BY <2>2, <2>3
<1> QED
  BY <1>1, <1>2, <1>3 DEF MachineOK

-----------------------------------------------------------------------------
(* Steps of the two computers                                              *)

PcOK ==
  /\ DOMAIN pc = Machines /\ pc = [m \in Machines |-> pc[m]]
  /\ \A m \in Machines : MachineOK(pc[m]) /\ TodoOK(m, pc[m])

\* A step of one computer leaves the other one alone.
LEMMA Replaced ==
  ASSUME PcOK, NEW m \in Machines, NEW t, pc' = [pc EXCEPT ![m] = t], MachineOK(t), TodoOK(m, t)
  PROVE  /\ pc'[m] = t /\ PcOK'
         /\ \A o \in Machines : o # m => pc'[o] = pc[o]
<1>1. /\ pc'[m] = t /\ DOMAIN pc' = Machines /\ pc' = [o \in Machines |-> pc'[o]]
      /\ \A o \in Machines : o # m => pc'[o] = pc[o]
  BY DEF PcOK
<1>2. \A o \in Machines : MachineOK(pc'[o]) /\ TodoOK(o, pc'[o])
  BY <1>1 DEF PcOK
<1> QED
  BY <1>1, <1>2 DEF PcOK

\* The next handler of the notification is taken from the list.
LEMMA Pops ==
  ASSUME PcOK, NEW m \in Machines, pc[m].todo # << >>
  PROVE  LET s == pc[m]
             p == Popped(m) IN
         /\ MachineOK(p) /\ Calm(p) /\ Differ(s, p, {"todo"}) /\ Tokens(m, p) = Tokens(m, s)
         /\ Head(s.todo) = "change_player" => MyTurn(m, p)
         /\ p.todo = Tail(s.todo)
<1> DEFINE s == pc[m]
           p == Popped(m)
<1>0. MachineOK(s) /\ TodoOK(m, s)
  BY DEF PcOK
<1>1. p = [s EXCEPT !.todo = Tail(s.todo)]
  BY DEF Popped
<1>2. s.todo \in Seq(TaskNames) /\ s.todo # << >>
  BY <1>0 DEF MachineOK
<1> HIDE DEF s, p
<1>3. Differ(s, p, {"todo"}) /\ p.todo = Tail(s.todo)
  BY <1>0, <1>1 DEF MachineOK, IsRecord, Differ, Fields
<1>4. /\ p.todo \in Seq(TaskNames) /\ Len(p.todo) = Len(s.todo) - 1 /\ Len(s.todo) \in Nat \ {0}
      /\ \A i \in 1..Len(p.todo) : p.todo[i] = s.todo[i + 1]
  BY <1>2, <1>3, HeadTailProperties, EmptySeq, LenProperties
<1>5. MachineOK(p)
  BY <1>0, <1>3, <1>4 DEF MachineOK, Differ, Fields
<1>6. Calm(p)
  <2> SUFFICES ASSUME NEW i \in 1..Len(p.todo) PROVE p.todo[i] # "change_player"
    BY DEF Calm
  <2>1. i + 1 \in 1..Len(s.todo) /\ i + 1 # 1
    BY <1>4
  <2> QED
    BY <1>0, <1>4, <2>1 DEF TodoOK
<1>7. \A f \in {"queue", "thr", "tsr", "rbr", "data", "is_player_1"} : p[f] = s[f]
  BY <1>3 DEF Differ, Fields
<1>8. Tokens(m, p) = Tokens(m, s)
  BY <1>7 DEF Tokens, BytesHeld, MyTurn
<1>9. Head(s.todo) = "change_player" => MyTurn(m, p)
  <2>1. 1 \in 1..Len(s.todo) /\ Head(s.todo) = s.todo[1]
    BY <1>2, <1>4
  <2> QED
    BY <1>0, <1>7, <2>1 DEF TodoOK, MyTurn
<1> QED
  BY <1>3, <1>5, <1>6, <1>8, <1>9 DEF s, p

\* What uart_handler read is used once.
LEMMA Consumes ==
  ASSUME NEW m, NEW s, MachineOK(s), Calm(s)
  PROVE  LET p == [s EXCEPT !.data = -1] IN
         /\ MachineOK(p) /\ Calm(p) /\ Differ(s, p, {"data"}) /\ p.data = -1
         /\ Tokens(m, s) = Tokens(m, p) + One(s.data \in TurnBytes)
<1> DEFINE p == [s EXCEPT !.data = -1]
<1>1. Differ(s, p, {"data"}) /\ p.data = -1
  BY DEF MachineOK, IsRecord, Differ, Fields
<1>2. \A f \in {"queue", "thr", "tsr", "rbr", "todo", "is_player_1"} : p[f] = s[f]
  BY <1>1 DEF Differ, Fields
<1> HIDE DEF p
<1>3. MachineOK(p) /\ Calm(p)
  BY <1>1, <1>2 DEF MachineOK, Calm, Differ, Fields
<1>4. ~(-1 \in TurnBytes)
  BY Messages
<1>5. BytesHeld(s) = BytesHeld(p) + One(s.data \in TurnBytes)
  BY <1>1, <1>2, <1>4 DEF BytesHeld, One
<1>6. One(MyTurn(m, p)) = One(MyTurn(m, s)) /\ One(MyTurn(m, p)) \in Nat
  BY <1>2 DEF MyTurn, One
<1>7. BytesHeld(p) \in Nat /\ One(s.data \in TurnBytes) \in Nat
  BY TokensAreNat DEF One
<1>8. Tokens(m, s) = Tokens(m, p) + One(s.data \in TurnBytes)
  BY <1>5, <1>6, <1>7 DEF Tokens
<1> QED
  BY <1>1, <1>3, <1>8 DEF p

\* The record of m becomes t, which has no turn from nowhere.
Continues(m, t) ==
  /\ pc' = [pc EXCEPT ![m] = t] /\ MachineOK(t) /\ TodoOK(m, t)
  /\ Tokens(m, t) <= Tokens(m, pc[m])
  /\ pc[m].game_started => t.game_started
  /\ t.sessions = pc[m].sessions
  /\ t.num_round_sent_bytes = pc[m].num_round_sent_bytes

\* Every handler
LEMMA HandlerTurns ==
  ASSUME PcOK, NEW m \in Machines, HandlerStep(m),
         m = "client" => pc[m].game_started,
         m = "host" => pc[m].num_round_sent_bytes = 2
  PROVE  \E t : Continues(m, t)
<1> DEFINE s == pc[m]
           p == Popped(m)
           q == [p EXCEPT !.data = -1]
<1>1. s.todo # << >>
  BY DEF HandlerStep, KeyStep, MouseStep, RtcStep, UartStep, ChangePlayerStep, Runs
<1>2. /\ MachineOK(p) /\ Calm(p) /\ Differ(s, p, {"todo"}) /\ Tokens(m, p) = Tokens(m, s)
      /\ Head(s.todo) = "change_player" => MyTurn(m, p)
  BY <1>1, Pops
<1>3. \A f \in {"data", "game_started", "num_round_sent_bytes", "sessions"} : p[f] = s[f]
  BY <1>2 DEF Differ, Fields
<1>4. ASSUME NEW t, pc' = [pc EXCEPT ![m] = t], Turns(m, p, t, 0)
      PROVE  Continues(m, t)
  <2>1. t.sessions = p.sessions /\ t.num_round_sent_bytes = p.num_round_sent_bytes
    BY <1>4 DEF Turns, Differ, TurnFields, Outgoing, Registers, GameFields, Fields
  <2>2. Tokens(m, t) <= Tokens(m, s)
    BY <1>2, <1>4, TokensAreNat DEF Turns
  <2> QED
    BY <1>3, <1>4, <2>1, <2>2 DEF Turns, Continues
<1>5. CASE KeyStep(m)
  <2>1. pc' = [pc EXCEPT ![m] = OnKey(p)]
    BY <1>5 DEF KeyStep, Becomes
  <2> QED
    BY <1>2, <1>4, <2>1, KeyTurns
<1>6. CASE MouseStep(m)
  <2>1. CASE pc' = [pc EXCEPT ![m] = p]
    BY <1>2, <1>4, <2>1, KeyTurns
  <2>2. CASE \E click \in Buttons : \E t \in OnMouse(m, p, click) : pc' = [pc EXCEPT ![m] = t]
    <3>1. PICK click \in Buttons : \E t \in OnMouse(m, p, click) : pc' = [pc EXCEPT ![m] = t]
      BY <2>2
    <3>2. PICK t \in OnMouse(m, p, click) : pc' = [pc EXCEPT ![m] = t]
      BY <3>1
    <3>3. click \in 0..5
      BY ColoursAssumption DEF Buttons, VS_B
    <3> QED
      BY <1>2, <1>4, <3>2, <3>3, MouseTurns
  <2> QED
    BY <1>6, <2>1, <2>2 DEF MouseStep, Becomes
<1>7. CASE RtcStep(m)
  <2>1. pc' = [pc EXCEPT ![m] = OnRtc(m, p)]
    BY <1>7 DEF RtcStep, Becomes
  <2> QED
    BY <1>2, <1>4, <2>1, RtcTurns
<1>8. CASE ChangePlayerStep(m)
  <2>1. pc' = [pc EXCEPT ![m] = Mp_change_player(m, p)] /\ MyTurn(m, p)
    BY <1>2, <1>8 DEF ChangePlayerStep, Becomes, Runs
  <2> QED
    BY <1>2, <1>4, <2>1, ChangeTurns
<1>9. CASE UartStep(m)
  <2>1. PICK t \in OnUart(m, q, s.data) : pc' = [pc EXCEPT ![m] = t]
    BY <1>9 DEF UartStep, Becomes
  <2>2. /\ MachineOK(q) /\ Calm(q) /\ Differ(p, q, {"data"})
        /\ Tokens(m, p) = Tokens(m, q) + One(p.data \in TurnBytes)
    BY <1>2, Consumes
  <2>3. \A f \in {"game_started", "num_round_sent_bytes", "sessions"} : q[f] = s[f]
    BY <1>3, <2>2 DEF Differ, Fields
  <2>4. s.data \in Int
    BY DEF PcOK, MachineOK
  <2> HIDE DEF q
  <2>5. Turns(m, q, t, One(s.data \in TurnBytes))
    BY <2>1, <2>2, <2>3, <2>4, UartTurns
  <2>6. t.sessions = q.sessions /\ t.num_round_sent_bytes = q.num_round_sent_bytes
    BY <2>5 DEF Turns, Differ, TurnFields, Outgoing, Registers, GameFields, Fields
  <2>7. Tokens(m, t) <= Tokens(m, s)
    <3>1. p.data = s.data
      BY <1>3
    <3> QED
      BY <1>2, <2>2, <2>5, <3>1 DEF Turns
  <2> QED
    BY <2>1, <2>3, <2>5, <2>6, <2>7 DEF Turns, Continues
<1> QED
  BY <1>5, <1>6, <1>7, <1>8, <1>9 DEF HandlerStep

\* A notification lists the handlers of its interrupts and reads the UART.
LEMMA TasksCalm ==
  ASSUME NEW hs
  PROVE  /\ Tasks(hs) \in Seq(TaskNames)
         /\ \A i \in 1..Len(Tasks(hs)) : Tasks(hs)[i] # "change_player"
<1> DEFINE S == {"key", "mouse", "rtc", "uart"}
<1>1. ASSUME NEW h \in S PROVE Task(h, hs) \in Seq(S)
  <2> HIDE DEF S
  <2>1. <<h>> \in Seq(S) /\ << >> \in Seq(S)
    OBVIOUS
  <2> QED
    BY <2>1 DEF Task
<1>2. Tasks(hs) \in Seq(S)
  BY <1>1 DEF Tasks
<1>3. \A i \in 1..Len(Tasks(hs)) : Tasks(hs)[i] \in S
  BY <1>2
<1>4. Tasks(hs) \in Seq(TaskNames)
  BY <1>2 DEF TaskNames
<1> QED
  BY <1>3, <1>4

Reads(s, t) ==
  /\ MachineOK(t) /\ Calm(t) /\ Differ(s, t, {"rbr", "thre", "todo", "data"})
  /\ \/ t.rbr = s.rbr /\ t.data = s.data
     \/ t.rbr = << >> /\ t.data = s.data
     \/ t.rbr = << >> /\ t.data = -1
     \/ s.rbr # << >> /\ t.rbr = << >> /\ t.data = s.rbr[1]
  /\ s.mode # "MP_GAME" => t.todo = << >>

\* uart_handler
LEMMA UartReads ==
  ASSUME NEW s, MachineOK(s)
  PROVE  /\ MachineOK(UartRead(s)) /\ Differ(s, UartRead(s), {"rbr", "thre"})
         /\ UartRead(s).rbr = << >>
         /\ UartCause(s) = -1 \/ (s.rbr # << >> /\ UartCause(s) = s.rbr[1])
         /\ UartCause(s) \in Int
<1> DEFINE t == UartRead(s)
<1>1. Differ(s, t, {"rbr", "thre"}) /\ t.rbr = << >>
  BY DEF UartRead, MachineOK, IsRecord, Differ, Fields
<1>2. MachineOK(t)
  BY <1>1 DEF MachineOK, Differ, Fields, Slot
<1>3. UartCause(s) = -1 \/ (s.rbr # << >> /\ UartCause(s) = s.rbr[1])
  BY DEF UartCause
<1>4. s.rbr # << >> => s.rbr[1] \in Int
  BY DEF MachineOK, Slot
<1> QED
  BY <1>1, <1>2, <1>3, <1>4

\* A notification reads a byte or not.
LEMMA NotifyReads ==
  ASSUME PcOK, NEW m \in Machines,
         (\E hs \in Notifications : Notify(m, hs)) \/ IgnoreUart(m)
  PROVE  \E t : pc' = [pc EXCEPT ![m] = t] /\ Reads(pc[m], t)
<1> DEFINE s == pc[m]
           r == UartRead(s)
<1>0. MachineOK(s)
  BY DEF PcOK
<1>1. /\ MachineOK(r) /\ Differ(s, r, {"rbr", "thre"}) /\ r.rbr = << >>
      /\ UartCause(s) = -1 \/ (s.rbr # << >> /\ UartCause(s) = s.rbr[1])
      /\ UartCause(s) \in Int
  BY <1>0, UartReads
<1>2. CASE IgnoreUart(m)
  <2>1. pc' = [pc EXCEPT ![m] = r] /\ s.todo = << >>
    BY <1>2 DEF IgnoreUart
  <2>2. r.todo = << >> /\ r.data = s.data
    BY <1>1, <2>1 DEF Differ, Fields
  <2>3. Differ(s, r, {"rbr", "thre", "todo", "data"}) /\ Calm(r)
    BY <1>1, <2>2 DEF Differ, Calm
  <2> QED
    BY <1>1, <2>1, <2>2, <2>3 DEF Reads
<1>3. CASE \E hs \in Notifications : Notify(m, hs)
  <2>1. PICK hs \in Notifications : Notify(m, hs)
    BY <1>3
  <2>0. s.mode = "MP_GAME"
    BY <2>1 DEF Notify
  <2>2. CASE "uart" \in hs
    <3> DEFINE t == [r EXCEPT !.todo = Tasks(hs), !.data = UartCause(s)]
    <3>1. pc' = [pc EXCEPT ![m] = t]
      BY <2>1, <2>2 DEF Notify
    <3> HIDE DEF r
    <3>2. /\ Differ(r, t, {"todo", "data"}) /\ t.todo = Tasks(hs) /\ t.data = UartCause(s)
      BY <1>1 DEF MachineOK, IsRecord, Differ, Fields
    <3> HIDE DEF t
    <3>3. MachineOK(t) /\ Calm(t)
      BY <1>1, <3>2, TasksCalm DEF MachineOK, Differ, Fields, Calm
    <3>4. Differ(s, t, {"rbr", "thre", "todo", "data"}) /\ t.rbr = << >>
      BY <1>1, <3>2 DEF Differ, Fields
    <3> QED
      BY <1>1, <2>0, <3>1, <3>2, <3>3, <3>4 DEF Reads
  <2>3. CASE "uart" \notin hs
    <3> DEFINE t == [s EXCEPT !.todo = Tasks(hs)]
    <3>1. pc' = [pc EXCEPT ![m] = t]
      BY <2>1, <2>3 DEF Notify
    <3> HIDE DEF s
    <3>2. /\ Differ(s, t, {"todo"}) /\ t.todo = Tasks(hs)
      BY <1>0 DEF MachineOK, IsRecord, Differ, Fields
    <3> HIDE DEF t
    <3>3. MachineOK(t) /\ Calm(t)
      BY <1>0, <3>2, TasksCalm DEF MachineOK, Differ, Fields, Calm
    <3>4. /\ Differ(s, t, {"rbr", "thre", "todo", "data"})
          /\ t.rbr = s.rbr /\ t.data = s.data
      BY <3>2 DEF Differ, Fields
    <3> QED
      BY <2>0, <3>1, <3>3, <3>4 DEF Reads, s
  <2> QED
    BY <2>2, <2>3
<1> QED
  BY <1>2, <1>3

\* Reading a byte keeps the turn it brings, or drops it.
LEMMA ReadsTokens ==
  ASSUME NEW m, NEW s, MachineOK(s), NEW t, Reads(s, t)
  PROVE  Tokens(m, t) <= Tokens(m, s) /\ TodoOK(m, t)
<1>1. \A f \in {"queue", "thr", "tsr", "is_player_1"} : t[f] = s[f]
  BY DEF Reads, Differ, Fields
<1>2. ~(-1 \in TurnBytes)
  BY Messages
<1>3. BytesHeld(t) <= BytesHeld(s)
  BY <1>1, <1>2 DEF BytesHeld, Holds, One, Reads
<1>4. One(MyTurn(m, t)) = One(MyTurn(m, s)) /\ One(MyTurn(m, s)) \in Nat
  BY <1>1 DEF MyTurn, One
<1>5. Tokens(m, t) <= Tokens(m, s)
  BY <1>3, <1>4, TokensAreNat DEF Tokens
<1>6. TodoOK(m, t)
  BY DEF Reads, Calm, TodoOK
<1> QED
  BY <1>5, <1>6

\* The line moves a byte from one computer to the other.
LEMMA Delivers ==
  ASSUME PcOK, NEW m \in Machines, Deliver(m)
  PROVE  /\ PcOK'
         /\ Differ(pc[m], pc'[m], Registers) /\ pc'[m].tsr = pc[m].thr /\ pc'[m].thr = << >>
         /\ Differ(pc[Other(m)], pc'[Other(m)], {"rbr"}) /\ pc'[Other(m)].rbr = pc[m].tsr
         /\ pc[Other(m)].rbr = << >> /\ pc[m].tsr # << >>
<1> DEFINE o == Other(m)
           s == pc[m]
           r == pc[o]
           t == [s EXCEPT !.tsr = s.thr, !.thr = << >>, !.thre = @ \/ s.thr # << >>]
           u == [r EXCEPT !.rbr = s.tsr]
<1>1. o \in Machines /\ o # m /\ \A x \in Machines : x = m \/ x = o
  BY DEF Other, Machines
<1>2. MachineOK(s) /\ MachineOK(r) /\ TodoOK(m, s) /\ TodoOK(o, r)
  BY <1>1 DEF PcOK
<1>3. s.tsr # << >> /\ r.rbr = << >>
  BY DEF Deliver
<1>4. pc' = [pc EXCEPT ![m] = t, ![o].rbr = s.tsr]
  BY DEF Deliver
<1>5. /\ DOMAIN pc' = Machines /\ pc' = [x \in Machines |-> pc'[x]]
      /\ pc'[m] = t /\ pc'[o] = u
  BY <1>1, <1>4 DEF PcOK
<1> HIDE DEF s, r, o
<1>6. Differ(s, t, Registers) /\ t.tsr = s.thr /\ t.thr = << >>
  BY <1>2 DEF MachineOK, IsRecord, Differ, Registers, Fields
<1>7. Differ(r, u, {"rbr"}) /\ u.rbr = s.tsr
  BY <1>2 DEF MachineOK, IsRecord, Differ, Fields
<1> HIDE DEF t, u
<1>8. MachineOK(t) /\ TodoOK(m, t)
  <2>1. t.todo = s.todo /\ t.is_player_1 = s.is_player_1
    BY <1>6 DEF Differ, Registers, Fields
  <2>2. TodoOK(m, t)
    BY <1>2, <2>1 DEF TodoOK, MyTurn
  <2>3. MachineOK(t)
    BY <1>2, <1>6 DEF MachineOK, Differ, Registers, Fields, Slot
  <2> QED
    BY <2>2, <2>3
<1>9. MachineOK(u) /\ TodoOK(o, u)
  <2>1. u.todo = r.todo /\ u.is_player_1 = r.is_player_1
    BY <1>7 DEF Differ, Fields
  <2>2. TodoOK(o, u)
    BY <1>2, <2>1 DEF TodoOK, MyTurn
  <2>3. MachineOK(u)
    BY <1>2, <1>7 DEF MachineOK, Differ, Fields
  <2> QED
    BY <2>2, <2>3
<1>10. PcOK'
  BY <1>1, <1>5, <1>8, <1>9 DEF PcOK
<1> QED
  BY <1>3, <1>5, <1>6, <1>7, <1>10 DEF s, r, o

\* The line neither makes nor loses a turn.
LEMMA DeliverTokens ==
  ASSUME PcOK, NEW m \in Machines, Deliver(m)
  PROVE  Tokens(m, pc'[m]) + Tokens(Other(m), pc'[Other(m)])
           = Tokens(m, pc[m]) + Tokens(Other(m), pc[Other(m)])
<1> DEFINE o == Other(m)
           s == pc[m]
           r == pc[o]
           t == pc'[m]
           u == pc'[o]
<1>1. /\ Differ(s, t, Registers) /\ t.tsr = s.thr /\ t.thr = << >>
      /\ Differ(r, u, {"rbr"}) /\ u.rbr = s.tsr /\ r.rbr = << >>
  BY Delivers
<1> HIDE DEF o, s, r, t, u
<1>2. \A f \in {"queue", "rbr", "data", "is_player_1"} : t[f] = s[f]
  BY <1>1 DEF Differ, Registers, Fields
<1>3. \A f \in {"queue", "thr", "tsr", "data", "is_player_1"} : u[f] = r[f]
  BY <1>1 DEF Differ, Fields
<1>4. BytesHeld(t) + One(Holds(s.tsr)) = BytesHeld(s)
  BY <1>1, <1>2 DEF BytesHeld, Holds, One
<1>5. BytesHeld(u) = BytesHeld(r) + One(Holds(s.tsr))
  BY <1>1, <1>3 DEF BytesHeld, Holds, One
<1>6. /\ One(MyTurn(m, t)) = One(MyTurn(m, s)) /\ One(MyTurn(m, s)) \in Nat
      /\ One(MyTurn(o, u)) = One(MyTurn(o, r)) /\ One(MyTurn(o, r)) \in Nat
  BY <1>2, <1>3 DEF MyTurn, One
<1>7. /\ BytesHeld(s) \in Nat /\ BytesHeld(t) \in Nat /\ BytesHeld(r) \in Nat /\ BytesHeld(u) \in Nat
      /\ One(Holds(s.tsr)) \in Nat
  BY TokensAreNat DEF One
<1>8. Tokens(m, t) + Tokens(o, u) = Tokens(m, s) + Tokens(o, r)
  BY <1>4, <1>5, <1>6, <1>7 DEF Tokens
<1> QED
  BY <1>8 DEF o, s, r, t, u

-----------------------------------------------------------------------------
(* The handshake                                                           *)

Only(q, S) == q # << >> => q[1] \in S

\* What the client may say before its game has started: it is also out of time
\* if the clock ticks.
Early == {CONNECTED, LOSE}

\* The host before the client has started: it sends the number of rounds and
\* nothing else.
HostWaits(h) ==
  /\ ~h.game_started /\ h.queue = << >> /\ Calm(h)
  /\ Only(h.rbr, Early) /\ h.data \in Early \cup {-1}
  /\ h.num_round_sent_bytes <= 2 /\ h.sessions \in 0..1
  /\ h.sessions = 0 => h.mode # "MP_GAME" /\ h.todo = << >> /\ h.num_round_sent_bytes = 0
  /\ h.sessions = 1 => /\ h.mode = "MP_GAME" /\ h.is_player_1 /\ ~h.game_end
                       /\ h.time_left_for_click = -1

\* The client before it has started: player 2 to move is player 1 once the number
\* of rounds has come.
ClientWaits(c) ==
  /\ ~c.game_started /\ ~c.VS_was_pressed /\ Calm(c)
  /\ Only(c.queue, Early) /\ Only(c.thr, Early) /\ Only(c.tsr, Early)
  /\ c.received_no_bytes = 2 => c.is_player_1
  /\ c.sessions \in 0..1
  /\ c.sessions = 0 => c.mode # "MP_GAME" /\ c.todo = << >> /\ c.received_no_bytes = 0

\* Bytes of the number of rounds: on the host, and on the client.
Leaving(h) == One(h.thr # << >>) + One(h.tsr # << >>)
Arrived(c) == c.received_no_bytes + One(c.rbr # << >>) + One(c.data >= 0)

\* Until the client starts both wait for the bytes; since then there is one turn.
TurnInv ==
  LET h == pc["host"]
      c == pc["client"]
  IN  /\ ~c.game_started =>
           HostWaits(h) /\ ClientWaits(c) /\ Leaving(h) + Arrived(c) <= h.num_round_sent_bytes
      /\ c.game_started =>
           /\ h.num_round_sent_bytes = 2 /\ h.sessions = 1 /\ c.sessions = 1
           /\ Tokens("host", h) + Tokens("client", c) <= 1

\* What goes out is what was there or what is sent.
LEMMA SendsOnly ==
  ASSUME NEW s, MachineOK(s), NEW S, NEW byte \in S, byte \in Nat,
         Only(s.thr, S), Only(s.tsr, S)
  PROVE  /\ Only(Serial_write_byte(s, byte).thr, S) /\ Only(Serial_write_byte(s, byte).tsr, S)
         /\ Only(Send(s, byte).thr, S) /\ Only(Send(s, byte).tsr, S)
         /\ Only(s.queue, S) => Only(Send(s, byte).queue, S)
<1> DEFINE t == Serial_write_byte(s, byte)
           u == [s EXCEPT !.queue = <<byte>>, !.waited = TRUE]
<1>0. <<byte>>[1] = byte
  OBVIOUS
<1>1. (t.thr = s.thr \/ t.thr = <<byte>>) /\ (t.tsr = s.tsr \/ t.tsr = <<byte>>)
  BY DEF Serial_write_byte, MachineOK, IsRecord, Fields
<1>2. Only(t.thr, S) /\ Only(t.tsr, S)
  BY <1>0, <1>1 DEF Only
<1>3. t.queue = s.queue
  BY SerialWrites DEF Differ, Registers, Fields
<1>4. u.thr = s.thr /\ u.tsr = s.tsr /\ u.queue = <<byte>>
  BY DEF MachineOK, IsRecord, Fields
<1>5. Send(s, byte) = t \/ Send(s, byte) = u
  BY DEF Send
<1> HIDE DEF t, u
<1>6. CASE Send(s, byte) = t
  BY <1>2, <1>3, <1>6 DEF t
<1>7. CASE Send(s, byte) = u
  BY <1>0, <1>2, <1>4, <1>7 DEF t, Only
<1> QED
  BY <1>5, <1>6, <1>7

\* A handler of the host while it waits: the key, the mouse and the clock do
\* nothing, the UART sends the next byte if it can.
HostGoesOn(t) ==
  /\ pc' = [pc EXCEPT !["host"] = t] /\ MachineOK(t) /\ TodoOK("host", t) /\ HostWaits(t)
  /\ Leaving(t) + pc["host"].num_round_sent_bytes <= Leaving(pc["host"]) + t.num_round_sent_bytes

\* The byte is the last one on its way.
Pushed(s, t, byte) ==
  /\ s.thr = << >>
  /\ \/ s.tsr = << >> /\ t.tsr = <<byte>> /\ t.thr = << >>
     \/ s.tsr # << >> /\ t.tsr = s.tsr /\ t.thr = <<byte>>

\* serial_write_byte into an empty thr
LEMMA SerialPushes ==
  ASSUME NEW s, MachineOK(s), NEW byte \in Nat, ThrEmpty(s)
  PROVE  Pushed(s, Serial_write_byte(s, byte), byte)
BY DEF Serial_write_byte, MachineOK, IsRecord, Fields, ThrEmpty, Pushed

\* What else such a handler does: nothing, or it sends the next byte.
HostSaid(s, t) ==
  /\ t.todo = Tail(s.todo) /\ t.data = (IF Head(s.todo) = "uart" THEN -1 ELSE s.data)
  /\ \A f \in Fields \ (Registers \cup {"todo", "data", "num_round_sent_bytes"}) : t[f] = s[f]
  /\ \/ \A f \in Registers \cup {"num_round_sent_bytes"} : t[f] = s[f]
     \/ /\ Head(s.todo) = "uart" /\ MoreBytes(s) /\ Pushed(s, t, RoundsByte(s))
        /\ t.num_round_sent_bytes = s.num_round_sent_bytes + 1

\* Every handler of the host while it waits
LEMMA HostHandler ==
  ASSUME PcOK, HandlerStep("host"), HostWaits(pc["host"])
  PROVE  \E t : HostGoesOn(t) /\ HostSaid(pc["host"], t)
<1> DEFINE s == pc["host"]
           p == Popped("host")
           q == [p EXCEPT !.data = -1]
<1>0. s.todo # << >> /\ "host" \in Machines /\ MachineOK(s)
  BY DEF HandlerStep, KeyStep, MouseStep, RtcStep, UartStep, ChangePlayerStep, Runs, Machines, PcOK
<1>1. MachineOK(p) /\ Calm(p) /\ Differ(s, p, {"todo"}) /\ p.todo = Tail(s.todo)
  BY <1>0, Pops
<1>2. \A f \in Fields \ {"todo"} : p[f] = s[f]
  BY <1>1 DEF Differ
<1>3. s.sessions = 1
  BY <1>0 DEF HostWaits
<1>4. HostWaits(p) /\ Leaving(p) = Leaving(s) /\ p.num_round_sent_bytes = s.num_round_sent_bytes
  BY <1>1, <1>2, <1>3 DEF HostWaits, Leaving, Fields
<1>5. Leaving(s) \in Nat /\ s.num_round_sent_bytes \in Nat
  BY <1>0 DEF Leaving, One, MachineOK
<1>6. CASE pc' = [pc EXCEPT !["host"] = p] /\ Head(s.todo) # "uart"
  <2>1. TodoOK("host", p)
    BY <1>1 DEF Calm, TodoOK
  <2>2. HostGoesOn(p)
    BY <1>1, <1>4, <1>5, <1>6, <2>1 DEF HostGoesOn
  <2>3. HostSaid(s, p)
    BY <1>1, <1>2, <1>6 DEF HostSaid, Registers, Fields
  <2> QED
    BY <2>2, <2>3
<1>7. p.sessions = 1 /\ ~p.game_end /\ ~p.game_started /\ p.time_left_for_click = -1
  BY <1>2, <1>3, <1>4 DEF HostWaits, Fields
<1>8. CASE KeyStep("host")
  BY <1>6, <1>7, <1>8 DEF KeyStep, Becomes, OnKey, Runs
<1>9. CASE MouseStep("host")
  BY <1>6, <1>7, <1>9 DEF MouseStep, Becomes, OnMouse, TakesClicks, Runs
<1>10. CASE RtcStep("host")
  <2>1. OnRtc("host", p) = p
    BY <1>7 DEF OnRtc
  <2> QED
    BY <1>6, <1>10, <2>1 DEF RtcStep, Becomes, Runs
<1>11. CASE ChangePlayerStep("host")
  <2>1. s.todo \in Seq(TaskNames) /\ Head(s.todo) = "change_player"
    BY <1>0, <1>11 DEF ChangePlayerStep, Runs, MachineOK
  <2>2. 1 \in 1..Len(s.todo) /\ s.todo[1] = "change_player"
    BY <1>0, <2>1, EmptySeq, LenProperties
  <2> QED
    BY <2>2 DEF HostWaits, Calm
<1>12. CASE UartStep("host")
  <2>1. PICK t \in OnUart("host", q, s.data) : pc' = [pc EXCEPT !["host"] = t]
    BY <1>12 DEF UartStep, Becomes
  <2>0. Head(s.todo) = "uart"
    BY <1>12 DEF UartStep, Runs
  <2>2. MachineOK(q) /\ Calm(q) /\ Differ(p, q, {"data"}) /\ q.data = -1
    BY <1>1, Consumes
  <2>3. \A f \in Fields \ {"data"} : q[f] = p[f]
    BY <2>2 DEF Differ
  <2> HIDE DEF q
  <2>4. HostWaits(q) /\ Leaving(q) = Leaving(s) /\ q.num_round_sent_bytes = s.num_round_sent_bytes
        /\ ~q.game_started
    BY <1>4, <2>2, <2>3 DEF HostWaits, Leaving, Fields
  <2>5. s.data \in Early \cup {-1}
    BY DEF HostWaits
  <2>6. ACK = 0 /\ CONNECTED = 2 /\ LOSE = 12
    BY DEF ACK, CONNECTED, LOSE
  <2>7. PICK d : d # ACK /\ t = HostStart(q, d)
    <3>1. CASE s.data = -1
      <4>1. ~(s.data >= 0) /\ s.data < 0
        BY <3>1
      <4>2. t = HostStart(q, CONNECTED)
        BY <2>1, <2>4, <4>1 DEF OnUart
      <4> QED
        BY <2>6, <4>2
    <3>2. CASE s.data \in Early
      <4>1. s.data >= 0 /\ ~(s.data < 0) /\ s.data # ACK
        BY <2>6, <3>2 DEF Early
      <4>2. t = HostStart(q, s.data)
        BY <2>1, <2>4, <4>1 DEF OnUart
      <4> QED
        BY <4>1, <4>2
    <3> QED
      BY <2>5, <3>1, <3>2
  <2> DEFINE a == [q EXCEPT !.num_round_sent_bytes = @ + 1]
             b == Serial_write_byte(a, RoundsByte(q))
  <2>8. \/ t = [b EXCEPT !.game_started = @ \/ d = ACK] /\ MoreBytes(q) /\ ThrEmpty(q)
        \/ t = [q EXCEPT !.game_started = @ \/ d = ACK]
    BY <2>7 DEF HostStart
  <2>9. ASSUME NEW x, MachineOK(x), ~x.game_started, t = [x EXCEPT !.game_started = @ \/ d = ACK]
        PROVE  t = x
    <3>1. (x.game_started \/ d = ACK) = x.game_started
      <4>1. x.game_started = FALSE
        BY <2>9 DEF MachineOK
      <4> QED
        BY <2>7, <4>1, Zenon
    <3>2. t = [x EXCEPT !.game_started = x.game_started]
      BY <2>9, <3>1
    <3> QED
      BY <2>9, <3>2 DEF MachineOK, IsRecord, Fields
  <2>10. CASE t = [q EXCEPT !.game_started = @ \/ d = ACK]
    <3>1. t = q
      BY <2>2, <2>4, <2>9, <2>10
    <3>2. TodoOK("host", q)
      BY <2>2 DEF Calm, TodoOK
    <3>3. HostGoesOn(q)
      BY <1>5, <2>1, <2>2, <2>4, <3>1, <3>2 DEF HostGoesOn
    <3>4. HostSaid(s, q)
      <4>1. /\ q.todo = Tail(s.todo) /\ \A f \in Fields \ {"todo", "data"} : q[f] = s[f]
        BY <1>1, <1>2, <2>3 DEF Fields
      <4> QED
        BY <2>0, <2>2, <4>1 DEF HostSaid, Registers, Fields
    <3> QED
      BY <3>1, <3>3, <3>4
  <2>11. CASE t = [b EXCEPT !.game_started = @ \/ d = ACK] /\ MoreBytes(q) /\ ThrEmpty(q)
    <3>1. Differ(q, a, {"num_round_sent_bytes"}) /\ a.num_round_sent_bytes = q.num_round_sent_bytes + 1
      BY <2>2 DEF MachineOK, IsRecord, Differ, Fields
    <3>2. MachineOK(a)
      BY <2>2, <3>1 DEF MachineOK, Differ, Fields
    <3>3. RoundsByte(q) \in Nat
      <4>1. q.max_buttons_size \in Nat /\ q.num_round_sent_bytes \in 0..1
        BY <2>2, <2>11 DEF MachineOK, MoreBytes
      <4> DEFINE n == q.num_round_sent_bytes
                 x == q.max_buttons_size % 256
      <4>2. 256 ^ 0 = 1 /\ 256 ^ 1 = 256
        OBVIOUS
      <4>3. x \in Nat
        BY <4>1
      <4>4. RoundsByte(q) = x \div (256 ^ n) /\ (n = 0 \/ n = 1)
        BY <4>1 DEF RoundsByte
      <4> HIDE DEF n, x
      <4>5. x \div 1 \in Nat /\ x \div 256 \in Nat
        BY <4>3
      <4>6. CASE n = 0
        <5>1. 256 ^ n = 1
          BY <4>2, <4>6
        <5> QED
          BY <4>4, <4>5, <5>1
      <4>7. CASE n = 1
        <5>1. 256 ^ n = 256
          BY <4>2, <4>7
        <5> QED
          BY <4>4, <4>5, <5>1
      <4> QED
        BY <4>4, <4>6, <4>7
    <3> HIDE DEF a
    <3>4. MachineOK(b) /\ Differ(a, b, Registers)
      BY <3>2, <3>3, SerialWrites
    <3>5. Leaving(b) <= Leaving(a) + 1
      <4>1. \/ b.thr = a.thr /\ b.tsr = a.tsr
            \/ b.thr = a.thr /\ a.tsr = << >>
            \/ a.thr = << >> /\ b.tsr = a.tsr
        BY <3>2 DEF Serial_write_byte, MachineOK, IsRecord, Fields, ThrEmpty
      <4> HIDE DEF b
      <4> QED
        BY <4>1 DEF Leaving, One
    <3> HIDE DEF b
    <3>6. \A f \in Fields \ (Registers \cup {"num_round_sent_bytes"}) : b[f] = q[f]
      BY <3>1, <3>4 DEF Differ
    <3>7. b.num_round_sent_bytes = q.num_round_sent_bytes + 1
      BY <3>1, <3>4 DEF Differ, Registers, Fields
    <3>8. Leaving(a) = Leaving(q)
      BY <3>1 DEF Differ, Leaving, Fields
    <3>9. b.num_round_sent_bytes <= 2
      BY <1>5, <2>4, <2>11, <3>7 DEF MoreBytes
    <3>10. ~b.game_started
      BY <2>4, <3>6 DEF Registers, Fields
    <3>11. Calm(b)
      BY <2>2, <3>6 DEF Registers, Fields, Calm
    <3>12. q.sessions = 1
      BY <1>7, <2>3 DEF Fields
    <3>13. HostWaits(b)
      BY <2>4, <3>6, <3>9, <3>10, <3>11, <3>12 DEF HostWaits, Registers, Fields
    <3>14. t = b
      BY <2>9, <2>11, <3>4, <3>10
    <3>15. TodoOK("host", b)
      BY <3>11 DEF Calm, TodoOK
    <3>16. Leaving(b) \in Nat
      BY DEF Leaving, One
    <3>17. Leaving(b) + s.num_round_sent_bytes <= Leaving(s) + b.num_round_sent_bytes
      BY <1>5, <2>4, <3>5, <3>7, <3>8, <3>16
    <3>18. HostGoesOn(b)
      BY <2>1, <3>4, <3>13, <3>14, <3>15, <3>17 DEF HostGoesOn
    <3>19. HostSaid(s, b)
      <4>1. /\ q.todo = Tail(s.todo) /\ \A f \in Fields \ {"todo", "data"} : q[f] = s[f]
        BY <1>1, <1>2, <2>3 DEF Fields
      <4>2. Pushed(a, b, RoundsByte(q)) /\ a.thr = s.thr /\ a.tsr = s.tsr
        <5>1. a.thr = q.thr /\ a.tsr = q.tsr
          BY <3>1 DEF Differ, Fields
        <5>2. ThrEmpty(a)
          BY <2>11, <5>1 DEF ThrEmpty
        <5>3. Pushed(a, b, RoundsByte(q))
          BY <3>2, <3>3, <5>2, SerialPushes DEF b
        <5> QED
          BY <4>1, <5>1, <5>3 DEF Fields
      <4>3. RoundsByte(q) = RoundsByte(s) /\ MoreBytes(s)
        BY <2>11, <4>1 DEF RoundsByte, MoreBytes, Fields
      <4>4. Pushed(s, b, RoundsByte(s))
        BY <4>2, <4>3 DEF Pushed
      <4>5. b.data = -1 /\ b.todo = Tail(s.todo)
        BY <2>2, <3>6, <4>1 DEF Registers, Fields
      <4>6. \A f \in Fields \ (Registers \cup {"todo", "data", "num_round_sent_bytes"}) : b[f] = s[f]
        BY <3>6, <4>1 DEF Registers, Fields
      <4> QED
        BY <2>0, <2>4, <3>7, <4>3, <4>4, <4>5, <4>6 DEF HostSaid
    <3> QED
      BY <3>14, <3>18, <3>19
  <2> QED
    BY <2>8, <2>10, <2>11
<1> QED
  BY <1>8, <1>9, <1>10, <1>11, <1>12 DEF HandlerStep

\* A handler of the client while it waits, up to the one that starts its game.
ClientGoesOn(t) ==
  /\ pc' = [pc EXCEPT !["client"] = t] /\ MachineOK(t) /\ TodoOK("client", t)
  /\ Arrived(t) <= Arrived(pc["client"])
  /\ ~t.game_started => ClientWaits(t)
  /\ t.game_started =>
       /\ t.received_no_bytes = 2 /\ t.is_player_1 /\ t.sessions = 1
       /\ \A f \in {"queue", "thr", "tsr"} : Only(t[f], Early \cup {ACK})

\* The queue is empty as long as no message had to wait.
NoneWaits(s) == ~s.waited => s.queue = << >>

\* Only a message that waits is put into the queue.
LEMMA SendWaits ==
  ASSUME NEW s, MachineOK(s), NEW byte \in Nat, NoneWaits(s)
  PROVE  NoneWaits(Send(s, byte)) /\ NoneWaits(Serial_write_byte(s, byte))
<1>1. ASSUME NEW t, Differ(s, t, Registers) PROVE NoneWaits(t)
  BY <1>1 DEF Differ, Registers, Fields, NoneWaits
<1>2. NoneWaits(Serial_write_byte(s, byte))
  BY <1>1, SerialWrites
<1>3. CASE ~ThrEmpty(s)
  <2>1. Send(s, byte).waited = TRUE
    BY <1>3 DEF Send, MachineOK, IsRecord, Fields
  <2> QED
    BY <1>2, <2>1 DEF NoneWaits
<1> QED
  BY <1>2, <1>3 DEF Send

\* The clock, which may end the game of the client before it has started.
LEMMA ClientClock ==
  ASSUME NEW p, MachineOK(p), ClientWaits(p), p.sessions = 1
  PROVE  LET t == OnRtc("client", p) IN
         /\ MachineOK(t) /\ ClientWaits(t) /\ Arrived(t) = Arrived(p) /\ t.sessions = 1
         /\ Differ(p, t, Outgoing \cup {"mode", "ws", "game_end", "alarm", "heap",
                                        "time_left_for_click"})
         /\ NoneWaits(p) => NoneWaits(t)
         /\ p.is_player_1 /\ ~p.game_end => t = p
         /\ p.heap = "null" => t.heap = "null"
<1> DEFINE t == OnRtc("client", p)
           d == [p EXCEPT !.time_left_for_click = @ - 1]
           F == {"mode", "ws", "game_end", "alarm", "heap", "time_left_for_click"}
<1>0. Calm(p) /\ "client" \in Machines
  BY DEF ClientWaits, Machines
<1>1. MachineOK(t)
  BY <1>0, RtcTurns DEF Turns
<1>2. \/ t = Mp_end_game(Mp_send_winner(Mp_get_winner(p)))
      \/ t = Left(d) \/ t = Left(p)
  BY DEF OnRtc, Left, ClientWaits
<1>3. ASSUME NEW x, MachineOK(x) PROVE Differ(x, Left(x), F) /\ Left(x).heap = x.heap
  BY <1>3 DEF Left, LeaveGame, MachineOK, IsRecord, Differ, Fields
<1>6. p.is_player_1 /\ ~p.game_end => t = p
  BY DEF OnRtc, CountsDown, MyTurn
<1>4. CASE t = Left(d) \/ t = Left(p)
  <2>1. MachineOK(d) /\ Differ(p, d, F) /\ d.heap = p.heap
    <3>1. Differ(p, d, {"time_left_for_click"}) /\ d.heap = p.heap
      BY DEF MachineOK, IsRecord, Differ, Fields
    <3> HIDE DEF d
    <3> QED
      BY <3>1 DEF MachineOK, Differ, Fields
  <2> HIDE DEF d, t
  <2>2. Differ(p, t, F)
    BY <1>3, <1>4, <2>1 DEF Differ
  <2>3. \A f \in Fields \ F : t[f] = p[f]
    BY <2>2 DEF Differ
  <2>4. ClientWaits(t) /\ t.sessions = 1 /\ Arrived(t) = Arrived(p)
    BY <2>3 DEF ClientWaits, Calm, Arrived, Fields
  <2>5. Differ(p, t, Outgoing \cup F)
    BY <2>2 DEF Differ
  <2>6. NoneWaits(p) => NoneWaits(t)
    BY <2>3 DEF NoneWaits, Fields
  <2>7. t.heap = p.heap
    BY <1>3, <1>4, <2>1
  <2> QED
    BY <1>1, <1>6, <2>4, <2>5, <2>6, <2>7 DEF t
<1>5. CASE t = Mp_end_game(Mp_send_winner(Mp_get_winner(p)))
  <2> DEFINE a == Mp_get_winner(p)
             b == Mp_send_winner(a)
  <2>1. Differ(p, a, {"ws"}) /\ (a.ws = WINNER1 \/ a.ws = WINNER2)
    BY DEF Mp_get_winner, MachineOK, IsRecord, Differ, Fields
  <2>2. MachineOK(a)
    BY WinnerActs DEF Acts
  <2> HIDE DEF a
  <2>3. b = Send(a, LOSE) /\ LOSE \in Nat /\ LOSE \in Early
    BY <2>1 DEF Mp_send_winner, WINNER1, WINNER2, TIE, LOSE, Early
  <2>4. MachineOK(b) /\ Differ(a, b, Outgoing)
    BY <2>2, <2>3, Sends
  <2>5. Only(a.thr, Early) /\ Only(a.tsr, Early) /\ Only(a.queue, Early)
    BY <2>1 DEF ClientWaits, Differ, Fields
  <2>6. Only(b.thr, Early) /\ Only(b.tsr, Early) /\ Only(b.queue, Early)
    BY <2>2, <2>3, <2>5, SendsOnly
  <2>13. NoneWaits(p) => NoneWaits(b)
    <3>1. NoneWaits(p) => NoneWaits(a)
      BY <2>1 DEF NoneWaits, Differ, Fields
    <3> QED
      BY <2>2, <2>3, <3>1, SendWaits
  <2> HIDE DEF b
  <2>7. Differ(b, t, {"game_end", "alarm", "heap"}) /\ (b.heap = "null" => t.heap = "null")
    <3>1. t = Mp_end_game(b)
      BY <1>5 DEF a, b
    <3> QED
      BY <2>4, <3>1 DEF Mp_end_game, MachineOK, IsRecord, Differ, Fields
  <2> HIDE DEF t
  <2>8. Differ(p, t, Outgoing \cup F)
    BY <2>1, <2>4, <2>7 DEF Differ
  <2>9. \A f \in Fields \ (Outgoing \cup F) : t[f] = p[f]
    BY <2>8 DEF Differ
  <2>10. Only(t.thr, Early) /\ Only(t.tsr, Early) /\ Only(t.queue, Early)
    BY <2>6, <2>7 DEF Differ, Fields
  <2>11. Arrived(t) = Arrived(p) /\ t.sessions = 1 /\ Calm(t)
    BY <1>0, <2>9 DEF Arrived, Calm, Outgoing, Registers, Fields
  <2>12. ClientWaits(t)
    BY <2>9, <2>10, <2>11 DEF ClientWaits, Outgoing, Registers, Fields
  <2>14. NoneWaits(p) => NoneWaits(t)
    BY <2>7, <2>13 DEF NoneWaits, Differ, Fields
  <2>15. b.heap = p.heap
    BY <2>1, <2>4 DEF Differ, Outgoing, Registers, Fields
  <2> QED
    BY <1>1, <1>6, <2>7, <2>8, <2>11, <2>12, <2>14, <2>15 DEF t
<1> QED
  BY <1>2, <1>4, <1>5

\* The acknowledgment, after the number of rounds has come.
LEMMA Acknowledges ==
  ASSUME NEW p, MachineOK(p), Calm(p), p.is_player_1, p.received_no_bytes = 2,
         \A f \in {"queue", "thr", "tsr"} : Only(p[f], Early)
  PROVE  LET t == Acknowledge(p) IN
         /\ MachineOK(t) /\ t.game_started /\ Differ(p, t, Registers \cup {"game_started"})
         /\ \A f \in {"queue", "thr", "tsr"} : Only(t[f], Early \cup {ACK})
         /\ (t.thr = p.thr /\ t.tsr = p.tsr) \/ Pushed(p, t, ACK)
<1> DEFINE a == Serial_write_byte(p, ACK)
           t == Acknowledge(p)
           S == Early \cup {ACK}
<1>0. ACK \in Nat /\ ACK \in S
  BY DEF ACK
<1>1. MachineOK(a) /\ Differ(p, a, Registers)
  BY <1>0, SerialWrites
<1>2. Only(p.thr, S) /\ Only(p.tsr, S) /\ Only(p.queue, S)
  BY DEF Only
<1>3. Only(a.thr, S) /\ Only(a.tsr, S)
  BY <1>0, <1>2, SendsOnly
<1>4. a.queue = p.queue
  BY <1>1 DEF Differ, Registers, Fields
<1>10. (a.thr = p.thr /\ a.tsr = p.tsr) \/ Pushed(p, a, ACK)
  <2>1. CASE ThrEmpty(p)
    BY <1>0, <2>1, SerialPushes
  <2>2. CASE ~ThrEmpty(p)
    BY <2>2 DEF Serial_write_byte
  <2> QED
    BY <2>1, <2>2
<1>5. t = [a EXCEPT !.game_started = TRUE]
  BY DEF Acknowledge
<1> HIDE DEF a, S
<1>6. Differ(a, t, {"game_started"}) /\ t.game_started = TRUE
  BY <1>1, <1>5 DEF MachineOK, IsRecord, Differ, Fields
<1> HIDE DEF t
<1>7. MachineOK(t)
  BY <1>1, <1>6 DEF MachineOK, Differ, Fields
<1>8. \A f \in {"queue", "thr", "tsr"} : Only(t[f], S)
  BY <1>2, <1>3, <1>4, <1>6 DEF Differ, Fields
<1>9. Differ(p, t, Registers \cup {"game_started"})
  BY <1>1, <1>6 DEF Differ
<1>11. (t.thr = p.thr /\ t.tsr = p.tsr) \/ Pushed(p, t, ACK)
  BY <1>6, <1>10 DEF Differ, Fields, Pushed
<1> QED
  BY <1>6, <1>7, <1>8, <1>9, <1>11 DEF t, S

\* mp_reset_game
ResetFields ==
  {"max_buttons_size", "buttons", "heap", "player_score", "guessed", "is_player_1", "game_end",
   "time_left_for_click", "is_vs_round", "VS_was_pressed"}

\* A game in which nothing has been clicked.
FreshGame(s) ==
  /\ s.buttons = << >> /\ s.heap = "live" /\ ~s.game_end /\ s.is_player_1 /\ s.guessed = 0
  /\ s.player_score = 0 /\ s.VS_was_pressed = FALSE /\ s.is_vs_round = TRUE

\* No button was ever played, and the array is not allocated or new.
Unplayed(s) ==
  /\ s.buttons = << >> /\ s.guessed = 0
  /\ s.heap = "null" \/ (s.heap = "live" /\ s.is_player_1 /\ ~s.game_end)

\* What mp_reset_game leaves
LEMMA Resets ==
  ASSUME NEW s, MachineOK(s), NEW n \in Nat
  PROVE  LET t == Mp_reset_game(s, n) IN
         /\ MachineOK(t) /\ Differ(s, t, ResetFields)
         /\ t.is_player_1 /\ ~t.game_end /\ ~t.VS_was_pressed /\ t.time_left_for_click = -1
         /\ t.max_buttons_size = n /\ FreshGame(t)
<1> DEFINE t == Mp_reset_game(s, n)
<1>1. /\ Differ(s, t, ResetFields)
      /\ t.is_player_1 = TRUE /\ t.game_end = FALSE /\ t.VS_was_pressed = FALSE
      /\ t.time_left_for_click = -1
      /\ t.max_buttons_size = n /\ t.buttons = << >> /\ t.heap = "live"
      /\ t.guessed = 0 /\ t.player_score = 0 /\ t.is_vs_round = TRUE
  BY DEF Mp_reset_game, Mp_is_VS_round, MachineOK, IsRecord, Differ, ResetFields, Fields
<1> HIDE DEF t
<1>2. MachineOK(t)
  BY <1>1 DEF MachineOK, Differ, ResetFields, Fields
<1>3. t.is_player_1 /\ ~t.game_end /\ ~t.VS_was_pressed /\ t.time_left_for_click = -1
      /\ t.max_buttons_size = n /\ t.buttons = << >> /\ t.heap = "live"
      /\ t.guessed = 0 /\ t.player_score = 0 /\ t.VS_was_pressed = FALSE /\ t.is_vs_round = TRUE
  BY <1>1
<1> QED
  BY <1>1, <1>2, <1>3 DEF t, FreshGame

\* What such a handler makes of the two bytes.
FirstByte(s, t) ==
  /\ ~t.game_started /\ t.received_no_bytes = 1 /\ t.received_byte = s.data
SecondByte(s, t) ==
  /\ t.received_no_bytes = 2 /\ t.received_byte = s.received_byte
  /\ t.max_buttons_size = s.data * 256 + s.received_byte /\ FreshGame(t)
NoByte(s, t) ==
  /\ \A f \in {"received_no_bytes", "received_byte", "max_buttons_size"} : t[f] = s[f]
  /\ s.received_no_bytes = 2 /\ FreshGame(s) => FreshGame(t)

ClientSaid(s, t) ==
  /\ t.todo = Tail(s.todo) /\ t.data = (IF Head(s.todo) = "uart" THEN -1 ELSE s.data)
  /\ t.rbr = s.rbr /\ t.sessions = s.sessions /\ (NoneWaits(s) => NoneWaits(t))
  /\ Unplayed(s) => Unplayed(t)
  /\ IF Head(s.todo) = "uart" /\ s.data >= 0
     THEN \/ s.received_no_bytes = 0 /\ FirstByte(s, t)
          \/ s.received_no_bytes = 1 /\ SecondByte(s, t)
     ELSE NoByte(s, t)
  /\ t.game_started =>
       /\ Head(s.todo) = "uart" /\ t.mode = s.mode
       /\ (t.thr = s.thr /\ t.tsr = s.tsr) \/ Pushed(s, t, ACK)

\* Every handler of the client while it waits
LEMMA ClientHandler ==
  ASSUME PcOK, HandlerStep("client"), ClientWaits(pc["client"]), Arrived(pc["client"]) <= 2
  PROVE  \E t : ClientGoesOn(t) /\ ClientSaid(pc["client"], t)
<1> DEFINE s == pc["client"]
           p == Popped("client")
           q == [p EXCEPT !.data = -1]
<1>0. s.todo # << >> /\ "client" \in Machines /\ MachineOK(s)
  BY DEF HandlerStep, KeyStep, MouseStep, RtcStep, UartStep, ChangePlayerStep, Runs, Machines, PcOK
<1>1. MachineOK(p) /\ Calm(p) /\ Differ(s, p, {"todo"}) /\ p.todo = Tail(s.todo)
  BY <1>0, Pops
<1>2. \A f \in Fields \ {"todo"} : p[f] = s[f]
  BY <1>1 DEF Differ
<1>3. s.sessions = 1
  BY <1>0 DEF ClientWaits
<1>4. ClientWaits(p) /\ Arrived(p) = Arrived(s) /\ p.sessions = 1 /\ p.data = s.data
  BY <1>1, <1>2, <1>3 DEF ClientWaits, Arrived, Fields
<1>5. Arrived(s) \in Nat /\ s.data \in Int /\ s.received_no_bytes \in Nat
  BY <1>0 DEF Arrived, One, MachineOK
<1>6. ASSUME NEW t, pc' = [pc EXCEPT !["client"] = t], MachineOK(t), ClientWaits(t),
             Arrived(t) <= Arrived(s), t.sessions = 1
      PROVE  ClientGoesOn(t)
  <2>1. TodoOK("client", t)
    BY <1>6 DEF ClientWaits, Calm, TodoOK
  <2>2. ~t.game_started
    BY <1>6 DEF ClientWaits
  <2> QED
    BY <1>6, <2>1, <2>2 DEF ClientGoesOn
<1>13. ASSUME NEW t, Differ(p, t, Outgoing \cup {"mode", "ws", "game_end", "alarm", "heap",
                                                   "time_left_for_click"}),
              NoneWaits(p) => NoneWaits(t), ~t.game_started, Head(s.todo) # "uart",
              p.is_player_1 /\ ~p.game_end => t.game_end = p.game_end /\ t.heap = p.heap,
              p.heap = "null" => t.heap = "null"
       PROVE  ClientSaid(s, t)
  <2>1. /\ t.todo = Tail(s.todo) /\ t.data = s.data /\ t.rbr = s.rbr /\ t.sessions = s.sessions
        /\ \A f \in {"received_no_bytes", "received_byte", "max_buttons_size", "buttons",
                      "is_player_1", "guessed", "player_score", "VS_was_pressed",
                      "is_vs_round"} : t[f] = s[f]
    BY <1>1, <1>2, <1>13 DEF Differ, Outgoing, Registers, Fields
  <2>2. NoneWaits(s) => NoneWaits(t)
    BY <1>2, <1>13 DEF NoneWaits, Fields
  <2>3. p.is_player_1 = s.is_player_1 /\ p.game_end = s.game_end /\ p.heap = s.heap
    BY <1>2 DEF Fields
  <2>4. FreshGame(s) => FreshGame(t)
    BY <1>13, <2>1, <2>3 DEF FreshGame
  <2>5. Unplayed(s) => Unplayed(t)
    BY <1>13, <2>1, <2>3 DEF Unplayed
  <2> QED
    BY <1>13, <2>1, <2>2, <2>4, <2>5 DEF ClientSaid, NoByte
<1>7. CASE pc' = [pc EXCEPT !["client"] = p] /\ Head(s.todo) # "uart"
  <2>3. Differ(p, p, Outgoing \cup {"mode", "ws", "game_end", "alarm", "heap",
                                    "time_left_for_click"}) /\ ~p.game_started
    BY <1>1, <1>4 DEF Differ, MachineOK, ClientWaits
  <2>4. ClientSaid(s, p)
    BY <1>7, <1>13, <2>3
  <2>1. Arrived(p) <= Arrived(s)
    BY <1>4, <1>5
  <2>2. ClientGoesOn(p)
    BY <1>1, <1>4, <1>6, <1>7, <2>1
  <2> QED
    BY <2>2, <2>4
<1>8. CASE KeyStep("client")
  <2> DEFINE t == LeaveGame(p)
  <2>1. pc' = [pc EXCEPT !["client"] = p] \/ pc' = [pc EXCEPT !["client"] = t]
    BY <1>8 DEF KeyStep, Becomes, OnKey
  <2>0. Head(s.todo) # "uart" /\ (pc' = [pc EXCEPT !["client"] = p] \/ p.game_end)
    BY <1>8 DEF KeyStep, Becomes, OnKey, Runs
  <2>2. MachineOK(t) /\ Differ(p, t, {"mode"})
    <3>1. MachineOK(t)
      BY <1>1, WinnerActs DEF Acts
    <3>2. Differ(p, t, {"mode"})
      BY <1>1 DEF LeaveGame, MachineOK, IsRecord, Differ, Fields
    <3> QED
      BY <3>1, <3>2
  <2> HIDE DEF t
  <2>3. \A f \in Fields \ {"mode"} : t[f] = p[f]
    BY <2>2 DEF Differ
  <2>4. ClientWaits(t) /\ Arrived(t) = Arrived(s) /\ t.sessions = 1
    BY <1>4, <2>3 DEF ClientWaits, Calm, Arrived, Fields
  <2>5. Arrived(t) <= Arrived(s)
    BY <1>5, <2>4
  <2>6. ClientSaid(s, t)
    <3>1. /\ Differ(p, t, Outgoing \cup {"mode", "ws", "game_end", "alarm", "heap",
                                          "time_left_for_click"})
          /\ t.game_end = p.game_end /\ t.heap = p.heap
      BY <2>2, <2>3 DEF Differ, Fields
    <3>2. NoneWaits(p) => NoneWaits(t)
      BY <2>3 DEF NoneWaits, Fields
    <3>3. ~t.game_started
      BY <2>4 DEF ClientWaits
    <3> QED
      BY <1>13, <2>0, <3>1, <3>2, <3>3
  <2>7. CASE pc' = [pc EXCEPT !["client"] = t]
    BY <1>6, <2>2, <2>4, <2>5, <2>6, <2>7
  <2> QED
    BY <1>7, <2>0, <2>1, <2>7
<1>9. CASE MouseStep("client")
  <2>1. ~p.game_started
    BY <1>4 DEF ClientWaits
  <2> QED
    BY <1>7, <1>9, <2>1 DEF MouseStep, Becomes, OnMouse, TakesClicks, Runs
<1>10. CASE RtcStep("client")
  <2> DEFINE t == OnRtc("client", p)
  <2>1. MachineOK(t) /\ ClientWaits(t) /\ Arrived(t) = Arrived(p) /\ t.sessions = 1
    BY <1>1, <1>4, ClientClock
  <2>5. /\ Differ(p, t, Outgoing \cup {"mode", "ws", "game_end", "alarm", "heap",
                                        "time_left_for_click"})
        /\ NoneWaits(p) => NoneWaits(t)
        /\ p.is_player_1 /\ ~p.game_end => t = p
        /\ p.heap = "null" => t.heap = "null"
    BY <1>1, <1>4, ClientClock
  <2>2. pc' = [pc EXCEPT !["client"] = t] /\ Head(s.todo) # "uart"
    BY <1>10 DEF RtcStep, Becomes, Runs
  <2> HIDE DEF t
  <2>3. Arrived(t) <= Arrived(s)
    BY <1>4, <1>5, <2>1
  <2>4. ClientGoesOn(t)
    BY <1>6, <2>1, <2>2, <2>3
  <2>6. ~t.game_started
    BY <2>1 DEF ClientWaits
  <2>7. ClientSaid(s, t)
    BY <1>13, <2>2, <2>5, <2>6
  <2> QED
    BY <2>4, <2>7
<1>11. CASE ChangePlayerStep("client")
  <2>1. s.todo \in Seq(TaskNames) /\ Head(s.todo) = "change_player"
    BY <1>0, <1>11 DEF ChangePlayerStep, Runs, MachineOK
  <2>2. 1 \in 1..Len(s.todo) /\ s.todo[1] = "change_player"
    BY <1>0, <2>1, EmptySeq, LenProperties
  <2> QED
    BY <2>2 DEF ClientWaits, Calm
<1>12. CASE UartStep("client")
  <2>1. PICK t \in OnUart("client", q, s.data) : pc' = [pc EXCEPT !["client"] = t]
    BY <1>12 DEF UartStep, Becomes
  <2>0. Head(s.todo) = "uart"
    BY <1>12 DEF UartStep, Runs
  <2>2. MachineOK(q) /\ Calm(q) /\ Differ(p, q, {"data"}) /\ q.data = -1
    BY <1>1, Consumes
  <2>3. \A f \in Fields \ {"data"} : q[f] = p[f]
    BY <2>2 DEF Differ
  <2> HIDE DEF q
  <2>11. q.todo = Tail(s.todo) /\ \A f \in Fields \ {"todo", "data"} : q[f] = s[f]
    BY <1>1, <1>2, <2>3 DEF Fields
  <2>12. NoneWaits(s) => NoneWaits(q)
    BY <2>11 DEF NoneWaits, Fields
  <2>14. Unplayed(s) => Unplayed(q)
    BY <2>11 DEF Unplayed, Fields
  <2>4. ClientWaits(q) /\ q.sessions = 1 /\ ~q.game_started
    BY <1>4, <2>2, <2>3 DEF ClientWaits, Fields
  <2>5. /\ Arrived(p) = Arrived(q) + One(s.data >= 0)
        /\ Arrived(q) = q.received_no_bytes + One(q.rbr # << >>)
        /\ q.received_no_bytes \in Nat
    <3>1. q.received_no_bytes = p.received_no_bytes /\ q.rbr = p.rbr
      BY <2>3 DEF Fields
    <3>2. ~(q.data >= 0)
      BY <2>2
    <3>3. One(q.data >= 0) = 0
      BY <3>2 DEF One
    <3>4. q.received_no_bytes \in Nat /\ One(p.rbr # << >>) \in Nat /\ One(s.data >= 0) \in Nat
      BY <2>2 DEF MachineOK, One
    <3>5. Arrived(q) = q.received_no_bytes + One(q.rbr # << >>)
      BY <3>1, <3>3, <3>4 DEF Arrived
    <3>6. Arrived(p) = p.received_no_bytes + One(p.rbr # << >>) + One(s.data >= 0)
      BY <1>4 DEF Arrived
    <3> QED
      BY <3>1, <3>4, <3>5, <3>6
  <2>6. One(q.rbr # << >>) \in Nat /\ One(s.data >= 0) \in Nat /\ Arrived(q) \in Nat
    BY <2>5 DEF One
  <2>7. ASSUME NEW x, MachineOK(x), Calm(x), x.is_player_1, x.received_no_bytes = 2,
               \A f \in {"queue", "thr", "tsr"} : Only(x[f], Early),
               x.sessions = 1, Arrived(x) <= Arrived(s), t = Acknowledge(x)
        PROVE  ClientGoesOn(t)
    <3>1. /\ MachineOK(t) /\ t.game_started /\ Differ(x, t, Registers \cup {"game_started"})
          /\ \A f \in {"queue", "thr", "tsr"} : Only(t[f], Early \cup {ACK})
      BY <2>7, Acknowledges
    <3>2. /\ t.todo = x.todo /\ t.sessions = 1 /\ Arrived(t) = Arrived(x)
          /\ t.received_no_bytes = 2 /\ t.is_player_1
      BY <2>7, <3>1 DEF Differ, Registers, Fields, Arrived
    <3>3. TodoOK("client", t)
      BY <2>7, <3>2 DEF Calm, TodoOK
    <3> QED
      BY <2>1, <2>7, <3>1, <3>2, <3>3 DEF ClientGoesOn
  <2>13. ASSUME NEW x, MachineOK(x), Calm(x), x.is_player_1, x.received_no_bytes = 2,
                \A f \in {"queue", "thr", "tsr"} : Only(x[f], Early), t = Acknowledge(x),
                \A f \in {"todo", "data", "rbr", "sessions", "queue", "waited", "mode", "thr",
                          "tsr"} : x[f] = q[f],
                IF s.data >= 0 THEN s.received_no_bytes = 1 /\ SecondByte(s, x)
                ELSE NoByte(s, x),
                Unplayed(s) => Unplayed(x)
         PROVE  ClientSaid(s, t)
    <3>1. /\ Differ(x, t, Registers \cup {"game_started"})
          /\ (t.thr = x.thr /\ t.tsr = x.tsr) \/ Pushed(x, t, ACK)
      BY <2>13, Acknowledges
    <3>2. \A f \in Fields \ (Registers \cup {"game_started"}) : t[f] = x[f]
      BY <3>1 DEF Differ
    <3>3. /\ t.todo = Tail(s.todo) /\ t.data = -1
          /\ \A f \in {"rbr", "sessions", "queue", "waited", "mode"} : t[f] = s[f]
      BY <2>2, <2>11, <2>13, <3>2 DEF Registers, Fields
    <3>4. NoneWaits(s) => NoneWaits(t)
      BY <3>3 DEF NoneWaits
    <3>5. FreshGame(x) => FreshGame(t)
      BY <3>2 DEF FreshGame, Registers, Fields
    <3>10. Unplayed(x) => Unplayed(t)
      BY <3>2 DEF Unplayed, Registers, Fields
    <3>6. \A f \in {"received_no_bytes", "received_byte", "max_buttons_size"} : t[f] = x[f]
      BY <3>2 DEF Registers, Fields
    <3>7. IF s.data >= 0 THEN s.received_no_bytes = 1 /\ SecondByte(s, t) ELSE NoByte(s, t)
      BY <2>13, <3>5, <3>6 DEF SecondByte, NoByte
    <3>8. x.thr = s.thr /\ x.tsr = s.tsr
      BY <2>11, <2>13 DEF Fields
    <3>9. (t.thr = s.thr /\ t.tsr = s.tsr) \/ Pushed(s, t, ACK)
      BY <3>1, <3>8 DEF Pushed
    <3> QED
      BY <2>0, <2>13, <3>3, <3>4, <3>7, <3>9, <3>10 DEF ClientSaid
  <2>8. \A f \in {"queue", "thr", "tsr"} : Only(q[f], Early)
    BY <2>4 DEF ClientWaits
  <2>9. CASE s.data < 0
    <3>1. ~(s.data >= 0)
      BY <1>5, <2>9
    <3>2. t = ClientStart(q, CONNECTED, TRUE)
      <4>1. "client" # "host"
        OBVIOUS
      <4> QED
        BY <2>1, <2>4, <2>9, <3>1, <4>1 DEF OnUart
    <3>3. One(s.data >= 0) = 0
      BY <3>1 DEF One
    <3>4. Arrived(q) = Arrived(s)
      BY <1>4, <2>5, <2>6, <3>3
    <3>5. CASE q.received_no_bytes = 2
      <4>1. t = Acknowledge(q)
        BY <3>2, <3>5 DEF ClientStart
      <4>2. q.is_player_1
        BY <2>4, <3>5 DEF ClientWaits
      <4>3. ClientGoesOn(t)
        BY <1>5, <2>2, <2>4, <2>7, <2>8, <3>4, <3>5, <4>1, <4>2
      <4>4. NoByte(s, q)
        BY <2>11 DEF NoByte, FreshGame, Fields
      <4>5. ClientSaid(s, t)
        BY <2>2, <2>8, <2>13, <2>14, <3>1, <3>5, <4>1, <4>2, <4>4
      <4> QED
        BY <4>3, <4>5
    <3>6. CASE q.received_no_bytes # 2
      <4>1. t = q
        BY <3>2, <3>6 DEF ClientStart
      <4>2. Arrived(q) <= Arrived(s)
        BY <1>5, <3>4
      <4>3. ClientGoesOn(t)
        BY <1>6, <2>1, <2>2, <2>4, <4>1, <4>2
      <4>4. NoByte(s, q)
        BY <2>11 DEF NoByte, FreshGame, Fields
      <4>5. ClientSaid(s, t)
        BY <2>0, <2>2, <2>4, <2>11, <2>12, <2>14, <3>1, <4>1, <4>4 DEF ClientSaid, Fields
      <4> QED
        BY <4>3, <4>5
    <3> QED
      BY <3>5, <3>6
  <2>10. CASE s.data >= 0
    <3> DEFINE a == [q EXCEPT !.received_no_bytes = @ + 1]
    <3>1. ~(s.data < 0)
      BY <1>5, <2>10
    <3>2. t = ClientStart(q, s.data, FALSE)
      <4>1. "client" # "host"
        OBVIOUS
      <4> QED
        BY <2>1, <2>4, <2>10, <3>1, <4>1 DEF OnUart
    <3>3. One(s.data >= 0) = 1
      BY <2>10 DEF One
    <3>4. /\ Arrived(q) + 1 = Arrived(s)
          /\ q.received_no_bytes = 0 \/ q.received_no_bytes = 1
      BY <1>4, <1>5, <2>5, <2>6, <3>3
    <3>5. Differ(q, a, {"received_no_bytes"}) /\ a.received_no_bytes = q.received_no_bytes + 1
      BY <2>2 DEF MachineOK, IsRecord, Differ, Fields
    <3>6. t = IF q.received_no_bytes = 0 THEN [a EXCEPT !.received_byte = s.data]
              ELSE LET u == Mp_reset_game(a, s.data * 256 + q.received_byte)
                   IN  IF ThrEmpty(u) THEN Acknowledge(u) ELSE u
      BY <3>2 DEF ClientStart
    <3>7. \A f \in Fields \ {"received_no_bytes"} : a[f] = q[f]
      BY <3>5 DEF Differ
    <3>8. MachineOK(a) /\ Calm(a)
      BY <2>2, <3>5, <3>7 DEF MachineOK, Differ, Fields, Calm
    <3> HIDE DEF a
    <3>9. Arrived(a) = Arrived(q) + 1
      <4>1. a.rbr = q.rbr /\ a.data = -1
        BY <2>2, <3>7 DEF Fields
      <4>2. ~(a.data >= 0)
        BY <4>1
      <4>3. Arrived(a) = a.received_no_bytes + One(q.rbr # << >>) + 0
        BY <4>1, <4>2 DEF Arrived, One
      <4> QED
        BY <2>5, <2>6, <3>5, <4>3
    <3>10. CASE q.received_no_bytes = 0
      <4>1. t = [a EXCEPT !.received_byte = s.data]
        BY <3>6, <3>10
      <4>2. Differ(a, t, {"received_byte"}) /\ t.received_byte = s.data
        BY <3>8, <4>1 DEF MachineOK, IsRecord, Differ, Fields
      <4>3. s.data \in Nat
        BY <1>5, <2>10
      <4>4. MachineOK(t) /\ Arrived(t) = Arrived(a)
        BY <3>8, <4>2, <4>3 DEF MachineOK, Differ, Fields, Arrived
      <4>5. \A f \in Fields \ {"received_byte"} : t[f] = a[f]
        BY <4>2 DEF Differ
      <4>6. t.received_no_bytes = 1 /\ t.sessions = 1
        BY <2>4, <3>5, <3>7, <3>10, <4>5 DEF Fields
      <4>7. ClientWaits(t)
        BY <2>4, <3>7, <3>8, <4>5, <4>6 DEF ClientWaits, Calm, Fields
      <4>8. Arrived(t) <= Arrived(s)
        BY <1>5, <3>4, <3>9, <4>4
      <4>9. ClientGoesOn(t)
        BY <1>6, <2>1, <4>4, <4>6, <4>7, <4>8
      <4>10. ~t.game_started
        BY <4>7 DEF ClientWaits
      <4>11. /\ t.todo = Tail(s.todo) /\ t.data = -1 /\ q.received_no_bytes = s.received_no_bytes
             /\ \A f \in {"rbr", "sessions", "queue", "waited"} : t[f] = s[f]
        BY <2>2, <2>11, <3>7, <4>5 DEF Fields
      <4>12. FirstByte(s, t) /\ s.received_no_bytes = 0
        BY <3>10, <4>2, <4>6, <4>10, <4>11 DEF FirstByte
      <4>13. NoneWaits(s) => NoneWaits(t)
        BY <4>11 DEF NoneWaits
      <4>15. Unplayed(s) => Unplayed(t)
        BY <2>14, <3>7, <4>5 DEF Unplayed, Fields
      <4>14. ClientSaid(s, t)
        BY <2>0, <2>10, <4>10, <4>11, <4>12, <4>13, <4>15 DEF ClientSaid
      <4> QED
        BY <4>9, <4>14
    <3>11. CASE q.received_no_bytes = 1
      <4> DEFINE n == s.data * 256 + q.received_byte
                 u == Mp_reset_game(a, n)
      <4>1. n \in Nat
        <5>1. s.data \in Nat /\ q.received_byte \in Nat
          BY <1>5, <2>2, <2>10 DEF MachineOK
        <5> QED
          BY <5>1
      <4>2. t = u \/ t = Acknowledge(u)
        BY <3>6, <3>11
      <4> HIDE DEF n
      <4>3. /\ MachineOK(u) /\ Differ(a, u, ResetFields) /\ u.is_player_1 /\ ~u.VS_was_pressed
            /\ u.max_buttons_size = n /\ FreshGame(u)
        BY <3>8, <4>1, Resets
      <4> HIDE DEF u
      <4>4. \A f \in Fields \ ResetFields : u[f] = a[f]
        BY <4>3 DEF Differ
      <4>5. /\ u.received_no_bytes = 2 /\ u.sessions = 1 /\ Arrived(u) = Arrived(a)
            /\ \A f \in {"queue", "thr", "tsr"} : u[f] = q[f]
            /\ Calm(u)
        BY <2>4, <3>5, <3>7, <3>8, <3>11, <4>4 DEF Fields, ResetFields, Arrived, Calm
      <4>8. /\ q.received_no_bytes = s.received_no_bytes /\ q.received_byte = s.received_byte
            /\ u.received_byte = s.received_byte
            /\ \A f \in {"todo", "data", "rbr", "sessions", "queue", "waited", "mode", "thr",
                          "tsr"} : u[f] = q[f]
        BY <2>11, <3>7, <4>4 DEF Fields, ResetFields
      <4>9. s.received_no_bytes = 1 /\ SecondByte(s, u)
        BY <3>11, <4>3, <4>5, <4>8 DEF SecondByte, n
      <4>10. Unplayed(u)
        BY <4>3 DEF FreshGame, Unplayed
      <4>6. CASE t = u
        <5>1. ~u.game_started
          BY <2>4, <3>7, <4>4 DEF Fields, ResetFields
        <5>2. ClientWaits(u)
          BY <2>8, <4>3, <4>5, <5>1 DEF ClientWaits
        <5>3. Arrived(u) <= Arrived(s)
          BY <1>5, <3>4, <3>9, <4>5
        <5>4. ClientGoesOn(t)
          BY <1>6, <2>1, <4>3, <4>5, <4>6, <5>2, <5>3
        <5>5. /\ t.todo = Tail(s.todo) /\ t.data = -1
              /\ \A f \in {"rbr", "sessions", "queue", "waited"} : t[f] = s[f]
          BY <2>2, <2>11, <4>6, <4>8 DEF Fields
        <5>6. NoneWaits(s) => NoneWaits(t)
          BY <5>5 DEF NoneWaits
        <5>7. ClientSaid(s, t)
          BY <2>0, <2>10, <4>6, <4>9, <4>10, <5>1, <5>5, <5>6 DEF ClientSaid
        <5> QED
          BY <5>4, <5>7
      <4>7. CASE t = Acknowledge(u)
        <5>1. \A f \in {"queue", "thr", "tsr"} : Only(u[f], Early)
          BY <2>8, <4>5
        <5>2. Arrived(u) <= Arrived(s)
          BY <1>5, <3>4, <3>9, <4>5
        <5>3. ClientGoesOn(t)
          BY <2>7, <4>3, <4>5, <4>7, <5>1, <5>2
        <5>4. ClientSaid(s, t)
          BY <2>10, <2>13, <4>3, <4>5, <4>7, <4>8, <4>9, <4>10, <5>1
        <5> QED
          BY <5>3, <5>4
      <4> QED
        BY <4>2, <4>6, <4>7
    <3> QED
      BY <3>4, <3>10, <3>11
  <2> QED
    BY <1>5, <2>9, <2>10
<1> QED
  BY <1>8, <1>9, <1>10, <1>11, <1>12 DEF HandlerStep

\* host_mp_game, and a notification, while the host waits
\* The host's game is new, and nothing has been sent.
HostEntered(s, t) ==
  /\ s.num_round_sent_bytes = 0 /\ FreshGame(t) /\ t.max_buttons_size \in Rounds
  /\ \A f \in {"thr", "tsr", "thre", "rbr", "data", "todo", "num_round_sent_bytes",
               "waited", "opened_VS"} : t[f] = s[f]

\* host_mp_game while the client waits
LEMMA HostEnters ==
  ASSUME PcOK, HostWaits(pc["host"]), NEW n \in Rounds, Host_mp_game(n), Sessions <= 1
  PROVE  \E t : HostGoesOn(t) /\ HostEntered(pc["host"], t)
<1> DEFINE s == pc["host"]
           r == Mp_reset_game(s, n)
           t == [r EXCEPT !.mode = "MP_GAME", !.game_started = FALSE, !.queue = << >>,
                          !.sessions = @ + 1]
<1>1. /\ s.todo = << >> /\ s.sessions < Sessions
      /\ pc' = [pc EXCEPT !["host"] = t]
  BY DEF Host_mp_game
<1>2. MachineOK(s) /\ n \in Nat
  BY RoundsAssumption DEF PcOK, Machines
<1>3. s.sessions = 0 /\ s.num_round_sent_bytes = 0
  BY <1>1, BoundsAssumption DEF HostWaits
<1>4. /\ MachineOK(r) /\ Differ(s, r, ResetFields)
      /\ r.is_player_1 /\ ~r.game_end /\ r.time_left_for_click = -1
      /\ r.max_buttons_size = n /\ FreshGame(r)
  BY <1>2, Resets
<1>5. HostWaits(s)
  OBVIOUS
<1> HIDE DEF s, r
<1>6. r.sessions = 0
  BY <1>3, <1>4 DEF Differ, ResetFields, Fields
<1>7. /\ Differ(r, t, {"mode", "game_started", "queue", "sessions"})
      /\ t.mode = "MP_GAME" /\ t.game_started = FALSE /\ t.queue = << >> /\ t.sessions = 1
  <2> DEFINE x == [r EXCEPT !.mode = "MP_GAME", !.game_started = FALSE, !.queue = << >>]
  <2>1. /\ Differ(r, x, {"mode", "game_started", "queue"})
        /\ x.mode = "MP_GAME" /\ x.game_started = FALSE /\ x.queue = << >>
    BY <1>4 DEF MachineOK, IsRecord, Differ, Fields
  <2>2. t = [x EXCEPT !.sessions = x.sessions + 1]
    OBVIOUS
  <2> HIDE DEF x, t
  <2>3. x.sessions = 0
    BY <1>4, <1>6, <2>1 DEF Differ, Fields
  <2>4. IsRecord(x) /\ t = [x EXCEPT !.sessions = 1]
    BY <2>1, <2>2, <2>3 DEF Differ
  <2>5. Differ(x, t, {"sessions"}) /\ t.sessions = 1
    BY <2>4 DEF IsRecord, Differ, Fields
  <2> QED
    BY <2>1, <2>5 DEF Differ, Fields
<1> HIDE DEF t
<1>8. MachineOK(t)
  BY <1>4, <1>7 DEF MachineOK, Differ, Fields, Slot
<1>9. /\ t.is_player_1 /\ ~t.game_end /\ t.time_left_for_click = -1
      /\ t.todo = << >> /\ t.num_round_sent_bytes = 0
      /\ \A f \in {"thr", "tsr", "rbr", "data"} : t[f] = s[f]
  BY <1>1, <1>3, <1>4, <1>7 DEF Differ, ResetFields, Fields, s
<1>10. Calm(t) /\ TodoOK("host", t)
  BY <1>9 DEF Calm, TodoOK
<1>11. ~t.game_started
  BY <1>7
<1>12. HostWaits(t)
  BY <1>5, <1>7, <1>9, <1>10, <1>11 DEF HostWaits
<1>13. Leaving(t) = Leaving(s) /\ Leaving(s) \in Nat
  BY <1>9 DEF Leaving, One
<1>14. HostGoesOn(t)
  BY <1>1, <1>3, <1>8, <1>9, <1>10, <1>12, <1>13 DEF HostGoesOn, s
<1>15. \A f \in {"thr", "tsr", "thre", "rbr", "data", "todo", "num_round_sent_bytes",
                 "waited", "opened_VS"} : t[f] = s[f]
  BY <1>4, <1>7 DEF Differ, ResetFields, Fields
<1>16. FreshGame(t) /\ t.max_buttons_size = n
  BY <1>4, <1>7 DEF Differ, Fields, FreshGame
<1>17. HostEntered(s, t)
  BY <1>3, <1>15, <1>16 DEF HostEntered
<1> QED
  BY <1>14, <1>17 DEF s

\* A notification of the host while it waits
LEMMA HostReads ==
  ASSUME PcOK, HostWaits(pc["host"]), NEW t, pc' = [pc EXCEPT !["host"] = t],
         Reads(pc["host"], t)
  PROVE  HostGoesOn(t)
<1> DEFINE s == pc["host"]
<1>1. HostWaits(s) /\ MachineOK(s)
  BY DEF PcOK, Machines
<1>2. Reads(s, t)
  OBVIOUS
<1> HIDE DEF s
<1>3. \A f \in Fields \ {"rbr", "thre", "todo", "data"} : t[f] = s[f]
  BY <1>2 DEF Reads, Differ
<1>4. MachineOK(t) /\ Calm(t) /\ TodoOK("host", t)
  BY <1>2 DEF Reads, Calm, TodoOK
<1>5. Only(t.rbr, Early) /\ t.data \in Early \cup {-1}
  BY <1>1, <1>2 DEF HostWaits, Only, Reads
<1>6. s.mode # "MP_GAME" => t.todo = << >>
  BY <1>2 DEF Reads
<1>7. HostWaits(t)
  BY <1>1, <1>3, <1>4, <1>5, <1>6 DEF HostWaits, Fields
<1>8. Leaving(t) = Leaving(s) /\ t.num_round_sent_bytes = s.num_round_sent_bytes
  BY <1>3 DEF Leaving, Fields
<1>9. Leaving(s) \in Nat /\ s.num_round_sent_bytes \in Nat
  BY <1>1 DEF Leaving, One, MachineOK
<1>10. Leaving(t) + s.num_round_sent_bytes <= Leaving(s) + t.num_round_sent_bytes
  BY <1>8, <1>9
<1> QED
  BY <1>4, <1>7, <1>10 DEF HostGoesOn, s

\* connect_mp_game, and a notification, while the client waits
ClientEntered(s, t) ==
  /\ s.sessions = 0 /\ t.sessions = 1 /\ ~t.game_started
  /\ t.todo = << >> /\ t.received_no_bytes = 0 /\ t.rbr = s.rbr /\ t.data = s.data
  /\ t.queue = << >> /\ t.opened_VS = s.opened_VS
  /\ \A f \in {"buttons", "guessed", "heap"} : t[f] = s[f]

\* connect_mp_game
LEMMA ClientEnters ==
  ASSUME PcOK, ClientWaits(pc["client"]), Connect_mp_game, Sessions <= 1
  PROVE  \E t : ClientGoesOn(t) /\ ClientEntered(pc["client"], t)
<1> DEFINE s == pc["client"]
           p == [s EXCEPT !.is_player_1 = FALSE]
           w == Serial_write_byte(p, CONNECTED)
           t == [w EXCEPT !.mode = "MP_GAME", !.game_started = FALSE, !.queue = << >>,
                          !.sessions = @ + 1]
<1>1. /\ s.todo = << >> /\ s.sessions < Sessions
      /\ pc' = [pc EXCEPT !["client"] = t]
  BY DEF Connect_mp_game
<1>2. MachineOK(s) /\ ClientWaits(s)
  BY DEF PcOK, Machines
<1>3. s.sessions = 0 /\ s.received_no_bytes = 0
  BY <1>1, BoundsAssumption DEF ClientWaits
<1> HIDE DEF s
<1>4. Differ(s, p, {"is_player_1"}) /\ p.is_player_1 = FALSE
  BY <1>2 DEF MachineOK, IsRecord, Differ, Fields
<1> HIDE DEF p
<1>5. MachineOK(p)
  BY <1>2, <1>4 DEF MachineOK, Differ, Fields
<1>6. CONNECTED \in Nat /\ CONNECTED \in Early
  BY DEF CONNECTED, Early
<1>7. MachineOK(w) /\ Differ(p, w, Registers)
  BY <1>5, <1>6, SerialWrites
<1>8. Only(p.thr, Early) /\ Only(p.tsr, Early)
  BY <1>2, <1>4 DEF ClientWaits, Differ, Fields
<1>9. Only(w.thr, Early) /\ Only(w.tsr, Early)
  BY <1>5, <1>6, <1>8, SendsOnly
<1> HIDE DEF w
<1>10. w.sessions = 0
  BY <1>3, <1>4, <1>7 DEF Differ, Registers, Fields
<1>11. /\ Differ(w, t, {"mode", "game_started", "queue", "sessions"})
       /\ t.mode = "MP_GAME" /\ t.game_started = FALSE /\ t.queue = << >> /\ t.sessions = 1
  <2> DEFINE x == [w EXCEPT !.mode = "MP_GAME", !.game_started = FALSE, !.queue = << >>]
  <2>1. /\ Differ(w, x, {"mode", "game_started", "queue"})
        /\ x.mode = "MP_GAME" /\ x.game_started = FALSE /\ x.queue = << >>
    BY <1>7 DEF MachineOK, IsRecord, Differ, Fields
  <2>2. t = [x EXCEPT !.sessions = x.sessions + 1]
    OBVIOUS
  <2> HIDE DEF x, t
  <2>3. x.sessions = 0
    BY <1>7, <1>10, <2>1 DEF Differ, Fields
  <2>4. IsRecord(x) /\ t = [x EXCEPT !.sessions = 1]
    BY <2>1, <2>2, <2>3 DEF Differ
  <2>5. Differ(x, t, {"sessions"}) /\ t.sessions = 1
    BY <2>4 DEF IsRecord, Differ, Fields
  <2> QED
    BY <2>1, <2>5 DEF Differ, Fields
<1> HIDE DEF t
<1>12. MachineOK(t)
  BY <1>7, <1>11 DEF MachineOK, Differ, Fields, Slot
<1>13. /\ t.todo = << >> /\ t.received_no_bytes = 0
       /\ \A f \in {"rbr", "data", "VS_was_pressed", "opened_VS", "buttons", "guessed",
                    "heap"} : t[f] = s[f]
  BY <1>1, <1>3, <1>4, <1>7, <1>11 DEF Differ, Registers, Fields, s
<1>14. Only(t.thr, Early) /\ Only(t.tsr, Early) /\ Only(t.queue, Early)
  BY <1>9, <1>11 DEF Differ, Fields, Only
<1>15. Calm(t) /\ TodoOK("client", t)
  BY <1>13 DEF Calm, TodoOK
<1>16. ~t.game_started
  BY <1>11
<1>17. ClientWaits(t)
  BY <1>2, <1>11, <1>13, <1>14, <1>15, <1>16 DEF ClientWaits
<1>18. Arrived(t) = Arrived(s) /\ Arrived(s) \in Nat
  BY <1>2, <1>3, <1>13 DEF Arrived, One, MachineOK
<1>19. Arrived(t) <= Arrived(s)
  BY <1>18
<1>20. ClientGoesOn(t)
  BY <1>1, <1>12, <1>15, <1>16, <1>17, <1>19 DEF ClientGoesOn, s
<1>21. ClientEntered(s, t)
  BY <1>3, <1>11, <1>13 DEF ClientEntered
<1> QED
  BY <1>20, <1>21 DEF s

\* A notification of the client while it waits
LEMMA ClientReads ==
  ASSUME PcOK, ClientWaits(pc["client"]), NEW t, pc' = [pc EXCEPT !["client"] = t],
         Reads(pc["client"], t)
  PROVE  ClientGoesOn(t)
<1> DEFINE s == pc["client"]
<1>1. ClientWaits(s) /\ MachineOK(s)
  BY DEF PcOK, Machines
<1>2. Reads(s, t)
  OBVIOUS
<1> HIDE DEF s
<1>3. \A f \in Fields \ {"rbr", "thre", "todo", "data"} : t[f] = s[f]
  BY <1>2 DEF Reads, Differ
<1>4. MachineOK(t) /\ Calm(t) /\ TodoOK("client", t)
  BY <1>2 DEF Reads, Calm, TodoOK
<1>5. s.mode # "MP_GAME" => t.todo = << >>
  BY <1>2 DEF Reads
<1>6. ClientWaits(t)
  BY <1>1, <1>3, <1>4, <1>5 DEF ClientWaits, Fields
<1>7. t.received_no_bytes = s.received_no_bytes /\ s.received_no_bytes \in Nat
  BY <1>1, <1>3 DEF Fields, MachineOK
<1>8. One(t.rbr # << >>) + One(t.data >= 0) <= One(s.rbr # << >>) + One(s.data >= 0)
  <2>1. ~(-1 >= 0)
    OBVIOUS
  <2> QED
    BY <1>2, <2>1 DEF Reads, One
<1>9. Arrived(t) <= Arrived(s)
  <2>1. /\ One(t.rbr # << >>) \in Nat /\ One(t.data >= 0) \in Nat
        /\ One(s.rbr # << >>) \in Nat /\ One(s.data >= 0) \in Nat
    BY DEF One
  <2> QED
    BY <1>7, <1>8, <2>1 DEF Arrived
<1>10. ~t.game_started
  BY <1>6 DEF ClientWaits
<1> QED
  BY <1>4, <1>6, <1>9, <1>10 DEF ClientGoesOn, s

-----------------------------------------------------------------------------
(* One turn in the first game of two computers                             *)

\* There are two computers.
LEMMA TwoMachines ==
  /\ "host" \in Machines /\ "client" \in Machines /\ "host" # "client"
  /\ Other("host") = "client" /\ Other("client") = "host"
  /\ \A m \in Machines : m = "host" \/ m = "client"
BY DEF Machines, Other

\* At the start no byte is anywhere.
LEMMA TurnInit == ASSUME Init PROVE PcOK /\ TurnInv
<1> DEFINE r == [mode |-> "MENU", game_started |-> FALSE, game_end |-> FALSE,
                 is_player_1 |-> FALSE, buttons |-> << >>, max_buttons_size |-> 0, guessed |-> 0,
                 time_left_for_click |-> 0, VS_was_pressed |-> FALSE, is_vs_round |-> FALSE,
                 ws |-> WINNER1, player_score |-> 0, heap |-> "null", alarm |-> "seconds",
                 received_no_bytes |-> 0, num_round_sent_bytes |-> 0, received_byte |-> 0,
                 queue |-> << >>, waited |-> FALSE, opened_VS |-> FALSE,
                 data |-> -1, todo |-> << >>, sessions |-> 0,
                 thr |-> << >>, tsr |-> << >>, rbr |-> << >>, thre |-> FALSE]
<1>1. pc = [m \in Machines |-> r]
  BY DEF Init
<1>2. IsRecord(r)
  BY DEF IsRecord, Fields
<1>3. /\ r.mode = "MENU" /\ r.game_started = FALSE /\ r.game_end = FALSE /\ r.is_player_1 = FALSE
      /\ r.max_buttons_size = 0 /\ r.VS_was_pressed = FALSE /\ r.received_no_bytes = 0
      /\ r.num_round_sent_bytes = 0 /\ r.received_byte = 0 /\ r.data = -1 /\ r.sessions = 0
      /\ \A f \in {"queue", "todo", "thr", "tsr", "rbr"} : r[f] = << >>
  OBVIOUS
<1> HIDE DEF r
<1>4. << >> \in Seq(TaskNames) /\ Len(<< >>) = 0
  OBVIOUS
<1>5. MachineOK(r)
  <2>1. r.game_started \in BOOLEAN /\ r.game_end \in BOOLEAN /\ r.is_player_1 \in BOOLEAN
    BY <1>3, Zenon
  <2>2. Slot(r.queue) /\ Slot(r.thr) /\ Slot(r.tsr) /\ Slot(r.rbr) /\ r.todo \in Seq(TaskNames)
    BY <1>3, <1>4 DEF Slot
  <2> QED
    BY <1>2, <1>3, <2>1, <2>2 DEF MachineOK
<1>6. Calm(r) /\ TodoOK("host", r) /\ TodoOK("client", r)
  BY <1>3, <1>4 DEF Calm, TodoOK
<1>7. PcOK
  BY <1>1, <1>5, <1>6, TwoMachines DEF PcOK
<1>8. ~r.game_started /\ ~r.VS_was_pressed
  BY <1>3
<1>9. HostWaits(r)
  BY <1>3, <1>6, <1>8 DEF HostWaits, Only
<1>10. ClientWaits(r)
  BY <1>3, <1>6, <1>8 DEF ClientWaits, Only
<1>11. Leaving(r) + Arrived(r) <= r.num_round_sent_bytes
  <2>1. ~(-1 >= 0)
    OBVIOUS
  <2> QED
    BY <1>3, <2>1 DEF Leaving, Arrived, One
<1>12. pc["host"] = r /\ pc["client"] = r
  BY <1>1, TwoMachines
<1> QED
  BY <1>7, <1>8, <1>9, <1>10, <1>11, <1>12 DEF TurnInv

\* The host goes on waiting.
LEMMA HostWaitsOn ==
  ASSUME PcOK, TurnInv, ~pc["client"].game_started, NEW t, HostGoesOn(t)
  PROVE  PcOK' /\ TurnInv'
<1> DEFINE h == pc["host"]
           c == pc["client"]
<1>1. pc'["host"] = t /\ pc'["client"] = c /\ PcOK'
  BY TwoMachines, Replaced DEF HostGoesOn
<1>2. ClientWaits(c) /\ Leaving(h) + Arrived(c) <= h.num_round_sent_bytes
  BY DEF TurnInv
<1>3. HostWaits(t) /\ Leaving(t) + h.num_round_sent_bytes <= Leaving(h) + t.num_round_sent_bytes
  BY DEF HostGoesOn
<1>4. /\ h.num_round_sent_bytes \in Nat /\ t.num_round_sent_bytes \in Nat
      /\ Leaving(h) \in Nat /\ Leaving(t) \in Nat /\ Arrived(c) \in Nat
  BY TwoMachines DEF HostGoesOn, PcOK, MachineOK, Leaving, Arrived, One
<1>5. Leaving(t) + Arrived(c) <= t.num_round_sent_bytes
  BY <1>2, <1>3, <1>4
<1> QED
  BY <1>1, <1>2, <1>3, <1>5 DEF TurnInv

\* The client goes on waiting, or has had both bytes and starts: the host has the
\* turn and no byte brings another one.
LEMMA ClientWaitsOn ==
  ASSUME PcOK, TurnInv, ~pc["client"].game_started, NEW t, ClientGoesOn(t)
  PROVE  PcOK' /\ TurnInv'
<1> DEFINE h == pc["host"]
           c == pc["client"]
<1>1. pc'["host"] = h /\ pc'["client"] = t /\ PcOK'
  BY TwoMachines, Replaced DEF ClientGoesOn
<1>2. HostWaits(h) /\ Leaving(h) + Arrived(c) <= h.num_round_sent_bytes
  BY DEF TurnInv
<1>3. Arrived(t) <= Arrived(c)
  BY DEF ClientGoesOn
<1>4. /\ h.num_round_sent_bytes \in Nat /\ Leaving(h) \in Nat
      /\ Arrived(c) \in Nat /\ Arrived(t) \in Nat
  BY TwoMachines DEF ClientGoesOn, PcOK, MachineOK, Leaving, Arrived, One
<1>5. Leaving(h) + Arrived(t) <= h.num_round_sent_bytes
  BY <1>2, <1>3, <1>4
<1>6. CASE ~t.game_started
  BY <1>1, <1>2, <1>5, <1>6 DEF ClientGoesOn, TurnInv
<1>7. CASE t.game_started
  <2>1. /\ t.received_no_bytes = 2 /\ t.is_player_1 /\ t.sessions = 1
        /\ \A f \in {"queue", "thr", "tsr"} : Only(t[f], Early \cup {ACK})
    BY <1>7 DEF ClientGoesOn
  <2>2. h.num_round_sent_bytes <= 2
    BY <1>2 DEF HostWaits
  <2>3. Arrived(t) = 2 + One(t.rbr # << >>) + One(t.data >= 0)
    BY <2>1 DEF Arrived
  <2>4. /\ One(t.rbr # << >>) \in Nat /\ One(t.data >= 0) \in Nat
        /\ One(h.thr # << >>) \in Nat /\ One(h.tsr # << >>) \in Nat
        /\ Leaving(h) = One(h.thr # << >>) + One(h.tsr # << >>)
    BY DEF One, Leaving
  <2>5. /\ h.num_round_sent_bytes = 2
        /\ One(t.rbr # << >>) = 0 /\ One(t.data >= 0) = 0
        /\ One(h.thr # << >>) = 0 /\ One(h.tsr # << >>) = 0
    <3>1. \A n, w, x, y, z \in Nat :
            (y + z) + (2 + w + x) <= n /\ n <= 2 => n = 2 /\ w = 0 /\ x = 0 /\ y = 0 /\ z = 0
      OBVIOUS
    <3>2. /\ h.num_round_sent_bytes \in Nat
          /\ (One(h.thr # << >>) + One(h.tsr # << >>))
               + (2 + One(t.rbr # << >>) + One(t.data >= 0)) <= h.num_round_sent_bytes
      BY <1>4, <1>5, <2>3, <2>4
    <3> QED
      BY <2>2, <2>4, <3>1, <3>2
  <2>6. t.rbr = << >> /\ ~(t.data >= 0) /\ h.thr = << >> /\ h.tsr = << >>
    BY <2>5 DEF One
  <2>7. h.sessions = 1 /\ h.is_player_1 /\ h.queue = << >>
    BY <1>2, <2>5 DEF HostWaits
  <2>8. TurnBytes = {9, 10, 11} /\ Early \cup {ACK} = {0, 2, 12} /\ Early = {2, 12}
    BY Messages DEF Early, ACK, CONNECTED, LOSE
  <2>9. BytesHeld(h) = 0
    <3>1. ~Holds(h.rbr) /\ ~(h.data \in TurnBytes)
      BY <1>2, <2>8 DEF HostWaits, Only, Holds
    <3>2. ~Holds(h.queue) /\ ~Holds(h.thr) /\ ~Holds(h.tsr)
      BY <2>6, <2>7 DEF Holds
    <3> QED
      BY <3>1, <3>2 DEF BytesHeld, One
  <2>10. BytesHeld(t) = 0
    <3>0. ASSUME NEW q, Only(q, Early \cup {ACK}) PROVE ~Holds(q)
      BY <2>8, <3>0 DEF Holds, Only
    <3>1. ~Holds(t.queue) /\ ~Holds(t.thr) /\ ~Holds(t.tsr) /\ ~Holds(t.rbr)
      <4>1. Only(t.queue, Early \cup {ACK}) /\ Only(t.thr, Early \cup {ACK})
              /\ Only(t.tsr, Early \cup {ACK})
        BY <2>1
      <4>2. ~Holds(t.rbr)
        BY <2>6 DEF Holds
      <4> QED
        BY <3>0, <4>1, <4>2
    <3>2. ~(t.data \in TurnBytes)
      BY <2>6, <2>8
    <3> QED
      BY <3>1, <3>2 DEF BytesHeld, One
  <2>11. ~MyTurn("client", t)
    BY <2>1, TwoMachines DEF MyTurn
  <2>12. One(MyTurn("host", h)) \in 0..1 /\ One(MyTurn("client", t)) = 0
    BY <2>11 DEF One
  <2>13. Tokens("host", h) + Tokens("client", t) <= 1
    BY <2>9, <2>10, <2>12 DEF Tokens
  <2> QED
    BY <1>1, <1>7, <2>1, <2>5, <2>7, <2>13 DEF TurnInv
<1> QED
  BY <1>6, <1>7

\* The line, before the client has started
LEMMA WaitingDelivery ==
  ASSUME PcOK, TurnInv, ~pc["client"].game_started, NEW m \in Machines, Deliver(m)
  PROVE  PcOK' /\ TurnInv'
<1> DEFINE h == pc["host"]
           c == pc["client"]
           k == pc'["host"]
           d == pc'["client"]
<1>1. HostWaits(h) /\ ClientWaits(c) /\ Leaving(h) + Arrived(c) <= h.num_round_sent_bytes
  BY DEF TurnInv
<1>2. MachineOK(h) /\ MachineOK(c)
  BY TwoMachines DEF PcOK
<1>3. CASE m = "host"
  <2>1. /\ PcOK' /\ Differ(h, k, Registers) /\ k.tsr = h.thr /\ k.thr = << >>
        /\ Differ(c, d, {"rbr"}) /\ d.rbr = h.tsr /\ c.rbr = << >> /\ h.tsr # << >>
    BY <1>3, TwoMachines, Delivers
  <2> HIDE DEF h, c, k, d
  <2>2. /\ \A f \in Fields \ Registers : k[f] = h[f]
        /\ \A f \in Fields \ {"rbr"} : d[f] = c[f]
    BY <2>1 DEF Differ
  <2>3. HostWaits(k)
    BY <1>1, <2>2 DEF HostWaits, Calm, Registers, Fields
  <2>4. ClientWaits(d)
    BY <1>1, <2>2 DEF ClientWaits, Calm, Fields
  <2>5. Leaving(k) + 1 = Leaving(h)
    BY <2>1 DEF Leaving, One
  <2>6. Arrived(d) = Arrived(c) + 1
    <3>1. d.received_no_bytes = c.received_no_bytes /\ d.data = c.data
      BY <2>2 DEF Fields
    <3>2. c.received_no_bytes \in Nat /\ One(c.data >= 0) \in Nat
      BY <1>2 DEF MachineOK, One
    <3>3. One(d.rbr # << >>) = 1 /\ One(c.rbr # << >>) = 0
      BY <2>1 DEF One
    <3> QED
      BY <3>1, <3>2, <3>3 DEF Arrived
  <2>7. k.num_round_sent_bytes = h.num_round_sent_bytes
    BY <2>2 DEF Registers, Fields
  <2>8. Leaving(k) \in Nat /\ Arrived(c) \in Nat /\ h.num_round_sent_bytes \in Nat
    BY <1>2 DEF Leaving, Arrived, One, MachineOK
  <2>9. Leaving(k) + Arrived(d) <= k.num_round_sent_bytes
    BY <1>1, <2>5, <2>6, <2>7, <2>8
  <2>10. ~d.game_started
    BY <2>4 DEF ClientWaits
  <2> QED
    BY <2>1, <2>3, <2>4, <2>9, <2>10 DEF TurnInv, k, d
<1>4. CASE m = "client"
  <2>1. /\ PcOK' /\ Differ(c, d, Registers) /\ d.tsr = c.thr /\ d.thr = << >>
        /\ Differ(h, k, {"rbr"}) /\ k.rbr = c.tsr
    BY <1>4, TwoMachines, Delivers
  <2> HIDE DEF h, c, k, d
  <2>2. /\ \A f \in Fields \ Registers : d[f] = c[f]
        /\ \A f \in Fields \ {"rbr"} : k[f] = h[f]
    BY <2>1 DEF Differ
  <2>3. Only(k.rbr, Early) /\ Only(d.thr, Early) /\ Only(d.tsr, Early)
    BY <1>1, <2>1 DEF ClientWaits, Only
  <2>4. HostWaits(k)
    BY <1>1, <2>2, <2>3 DEF HostWaits, Calm, Fields
  <2>5. ClientWaits(d)
    BY <1>1, <2>2, <2>3 DEF ClientWaits, Calm, Registers, Fields
  <2>6. Leaving(k) = Leaving(h) /\ k.num_round_sent_bytes = h.num_round_sent_bytes
    BY <2>2 DEF Leaving, Fields
  <2>7. Arrived(d) = Arrived(c)
    BY <2>2 DEF Arrived, Registers, Fields
  <2>8. ~d.game_started
    BY <2>5 DEF ClientWaits
  <2> QED
    BY <1>1, <2>1, <2>4, <2>5, <2>6, <2>7, <2>8 DEF TurnInv, k, d
<1> QED
  BY <1>3, <1>4, TwoMachines

\* Both computers wait, and no more than the two bytes are on their way.
LEMMA Waiting ==
  ASSUME PcOK, TurnInv, ~pc["client"].game_started
  PROVE  HostWaits(pc["host"]) /\ ClientWaits(pc["client"]) /\ Arrived(pc["client"]) <= 2
<1> DEFINE h == pc["host"]
           c == pc["client"]
<1>1. HostWaits(h) /\ ClientWaits(c) /\ Leaving(h) + Arrived(c) <= h.num_round_sent_bytes
  BY DEF TurnInv
<1>2. h.num_round_sent_bytes <= 2
  BY <1>1 DEF HostWaits
<1>3. /\ h.num_round_sent_bytes \in Nat /\ Leaving(h) \in Nat /\ Arrived(c) \in Nat
  BY TwoMachines DEF PcOK, MachineOK, Leaving, Arrived, One
<1>4. Arrived(c) <= 2
  BY <1>1, <1>2, <1>3
<1> QED
  BY <1>1, <1>4

\* Every step before the client has started
LEMMA WaitingStep ==
  ASSUME PcOK, TurnInv, ~pc["client"].game_started, Sessions <= 1, Next
  PROVE  PcOK' /\ TurnInv'
<1>1. /\ HostWaits(pc["host"]) /\ ClientWaits(pc["client"]) /\ Arrived(pc["client"]) <= 2
  BY Waiting
<1>2. CASE \E n \in Rounds : Host_mp_game(n)
  BY <1>1, <1>2, HostEnters, HostWaitsOn
<1>3. CASE Connect_mp_game
  BY <1>1, <1>3, ClientEnters, ClientWaitsOn
<1>4. ASSUME NEW m \in Machines, (\E hs \in Notifications : Notify(m, hs)) \/ IgnoreUart(m)
      PROVE  PcOK' /\ TurnInv'
  <2>1. PICK t : pc' = [pc EXCEPT ![m] = t] /\ Reads(pc[m], t)
    BY <1>4, NotifyReads
  <2>2. CASE m = "host"
    BY <1>1, <2>1, <2>2, HostReads, HostWaitsOn
  <2>3. CASE m = "client"
    BY <1>1, <2>1, <2>3, ClientReads, ClientWaitsOn
  <2> QED
    BY <2>2, <2>3, TwoMachines
<1>5. ASSUME NEW m \in Machines, HandlerStep(m)
      PROVE  PcOK' /\ TurnInv'
  <2>1. CASE m = "host"
    BY <1>1, <1>5, <2>1, HostHandler, HostWaitsOn
  <2>2. CASE m = "client"
    BY <1>1, <1>5, <2>2, ClientHandler, ClientWaitsOn
  <2> QED
    BY <2>1, <2>2, TwoMachines
<1>6. ASSUME NEW m \in Machines, Deliver(m)
      PROVE  PcOK' /\ TurnInv'
  BY <1>6, WaitingDelivery
<1>7. CASE Idle
  BY <1>7 DEF Idle, PcOK, TurnInv
<1> QED
  BY <1>2, <1>3, <1>4, <1>5, <1>6, <1>7 DEF Next

\* Every step after it: turns are passed on, never made.
LEMMA PlayingStep ==
  ASSUME PcOK, TurnInv, pc["client"].game_started, Sessions <= 1, Next
  PROVE  PcOK' /\ TurnInv' /\ pc'["client"].game_started
<1> DEFINE h == pc["host"]
           c == pc["client"]
<1>1. /\ h.num_round_sent_bytes = 2 /\ h.sessions = 1 /\ c.sessions = 1
      /\ Tokens("host", h) + Tokens("client", c) <= 1
  BY DEF TurnInv
<1>2. \A m \in Machines : MachineOK(pc[m])
  BY DEF PcOK
<1>3. ASSUME NEW m \in Machines, NEW t, Continues(m, t)
      PROVE  PcOK' /\ TurnInv' /\ pc'["client"].game_started
  <2>1. pc'[m] = t /\ PcOK' /\ \A o \in Machines : o # m => pc'[o] = pc[o]
    BY <1>3, Replaced DEF Continues
  <2>2. /\ Tokens(m, t) <= Tokens(m, pc[m]) /\ (pc[m].game_started => t.game_started)
        /\ t.sessions = pc[m].sessions /\ t.num_round_sent_bytes = pc[m].num_round_sent_bytes
    BY <1>3 DEF Continues
  <2>3. /\ Tokens(m, t) \in Nat /\ Tokens("host", h) \in Nat /\ Tokens("client", c) \in Nat
    BY TokensAreNat
  <2>4. CASE m = "host"
    <3>1. pc'["host"] = t /\ pc'["client"] = c
      BY <2>1, <2>4, TwoMachines
    <3>2. Tokens("host", t) + Tokens("client", c) <= 1
      BY <1>1, <2>2, <2>3, <2>4
    <3> QED
      BY <1>1, <2>1, <2>2, <2>4, <3>1, <3>2 DEF TurnInv
  <2>5. CASE m = "client"
    <3>1. pc'["host"] = h /\ pc'["client"] = t
      BY <2>1, <2>5, TwoMachines
    <3>2. Tokens("host", h) + Tokens("client", t) <= 1
      BY <1>1, <2>2, <2>3, <2>5
    <3> QED
      BY <1>1, <2>1, <2>2, <2>5, <3>1, <3>2 DEF TurnInv
  <2> QED
    BY <2>4, <2>5, TwoMachines
<1>4. CASE (\E n \in Rounds : Host_mp_game(n)) \/ Connect_mp_game
  <2>1. h.sessions < Sessions \/ c.sessions < Sessions
    BY <1>4 DEF Host_mp_game, Connect_mp_game
  <2> HIDE DEF h, c
  <2> QED
    BY <1>1, <2>1, BoundsAssumption
<1>5. ASSUME NEW m \in Machines, (\E hs \in Notifications : Notify(m, hs)) \/ IgnoreUart(m)
      PROVE  PcOK' /\ TurnInv' /\ pc'["client"].game_started
  <2>1. PICK t : pc' = [pc EXCEPT ![m] = t] /\ Reads(pc[m], t)
    BY <1>5, NotifyReads
  <2>2. Tokens(m, t) <= Tokens(m, pc[m]) /\ TodoOK(m, t)
    BY <1>2, <2>1, ReadsTokens
  <2>3. /\ MachineOK(t) /\ t.game_started = pc[m].game_started /\ t.sessions = pc[m].sessions
        /\ t.num_round_sent_bytes = pc[m].num_round_sent_bytes
    BY <2>1 DEF Reads, Differ, Fields
  <2>4. Continues(m, t)
    BY <2>1, <2>2, <2>3 DEF Continues
  <2> QED
    BY <1>3, <2>4
<1>6. ASSUME NEW m \in Machines, HandlerStep(m)
      PROVE  PcOK' /\ TurnInv' /\ pc'["client"].game_started
  <2>1. (m = "client" => pc[m].game_started) /\ (m = "host" => pc[m].num_round_sent_bytes = 2)
    BY <1>1
  <2>2. PICK t : Continues(m, t)
    BY <1>6, <2>1, HandlerTurns
  <2> QED
    BY <1>3, <2>2
<1>7. ASSUME NEW m \in Machines, Deliver(m)
      PROVE  PcOK' /\ TurnInv' /\ pc'["client"].game_started
  <2>1. /\ PcOK' /\ Differ(pc[m], pc'[m], Registers)
        /\ Differ(pc[Other(m)], pc'[Other(m)], {"rbr"})
    BY <1>7, Delivers
  <2>2. \A f \in {"game_started", "sessions", "num_round_sent_bytes"} :
          pc'[m][f] = pc[m][f] /\ pc'[Other(m)][f] = pc[Other(m)][f]
    BY <2>1 DEF Differ, Registers, Fields
  <2>3. \A o \in Machines : \A f \in {"game_started", "sessions", "num_round_sent_bytes"} :
          pc'[o][f] = pc[o][f]
    BY <2>2, TwoMachines
  <2>4. /\ pc'["host"].sessions = 1 /\ pc'["host"].num_round_sent_bytes = 2
        /\ pc'["client"].sessions = 1 /\ pc'["client"].game_started
    BY <1>1, <2>3, TwoMachines
  <2>5. Tokens(m, pc'[m]) + Tokens(Other(m), pc'[Other(m)])
          = Tokens(m, pc[m]) + Tokens(Other(m), pc[Other(m)])
    BY <1>7, DeliverTokens
  <2>6. Tokens("host", pc'["host"]) + Tokens("client", pc'["client"])
          = Tokens("host", h) + Tokens("client", c)
    <3>1. /\ Tokens("host", pc'["host"]) \in Nat /\ Tokens("client", pc'["client"]) \in Nat
          /\ Tokens("host", h) \in Nat /\ Tokens("client", c) \in Nat
      BY TokensAreNat
    <3>2. CASE m = "host"
      <4>1. Other(m) = "client"
        BY <3>2, TwoMachines
      <4> QED
        BY <2>5, <3>2, <4>1
    <3>3. CASE m = "client"
      <4>1. Other(m) = "host"
        BY <3>3, TwoMachines
      <4>2. Tokens("client", pc'["client"]) + Tokens("host", pc'["host"])
              = Tokens("client", c) + Tokens("host", h)
        BY <2>5, <3>3, <4>1
      <4> QED
        BY <3>1, <4>2
    <3> QED
      BY <3>2, <3>3, TwoMachines
  <2> QED
    BY <1>1, <2>1, <2>4, <2>6 DEF TurnInv
<1>8. CASE Idle
  BY <1>8 DEF Idle, PcOK, TurnInv
<1> QED
  BY <1>3, <1>4, <1>5, <1>6, <1>7, <1>8 DEF Next

\* In the first game of two computers the turn is on one of them or in one byte
\* between them, so the two never both take it for their own: whatever the
\* players click, however often the clocks tick and however late a byte arrives.
THEOREM TurnAlwaysExclusive ==
  ASSUME Sessions <= 1
  PROVE  Spec => []TurnExclusion
<1>1. Init => PcOK /\ TurnInv
  BY TurnInit
<1>2. PcOK /\ TurnInv /\ [Next]_pc => (PcOK /\ TurnInv)'
  <2> SUFFICES ASSUME PcOK, TurnInv, [Next]_pc PROVE PcOK' /\ TurnInv'
    OBVIOUS
  <2>1. CASE Next
    BY <2>1, WaitingStep, PlayingStep
  <2>2. CASE UNCHANGED pc
    BY <2>2 DEF PcOK, TurnInv
  <2> QED
    BY <2>1, <2>2
<1>3. PcOK /\ TurnInv => TurnExclusion
  <2> SUFFICES ASSUME TurnInv, BothActive, HasTurn("host"), HasTurn("client") PROVE FALSE
    BY DEF TurnExclusion
  <2>1. pc["client"].game_started
    BY TwoMachines DEF BothActive, Active
  <2>2. Tokens("host", pc["host"]) + Tokens("client", pc["client"]) <= 1
    BY <2>1 DEF TurnInv
  <2>3. One(MyTurn("host", pc["host"])) = 1 /\ One(MyTurn("client", pc["client"])) = 1
    BY DEF HasTurn, One
  <2> QED
    BY <2>2, <2>3, TokensAreNat DEF Tokens
<1> QED
  BY <1>1, <1>2, <1>3, PTL DEF Spec

-----------------------------------------------------------------------------
(* The handlers that are due and the byte one of them will read            *)

\* The handler of the UART comes last, and a byte that was read waits for it.
UartLast(s) ==
  /\ \A i \in 1..Len(s.todo) : s.todo[i] = "uart" => i = Len(s.todo)
  /\ s.data >= 0 => s.todo # << >> /\ s.todo[Len(s.todo)] = "uart"

\* A handler that ends leaves the others in their order.
LEMMA NextIsDue ==
  ASSUME NEW s, MachineOK(s), UartLast(s), s.todo # << >>, NEW t,
         t.todo = Tail(s.todo), t.data = IF Head(s.todo) = "uart" THEN -1 ELSE s.data
  PROVE  /\ UartLast(t)
         /\ Head(s.todo) = "uart" => t.todo = << >>
<1>1. s.todo \in Seq(TaskNames) /\ s.data \in Int
  BY DEF MachineOK
<1>2. /\ Len(s.todo) \in Nat \ {0} /\ t.todo \in Seq(TaskNames) /\ Len(t.todo) = Len(s.todo) - 1
      /\ \A i \in 1..Len(t.todo) : t.todo[i] = s.todo[i + 1]
      /\ Head(s.todo) = s.todo[1]
  BY <1>1, HeadTailProperties, EmptySeq, LenProperties
<1>0. /\ t.todo \in Seq(TaskNames) /\ Len(t.todo) = Len(s.todo) - 1
      /\ Len(s.todo) \in Nat /\ Len(s.todo) >= 1
  BY <1>2
<1>3. Head(s.todo) = "uart" => t.todo = << >>
  <2> SUFFICES ASSUME Head(s.todo) = "uart" PROVE t.todo = << >>
    OBVIOUS
  <2>1. 1 \in 1..Len(s.todo) /\ s.todo[1] = "uart"
    BY <1>2
  <2>3. Len(s.todo) = 1
    BY <2>1 DEF UartLast
  <2>2. Len(t.todo) = 0
    BY <1>2, <2>3
  <2> QED
    BY <1>2, <2>2, EmptySeq
<1>4. ASSUME NEW i \in 1..Len(t.todo), t.todo[i] = "uart" PROVE i = Len(t.todo)
  <2>1. i + 1 \in 1..Len(s.todo) /\ s.todo[i + 1] = "uart"
    BY <1>2, <1>4
  <2>2. i + 1 = Len(s.todo)
    BY <2>1 DEF UartLast
  <2> QED
    BY <1>2, <2>2
<1>5. ASSUME t.data >= 0 PROVE t.todo # << >> /\ t.todo[Len(t.todo)] = "uart"
  <2>1. ~(-1 >= 0)
    OBVIOUS
  <2>2. Head(s.todo) # "uart" /\ s.data >= 0
    BY <1>5, <2>1
  <2>3. s.todo[Len(s.todo)] = "uart"
    BY <2>2 DEF UartLast
  <2>4. Len(s.todo) # 1
    BY <1>2, <2>2, <2>3
  <2> DEFINE n == Len(s.todo)
             k == Len(t.todo)
  <2>8. n \in Nat /\ n >= 1 /\ n # 1 /\ k = n - 1
    BY <1>0, <2>4
  <2> HIDE DEF n, k
  <2>9. k \in 1..k /\ k # 0
    BY <2>8
  <2>5. Len(t.todo) \in 1..Len(t.todo)
    BY <2>9 DEF k
  <2>6. t.todo[Len(t.todo)] = s.todo[Len(s.todo)]
    BY <1>2, <2>5
  <2>7. Len(t.todo) # 0
    BY <2>9 DEF k
  <2> QED
    BY <1>2, <2>3, <2>6, <2>7, EmptySeq
<1> QED
  BY <1>3, <1>4, <1>5 DEF UartLast

\* event_handler calls the handler of the UART last.
LEMMA TasksInOrder ==
  ASSUME NEW hs
  PROVE  /\ \A i \in 1..Len(Tasks(hs)) :
              Tasks(hs)[i] = "uart" => i = Len(Tasks(hs)) /\ "uart" \in hs
         /\ "uart" \in hs => Tasks(hs) # << >> /\ Tasks(hs)[Len(Tasks(hs))] = "uart"
<1> DEFINE S == {"key", "mouse", "rtc"}
           x == Task("key", hs) \o Task("mouse", hs) \o Task("rtc", hs)
           u == Task("uart", hs)
<1>1. ASSUME NEW h \in S PROVE Task(h, hs) \in Seq(S)
  <2> HIDE DEF S
  <2>1. <<h>> \in Seq(S) /\ << >> \in Seq(S)
    OBVIOUS
  <2> QED
    BY <2>1 DEF Task
<1>2. x \in Seq(S)
  BY <1>1
<1>3. Tasks(hs) = x \o u
  BY DEF Tasks
<1>4. \A i \in 1..Len(x) : x[i] # "uart"
  <2> HIDE DEF x
  <2>1. \A i \in 1..Len(x) : x[i] \in S
    BY <1>2, ElementOfSeq
  <2> QED
    BY <2>1
<1>5. CASE "uart" \in hs
  <2>1. u = <<"uart">>
    BY <1>5 DEF Task
  <2>2. <<"uart">> \in Seq({"uart"}) /\ Len(<<"uart">>) = 1 /\ <<"uart">>[1] = "uart"
    OBVIOUS
  <2> HIDE DEF x, u
  <2>5. x \in Seq(S) /\ Len(x) \in Nat
    BY <1>2
  <2>6. u \in Seq({"uart"}) /\ Len(u) = 1 /\ u[1] = "uart"
    BY <2>1, <2>2
  <2>7. x \in Seq(S \cup {"uart"}) /\ u \in Seq(S \cup {"uart"})
    BY <2>5, <2>6
  <2>3. /\ Len(x) \in Nat /\ Len(x \o u) = Len(x) + 1
        /\ \A i \in 1..Len(x) : (x \o u)[i] = x[i]
        /\ (x \o u)[Len(x) + 1] = "uart"
    BY <2>5, <2>6, <2>7, ConcatProperties
  <2>4. x \o u # << >>
    BY <2>3
  <2> QED
    BY <1>3, <1>4, <1>5, <2>3, <2>4
<1>6. CASE "uart" \notin hs
  <2>1. u = << >>
    BY <1>6 DEF Task
  <2> HIDE DEF x
  <2>2. Tasks(hs) = x
    BY <1>2, <1>3, <2>1, ConcatEmptySeq
  <2> QED
    BY <1>4, <1>6, <2>2
<1> QED
  BY <1>5, <1>6

-----------------------------------------------------------------------------
(* The two bytes of the number of rounds                                   *)

\* The number of rounds in two bytes, low byte first: the high one is always 0.
RByte(h, i) == IF i = 0 THEN h.max_buttons_size % 256 ELSE 0

\* What the uint8_t cast leaves of the number of rounds
LEMMA SentByte ==
  ASSUME NEW h, MachineOK(h), MoreBytes(h)
  PROVE  RoundsByte(h) = RByte(h, h.num_round_sent_bytes) /\ RoundsByte(h) \in Nat
<1> DEFINE k == h.max_buttons_size % 256
<1>1. h.num_round_sent_bytes = 0 \/ h.num_round_sent_bytes = 1
  BY DEF MachineOK, MoreBytes
<1>2. k \in 0..255
  <2>1. \A n \in Nat : n % 256 \in 0..255
    OBVIOUS
  <2> QED
    BY <2>1 DEF MachineOK
<1>3. 256 ^ 0 = 1 /\ 256 ^ 1 = 256
  OBVIOUS
<1> HIDE DEF k
<1>4. k \div 1 = k /\ k \div 256 = 0
  BY <1>2
<1>5. CASE h.num_round_sent_bytes = 0
  <2>1. RoundsByte(h) = k \div 1
    BY <1>3, <1>5 DEF RoundsByte, k
  <2> QED
    BY <1>2, <1>4, <1>5, <2>1 DEF RByte, k
<1>6. CASE h.num_round_sent_bytes = 1
  <2>1. RoundsByte(h) = k \div 256
    BY <1>3, <1>6 DEF RoundsByte, k
  <2> QED
    BY <1>4, <1>6, <2>1 DEF RByte
<1> QED
  BY <1>1, <1>5, <1>6

-----------------------------------------------------------------------------
(* A notification                                                          *)

NoUart(s) == \A i \in 1..Len(s.todo) : s.todo[i] # "uart"

\* The UART's interrupt is handled last, ignored on another screen, or not there.
Noticed(s, t) ==
  /\ s.todo = << >>
  /\ \/ /\ s.mode = "MP_GAME" /\ UartInterrupt(s)
        /\ t.rbr = << >> /\ t.data = UartCause(s) /\ t.todo # << >>
        /\ t.todo[Len(t.todo)] = "uart"
        /\ \A i \in 1..Len(t.todo) : t.todo[i] = "uart" => i = Len(t.todo)
     \/ s.mode = "MP_GAME" /\ t.rbr = s.rbr /\ t.data = s.data /\ t.thre = s.thre /\ NoUart(t)
     \/ s.mode # "MP_GAME" /\ UartInterrupt(s) /\ t.rbr = << >> /\ t.data = s.data /\ t.todo = << >>

\* A notification, in detail
LEMMA Notices ==
  ASSUME PcOK, NEW m \in Machines,
         (\E hs \in Notifications : Notify(m, hs)) \/ IgnoreUart(m)
  PROVE  \E t : pc' = [pc EXCEPT ![m] = t] /\ Reads(pc[m], t) /\ Noticed(pc[m], t)
<1> DEFINE s == pc[m]
           r == UartRead(s)
<1>0. MachineOK(s)
  BY DEF PcOK
<1>1. PICK t : pc' = [pc EXCEPT ![m] = t] /\ Reads(pc[m], t)
  BY NotifyReads
<1>2. pc'[m] = t
  BY <1>1 DEF PcOK
<1>3. MachineOK(r) /\ Differ(s, r, {"rbr", "thre"}) /\ r.rbr = << >>
  BY <1>0, UartReads
<1>4. ASSUME NEW hs \in Notifications, Notify(m, hs)
      PROVE  Noticed(s, t)
  <2>1. /\ s.mode = "MP_GAME" /\ s.todo = << >> /\ ("uart" \in hs => UartInterrupt(s))
        /\ pc' = [pc EXCEPT ![m] = IF "uart" \in hs
                                   THEN [r EXCEPT !.todo = Tasks(hs), !.data = UartCause(s)]
                                   ELSE [s EXCEPT !.todo = Tasks(hs)]]
    BY <1>4 DEF Notify
  <2>2. t = IF "uart" \in hs THEN [r EXCEPT !.todo = Tasks(hs), !.data = UartCause(s)]
            ELSE [s EXCEPT !.todo = Tasks(hs)]
    BY <1>2, <2>1 DEF PcOK
  <2> HIDE DEF s, r
  <2>3. CASE "uart" \in hs
    <3>1. t = [r EXCEPT !.todo = Tasks(hs), !.data = UartCause(s)]
      BY <2>2, <2>3
    <3>2. t.rbr = << >> /\ t.data = UartCause(s) /\ t.todo = Tasks(hs)
      BY <1>3, <3>1 DEF MachineOK, IsRecord, Fields
    <3> QED
      BY <2>1, <2>3, <3>2, TasksInOrder DEF Noticed
  <2>4. CASE "uart" \notin hs
    <3>1. t = [s EXCEPT !.todo = Tasks(hs)]
      BY <2>2, <2>4
    <3>2. t.rbr = s.rbr /\ t.data = s.data /\ t.thre = s.thre /\ t.todo = Tasks(hs)
      BY <1>0, <3>1 DEF MachineOK, IsRecord, Fields
    <3>3. NoUart(t)
      BY <2>4, <3>2, TasksInOrder DEF NoUart
    <3> QED
      BY <2>1, <3>2, <3>3 DEF Noticed
  <2> QED
    BY <2>3, <2>4
<1>5. ASSUME IgnoreUart(m) PROVE Noticed(s, t)
  <2>1. s.mode # "MP_GAME" /\ s.todo = << >> /\ UartInterrupt(s) /\ pc' = [pc EXCEPT ![m] = r]
    BY <1>5 DEF IgnoreUart
  <2>2. t = r
    BY <1>2, <2>1 DEF PcOK
  <2> HIDE DEF s, r
  <2>3. r.todo = s.todo /\ r.data = s.data
    BY <1>3 DEF Differ, Fields
  <2> QED
    BY <1>3, <2>1, <2>2, <2>3 DEF Noticed
<1>6. Noticed(s, t)
  BY <1>4, <1>5
<1> QED
  BY <1>1, <1>6

-----------------------------------------------------------------------------
(* The handshake, byte by byte                                             *)

Is(q, b) == q # << >> => q[1] = b

\* Before the client connects the host has heard nothing and said nothing.
Untouched(h, c) ==
  /\ h.rbr = << >> /\ h.data < 0 /\ ~h.thre /\ h.num_round_sent_bytes = 0 /\ NoUart(h)
  /\ c.tsr = << >> /\ c.thr = << >>

\* The bytes the host has sent are, in order, the ones the client has read, the
\* one it is about to read, the one that arrived and the ones still on the host.
Numbered(h, c) ==
  LET r == c.received_no_bytes
      d == r + One(c.data >= 0)
      b == d + One(c.rbr # << >>)
      t == b + One(h.tsr # << >>)
  IN  /\ t + One(h.thr # << >>) = h.num_round_sent_bytes
      /\ c.data >= 0 => c.data = RByte(h, r)
      /\ Is(c.rbr, RByte(h, d)) /\ Is(h.tsr, RByte(h, b)) /\ Is(h.thr, RByte(h, t))
      /\ r >= 1 => c.received_byte = RByte(h, 0)
      /\ r = 2 => c.max_buttons_size = RByte(h, 0) /\ FreshGame(c)

\* A client that left its waiting screen does not come back in this session.
Connected(c) == c.sessions = 1 /\ (c.mode = "MP_GAME" \/ c.todo # << >>)

HandInv ==
  LET h == pc["host"]
      c == pc["client"]
  IN  ~c.game_started =>
        /\ UartLast(c)
        /\ c.sessions = 0 => Untouched(h, c)
        /\ Connected(c) => Numbered(h, c)

\* The host says the next byte or nothing.
LEMMA HostNumbers ==
  ASSUME NEW h, MachineOK(h), NEW k, MachineOK(k), HostSaid(h, k), NEW c, MachineOK(c),
         Numbered(h, c)
  PROVE  Numbered(k, c)
<1>1. k.max_buttons_size = h.max_buttons_size
  BY DEF HostSaid, Registers, Fields
<1>2. \A i : RByte(k, i) = RByte(h, i)
  BY <1>1 DEF RByte
<1> DEFINE r == c.received_no_bytes
           d == r + One(c.data >= 0)
           b == d + One(c.rbr # << >>)
           t == b + One(h.tsr # << >>)
<1>0. /\ One(c.data >= 0) \in Nat /\ One(c.rbr # << >>) \in Nat
      /\ One(h.tsr # << >>) \in Nat /\ r \in Nat
  BY DEF MachineOK, One
<1>3. r \in Nat /\ d \in Nat /\ b \in Nat /\ t \in Nat
  BY <1>0
<1>4. /\ t + One(h.thr # << >>) = h.num_round_sent_bytes
      /\ c.data >= 0 => c.data = RByte(h, r)
      /\ Is(c.rbr, RByte(h, d)) /\ Is(h.tsr, RByte(h, b)) /\ Is(h.thr, RByte(h, t))
      /\ r >= 1 => c.received_byte = RByte(h, 0)
      /\ r = 2 => c.max_buttons_size = RByte(h, 0) /\ FreshGame(c)
  BY DEF Numbered
<1> DEFINE T == b + One(k.tsr # << >>)
<1>5. SUFFICES /\ T + One(k.thr # << >>) = k.num_round_sent_bytes
               /\ Is(k.tsr, RByte(h, b)) /\ Is(k.thr, RByte(h, T))
  BY <1>2, <1>4 DEF Numbered
<1>6. CASE \A f \in Registers \cup {"num_round_sent_bytes"} : k[f] = h[f]
  BY <1>4, <1>6 DEF Registers
<1>7. CASE /\ MoreBytes(h) /\ Pushed(h, k, RoundsByte(h))
           /\ k.num_round_sent_bytes = h.num_round_sent_bytes + 1
  <2>1. RoundsByte(h) = RByte(h, h.num_round_sent_bytes)
    BY <1>7, SentByte
  <2>2. h.thr = << >> /\ t = h.num_round_sent_bytes
    BY <1>3, <1>4, <1>7 DEF Pushed, One
  <2> DEFINE x == RoundsByte(h)
  <2> HIDE DEF x, b
  <2>3. CASE h.tsr = << >> /\ k.tsr = <<x>> /\ k.thr = << >>
    <3>1. t = b /\ T = b + 1 /\ k.tsr[1] = x /\ k.tsr # << >>
      BY <1>3, <2>3 DEF One
    <3>2. x = RByte(h, b)
      BY <2>1, <2>2, <3>1 DEF x
    <3> QED
      BY <1>3, <1>7, <2>2, <2>3, <3>1, <3>2 DEF Is, One
  <2>4. CASE h.tsr # << >> /\ k.tsr = h.tsr /\ k.thr = <<x>>
    <3>1. T = t /\ k.thr[1] = x /\ k.thr # << >>
      BY <2>4
    <3>2. x = RByte(h, T)
      BY <2>1, <2>2, <3>1 DEF x
    <3>3. T + 1 = k.num_round_sent_bytes
      BY <1>7, <2>2, <3>1
    <3> QED
      BY <1>3, <1>4, <2>4, <3>1, <3>2, <3>3 DEF Is, One
  <2> QED
    BY <1>7, <2>3, <2>4 DEF Pushed, x
<1> QED
  BY <1>6, <1>7 DEF HostSaid

\* The client reads the next byte or leaves it where it is.
LEMMA ClientNumbers ==
  ASSUME NEW c, MachineOK(c), NEW d, MachineOK(d), ClientSaid(c, d), NEW h, MachineOK(h),
         Numbered(h, c), c.data \in Int
  PROVE  Numbered(h, d)
<1>1. d.rbr = c.rbr
  BY DEF ClientSaid
<1>2. ~(-1 >= 0) /\ One(-1 >= 0) = 0
  BY DEF One
<1>3. RByte(h, 1) = 0 /\ RByte(h, 0) \in Nat
  <2>1. \A n \in Nat : n % 256 \in Nat
    OBVIOUS
  <2> QED
    BY <2>1 DEF RByte, MachineOK
<1>4. /\ c.received_no_bytes \in Nat /\ One(c.data >= 0) \in Nat /\ One(c.rbr # << >>) \in Nat
      /\ One(h.tsr # << >>) \in Nat /\ One(h.thr # << >>) \in Nat
  BY DEF MachineOK, One
<1>5. CASE Head(c.todo) = "uart" /\ c.data >= 0
  <2>1. d.data = -1 /\ One(d.data >= 0) = 0 /\ One(c.data >= 0) = 1
    BY <1>2, <1>5 DEF ClientSaid, One
  <2>2. CASE c.received_no_bytes = 0 /\ FirstByte(c, d)
    <3>1. d.received_no_bytes = 1 /\ d.received_byte = c.data /\ c.data = RByte(h, 0)
      BY <1>5, <2>2 DEF FirstByte, Numbered
    <3> QED
      BY <1>1, <1>2, <1>4, <2>1, <2>2, <3>1 DEF Numbered
  <2>3. CASE c.received_no_bytes = 1 /\ SecondByte(c, d)
    <3>1. c.data = RByte(h, 1) /\ c.received_byte = RByte(h, 0)
      BY <1>5, <2>3 DEF Numbered
    <3>2. /\ d.received_no_bytes = 2 /\ d.received_byte = c.received_byte /\ FreshGame(d)
          /\ d.max_buttons_size = c.data * 256 + c.received_byte
      BY <2>3 DEF SecondByte
    <3>3. d.max_buttons_size = RByte(h, 0)
      BY <1>3, <3>1, <3>2
    <3> QED
      BY <1>1, <1>2, <1>4, <2>1, <2>3, <3>1, <3>2, <3>3 DEF Numbered
  <2> QED
    BY <1>5, <2>2, <2>3 DEF ClientSaid
<1>6. CASE ~(Head(c.todo) = "uart" /\ c.data >= 0)
  <2>1. NoByte(c, d)
    BY <1>6 DEF ClientSaid
  <2>2. d.data = c.data \/ (~(c.data >= 0) /\ d.data = -1)
    BY <1>6 DEF ClientSaid
  <2>3. One(d.data >= 0) = One(c.data >= 0) /\ (d.data >= 0 => d.data = c.data)
    BY <1>2, <2>2 DEF One
  <2>4. /\ d.received_no_bytes = c.received_no_bytes /\ d.received_byte = c.received_byte
        /\ d.max_buttons_size = c.max_buttons_size
        /\ c.received_no_bytes = 2 /\ FreshGame(c) => FreshGame(d)
    BY <2>1 DEF NoByte
  <2> QED
    BY <1>1, <2>3, <2>4 DEF Numbered
<1> QED
  BY <1>5, <1>6

\* A byte moves up on the line.
LEMMA LineNumbers ==
  ASSUME NEW h, MachineOK(h), NEW k, Differ(h, k, Registers), k.tsr = h.thr, k.thr = << >>,
         NEW c, MachineOK(c), NEW d, Differ(c, d, {"rbr"}), d.rbr = h.tsr, c.rbr = << >>,
         h.tsr # << >>, Numbered(h, c)
  PROVE  Numbered(k, d)
<1>1. k.max_buttons_size = h.max_buttons_size /\ k.num_round_sent_bytes = h.num_round_sent_bytes
  BY DEF Differ, Registers, Fields
<1>2. \A i : RByte(k, i) = RByte(h, i)
  BY <1>1 DEF RByte
<1>3. \A f \in Fields \ {"rbr"} : d[f] = c[f]
  BY DEF Differ
<1>4. FreshGame(d) <=> FreshGame(c)
  BY <1>3 DEF FreshGame, Fields
<1>5. \A f \in {"received_no_bytes", "data", "received_byte", "max_buttons_size"} : d[f] = c[f]
  BY <1>3 DEF Fields
<1>6. /\ One(c.rbr # << >>) = 0 /\ One(h.tsr # << >>) = 1 /\ One(d.rbr # << >>) = 1
      /\ One(k.tsr # << >>) = One(h.thr # << >>) /\ One(k.thr # << >>) = 0
      /\ One(h.thr # << >>) \in Nat /\ One(c.data >= 0) \in Nat /\ c.received_no_bytes \in Nat
  BY DEF One, MachineOK
<1>7. c.data >= 0 <=> d.data >= 0
  BY <1>5
<1> DEFINE e == c.received_no_bytes + One(c.data >= 0)
<1>8. e \in Nat /\ e + 0 = e /\ e + 1 + 0 = e + 1
  BY <1>6
<1>9. /\ e + 1 + One(h.thr # << >>) = h.num_round_sent_bytes
      /\ c.data >= 0 => c.data = RByte(h, c.received_no_bytes)
      /\ Is(h.tsr, RByte(h, e)) /\ Is(h.thr, RByte(h, e + 1))
      /\ c.received_no_bytes >= 1 => c.received_byte = RByte(h, 0)
      /\ c.received_no_bytes = 2 => c.max_buttons_size = RByte(h, 0) /\ FreshGame(c)
  BY <1>6, <1>8 DEF Numbered
<1>10. d.received_no_bytes + One(d.data >= 0) = e
  BY <1>5, <1>7
<1> HIDE DEF e
<1>11. e + 1 + One(h.thr # << >>) + 0 = h.num_round_sent_bytes
  BY <1>6, <1>8, <1>9
<1>12. Is(k.thr, RByte(k, e + 1 + One(k.tsr # << >>)))
  BY DEF Is
<1> QED
  BY <1>1, <1>2, <1>4, <1>5, <1>6, <1>9, <1>10, <1>11, <1>12 DEF Numbered

\* Nothing has been said at the start.
LEMMA HandInit == ASSUME Init PROVE HandInv
<1> DEFINE h == pc["host"]
           c == pc["client"]
<1>1. /\ h.rbr = << >> /\ h.data = -1 /\ h.thre = FALSE /\ h.todo = << >>
      /\ h.num_round_sent_bytes = 0
      /\ c.tsr = << >> /\ c.thr = << >> /\ c.sessions = 0 /\ c.data = -1 /\ c.todo = << >>
  BY TwoMachines DEF Init
<1>2. ~(-1 >= 0) /\ -1 < 0 /\ Len(<< >>) = 0
  OBVIOUS
<1> HIDE DEF h, c
<1>3. UartLast(c) /\ NoUart(h)
  BY <1>1, <1>2 DEF UartLast, NoUart
<1> QED
  BY <1>1, <1>2, <1>3 DEF HandInv, Untouched, Connected, h, c

\* A step of the host while the client waits
LEMMA HostHandshakes ==
  ASSUME PcOK, TurnInv, HandInv, ~pc["client"].game_started, NEW t, HostGoesOn(t),
         \/ HostEntered(pc["host"], t)
         \/ Reads(pc["host"], t) /\ Noticed(pc["host"], t)
         \/ HostSaid(pc["host"], t) /\ pc["host"].todo # << >>
  PROVE  HandInv'
<1> DEFINE h == pc["host"]
           c == pc["client"]
<1>1. pc'["host"] = t /\ pc'["client"] = c /\ MachineOK(t)
  BY TwoMachines, Replaced DEF HostGoesOn
<1>2. MachineOK(h) /\ MachineOK(c)
  BY TwoMachines DEF PcOK
<1>3. /\ UartLast(c) /\ (c.sessions = 0 => Untouched(h, c)) /\ (Connected(c) => Numbered(h, c))
  BY DEF HandInv
<1>4. Leaving(h) + Arrived(c) <= h.num_round_sent_bytes
  BY DEF TurnInv
<1>5. SUFFICES /\ Untouched(h, c) => Untouched(t, c)
               /\ Numbered(h, c) => Numbered(t, c)
  BY <1>1, <1>3 DEF HandInv
<1>6. CASE HostEntered(h, t)
  <2> HIDE DEF h, c
  <2>1. \A f \in {"thr", "tsr", "thre", "rbr", "data", "todo", "num_round_sent_bytes"} : t[f] = h[f]
    BY <1>6 DEF HostEntered
  <2>2. Untouched(h, c) => Untouched(t, c)
    BY <2>1 DEF Untouched, NoUart
  <2>3. ASSUME Numbered(h, c) PROVE Numbered(t, c)
    <3>1. h.num_round_sent_bytes = 0
      BY <1>6 DEF HostEntered
    <3>2. /\ c.received_no_bytes \in Nat
          /\ One(c.data >= 0) \in {0, 1} /\ One(c.rbr # << >>) \in {0, 1}
          /\ One(h.tsr # << >>) \in {0, 1} /\ One(h.thr # << >>) \in {0, 1}
      BY <1>2 DEF MachineOK, One
    <3>3. c.received_no_bytes + One(c.data >= 0) + One(c.rbr # << >>) + One(h.tsr # << >>)
            + One(h.thr # << >>) = 0
      BY <2>3, <3>1 DEF Numbered
    <3>4. /\ c.received_no_bytes = 0 /\ One(c.data >= 0) = 0 /\ One(c.rbr # << >>) = 0
          /\ One(h.tsr # << >>) = 0 /\ One(h.thr # << >>) = 0
      BY <3>2, <3>3
    <3>5. c.rbr = << >> /\ h.tsr = << >> /\ h.thr = << >> /\ ~(c.data >= 0)
      BY <3>4 DEF One
    <3> QED
      BY <2>1, <3>1, <3>4, <3>5 DEF Numbered, Is
  <2> QED
    BY <2>2, <2>3
<1>7. CASE Reads(h, t) /\ Noticed(h, t)
  <2> HIDE DEF h, c
  <2>1. \A f \in Fields \ {"rbr", "thre", "todo", "data"} : t[f] = h[f]
    BY <1>7 DEF Reads, Differ
  <2>2. Numbered(h, c) => Numbered(t, c)
    BY <2>1 DEF Numbered, RByte, Fields
  <2>3. ASSUME Untouched(h, c) PROVE Untouched(t, c)
    <3>1. ~UartInterrupt(h)
      BY <2>3 DEF Untouched, UartInterrupt
    <3>2. t.rbr = h.rbr /\ t.data = h.data /\ t.thre = h.thre /\ NoUart(t)
      BY <1>7, <3>1 DEF Noticed
    <3>3. t.num_round_sent_bytes = h.num_round_sent_bytes
      BY <2>1 DEF Fields
    <3> QED
      BY <2>3, <3>2, <3>3 DEF Untouched
  <2> QED
    BY <2>2, <2>3
<1>8. CASE HostSaid(h, t) /\ h.todo # << >>
  <2> HIDE DEF h, c
  <2>1. Numbered(h, c) => Numbered(t, c)
    BY <1>1, <1>2, <1>8, HostNumbers
  <2>2. ASSUME Untouched(h, c) PROVE Untouched(t, c)
    <3>1. h.todo \in Seq(TaskNames)
      BY <1>2 DEF MachineOK
    <3>2. /\ Len(h.todo) \in Nat \ {0} /\ Len(Tail(h.todo)) = Len(h.todo) - 1
          /\ \A i \in 1..Len(Tail(h.todo)) : Tail(h.todo)[i] = h.todo[i + 1]
          /\ Head(h.todo) = h.todo[1]
      BY <1>8, <3>1, HeadTailProperties, EmptySeq, LenProperties
    <3>3. Head(h.todo) # "uart"
      BY <2>2, <3>2 DEF Untouched, NoUart
    <3>4. \A i \in 1..Len(Tail(h.todo)) : i + 1 \in 1..Len(h.todo)
      BY <3>2
    <3>5. NoUart(t)
      BY <1>8, <2>2, <3>2, <3>4 DEF HostSaid, Untouched, NoUart
    <3>6. /\ t.data = h.data /\ t.rbr = h.rbr /\ t.thre = h.thre
          /\ t.num_round_sent_bytes = h.num_round_sent_bytes
      BY <1>8, <3>3 DEF HostSaid, Registers, Fields
    <3> QED
      BY <2>2, <3>5, <3>6 DEF Untouched
  <2> QED
    BY <2>1, <2>2
<1> QED
  BY <1>6, <1>7, <1>8

\* A step of the client while it waits
LEMMA ClientHandshakes ==
  ASSUME PcOK, TurnInv, HandInv, ~pc["client"].game_started, NEW t, ClientGoesOn(t),
         \/ ClientEntered(pc["client"], t)
         \/ Reads(pc["client"], t) /\ Noticed(pc["client"], t)
         \/ ClientSaid(pc["client"], t) /\ pc["client"].todo # << >>
  PROVE  HandInv'
<1> DEFINE h == pc["host"]
           c == pc["client"]
<1>1. pc'["host"] = h /\ pc'["client"] = t /\ MachineOK(t)
  BY TwoMachines, Replaced DEF ClientGoesOn
<1>2. MachineOK(h) /\ MachineOK(c)
  BY TwoMachines DEF PcOK
<1>3. /\ UartLast(c) /\ (c.sessions = 0 => Untouched(h, c)) /\ (Connected(c) => Numbered(h, c))
  BY DEF HandInv
<1>4. Leaving(h) + Arrived(c) <= h.num_round_sent_bytes /\ ClientWaits(c)
  BY DEF TurnInv
<1>5. SUFFICES ASSUME ~t.game_started
               PROVE  /\ UartLast(t) /\ (t.sessions = 0 => Untouched(h, t))
                      /\ (Connected(t) => Numbered(h, t))
  BY <1>1 DEF HandInv
<1>0. c.data \in Int /\ t.data \in Int /\ ~(-1 >= 0) /\ Len(<< >>) = 0
  BY <1>1, <1>2 DEF MachineOK
<1>6. CASE ClientEntered(c, t)
  <2> HIDE DEF h, c
  <2>1. c.sessions = 0 /\ t.sessions = 1 /\ t.todo = << >> /\ t.received_no_bytes = 0
          /\ t.rbr = c.rbr /\ t.data = c.data
    BY <1>6 DEF ClientEntered
  <2>2. h.num_round_sent_bytes = 0
    BY <1>3, <2>1 DEF Untouched
  <2>3. /\ c.received_no_bytes \in Nat
        /\ One(c.data >= 0) \in {0, 1} /\ One(c.rbr # << >>) \in {0, 1}
        /\ One(h.tsr # << >>) \in {0, 1} /\ One(h.thr # << >>) \in {0, 1}
    BY <1>2 DEF MachineOK, One
  <2>4. /\ One(c.data >= 0) = 0 /\ One(c.rbr # << >>) = 0
        /\ One(h.tsr # << >>) = 0 /\ One(h.thr # << >>) = 0
    BY <1>4, <2>2, <2>3 DEF Leaving, Arrived
  <2>5. c.rbr = << >> /\ h.tsr = << >> /\ h.thr = << >> /\ ~(c.data >= 0)
    BY <2>4 DEF One
  <2>6. UartLast(t)
    BY <1>0, <2>1, <2>5 DEF UartLast
  <2>7. Numbered(h, t)
    BY <2>1, <2>2, <2>4, <2>5 DEF Numbered, Is
  <2> QED
    BY <2>1, <2>6, <2>7
<1>7. CASE Reads(c, t) /\ Noticed(c, t)
  <2> HIDE DEF h, c
  <2>1. \A f \in Fields \ {"rbr", "thre", "todo", "data"} : t[f] = c[f]
    BY <1>7 DEF Reads, Differ
  <2>2. c.todo = << >> /\ ~(c.data >= 0)
    BY <1>3, <1>7 DEF Noticed, UartLast
  <2>3. UartLast(t)
    BY <1>0, <1>7, <2>2 DEF Noticed, UartLast, NoUart
  <2>4. t.sessions = 0 => Untouched(h, t)
    BY <1>3, <2>1 DEF Untouched, Fields
  <2>5. ASSUME Connected(t) PROVE Numbered(h, t)
    <3>1. t.mode = c.mode /\ t.sessions = c.sessions
      BY <2>1 DEF Fields
    <3>2. c.mode = "MP_GAME"
      BY <1>7, <2>5, <3>1 DEF Noticed, Connected
    <3>3. Numbered(h, c)
      BY <1>3, <2>5, <3>1, <3>2 DEF Connected
    <3>4. /\ \A f \in {"received_no_bytes", "received_byte", "max_buttons_size"} : t[f] = c[f]
          /\ FreshGame(c) => FreshGame(t)
      BY <2>1 DEF FreshGame, Fields
    <3>5. CASE t.rbr = c.rbr /\ t.data = c.data
      BY <3>3, <3>4, <3>5 DEF Numbered
    <3>6. CASE t.rbr = << >> /\ t.data = UartCause(c)
      <4>1. CASE c.rbr = << >>
        <5>1. ~(t.data >= 0)
          BY <1>0, <3>6, <4>1 DEF UartCause
        <5>2. One(t.data >= 0) = One(c.data >= 0)
          BY <2>2, <5>1 DEF One
        <5> QED
          BY <3>3, <3>4, <3>6, <4>1, <5>1, <5>2 DEF Numbered
      <4>2. CASE c.rbr # << >>
        <5>1. t.data = c.rbr[1] /\ c.rbr[1] \in Nat
          BY <1>2, <3>6, <4>2 DEF UartCause, MachineOK, Slot
        <5>2. /\ One(t.data >= 0) = 1 /\ One(c.data >= 0) = 0 /\ One(t.rbr # << >>) = 0
              /\ One(c.rbr # << >>) = 1 /\ One(h.tsr # << >>) \in Nat
              /\ One(h.thr # << >>) \in Nat /\ c.received_no_bytes \in Nat
          BY <1>2, <2>2, <3>6, <4>2, <5>1 DEF One, MachineOK
        <5> DEFINE r == c.received_no_bytes
        <5>3. r + 0 = r /\ r + 1 + 0 = r + 1 /\ r + 0 + 1 = r + 1
          BY <5>2
        <5>4. Is(c.rbr, RByte(h, r)) /\ Is(h.tsr, RByte(h, r + 1))
              /\ Is(h.thr, RByte(h, r + 1 + One(h.tsr # << >>)))
              /\ r + 1 + One(h.tsr # << >>) + One(h.thr # << >>) = h.num_round_sent_bytes
          BY <3>3, <5>2, <5>3 DEF Numbered
        <5>5. t.data = RByte(h, r) /\ Is(t.rbr, RByte(h, r + 1))
          BY <3>6, <4>2, <5>1, <5>4 DEF Is
        <5> QED
          BY <3>3, <3>4, <5>2, <5>3, <5>4, <5>5 DEF Numbered
      <4> QED
        BY <4>1, <4>2
    <3> QED
      BY <1>7, <3>2, <3>5, <3>6 DEF Noticed
  <2> QED
    BY <2>3, <2>4, <2>5
<1>8. CASE ClientSaid(c, t) /\ c.todo # << >>
  <2> HIDE DEF h, c
  <2>1. t.todo = Tail(c.todo) /\ t.data = (IF Head(c.todo) = "uart" THEN -1 ELSE c.data)
          /\ t.sessions = c.sessions
    BY <1>8 DEF ClientSaid
  <2>2. UartLast(t)
    BY <1>2, <1>3, <1>8, <2>1, NextIsDue
  <2>3. c.sessions = 1
    BY <1>4, <1>8 DEF ClientWaits
  <2>4. Numbered(h, c)
    BY <1>3, <1>8, <2>3 DEF Connected
  <2>5. Numbered(h, t)
    BY <1>0, <1>1, <1>2, <1>8, <2>4, ClientNumbers
  <2> QED
    BY <2>1, <2>2, <2>3, <2>5
<1> QED
  BY <1>6, <1>7, <1>8

\* The line while the client waits
LEMMA LineHandshakes ==
  ASSUME PcOK, TurnInv, HandInv, ~pc["client"].game_started, NEW m \in Machines, Deliver(m)
  PROVE  HandInv'
<1> DEFINE h == pc["host"]
           c == pc["client"]
           k == pc'["host"]
           d == pc'["client"]
<1>1. MachineOK(h) /\ MachineOK(c)
  BY TwoMachines DEF PcOK
<1>2. /\ UartLast(c) /\ (c.sessions = 0 => Untouched(h, c)) /\ (Connected(c) => Numbered(h, c))
  BY DEF HandInv
<1>3. Leaving(h) + Arrived(c) <= h.num_round_sent_bytes
  BY DEF TurnInv
<1>4. SUFFICES UartLast(d) /\ (d.sessions = 0 => FALSE) /\ (Connected(d) => Numbered(k, d))
  BY DEF HandInv
<1>5. CASE m = "host"
  <2>1. /\ Differ(h, k, Registers) /\ k.tsr = h.thr /\ k.thr = << >>
        /\ Differ(c, d, {"rbr"}) /\ d.rbr = h.tsr /\ c.rbr = << >> /\ h.tsr # << >>
    BY <1>5, TwoMachines, Delivers
  <2> HIDE DEF h, c, k, d
  <2>2. \A f \in {"todo", "data", "sessions", "mode"} : d[f] = c[f]
    BY <2>1 DEF Differ, Fields
  <2>3. UartLast(d) /\ (Connected(d) => Connected(c))
    BY <1>2, <2>2 DEF UartLast, Connected
  <2>4. Connected(d) => Numbered(k, d)
    BY <1>1, <1>2, <2>1, <2>3, LineNumbers
  <2>5. ASSUME d.sessions = 0 PROVE FALSE
    <3>1. h.num_round_sent_bytes = 0
      BY <1>2, <2>2, <2>5 DEF Untouched
    <3>2. One(h.tsr # << >>) = 1 /\ One(h.thr # << >>) \in Nat /\ Arrived(c) \in Nat
      BY <1>1, <2>1 DEF One, Arrived, MachineOK
    <3> QED
      BY <1>3, <3>1, <3>2 DEF Leaving
  <2> QED
    BY <2>3, <2>4, <2>5
<1>6. CASE m = "client"
  <2>1. /\ Differ(c, d, Registers) /\ Differ(h, k, {"rbr"}) /\ c.tsr # << >>
    BY <1>6, TwoMachines, Delivers
  <2> HIDE DEF h, c, k, d
  <2>2. /\ \A f \in Fields \ Registers : d[f] = c[f]
        /\ \A f \in Fields \ {"rbr"} : k[f] = h[f]
    BY <2>1 DEF Differ
  <2>3. /\ \A f \in {"todo", "data", "sessions", "mode", "rbr", "received_no_bytes",
                     "received_byte", "max_buttons_size"} : d[f] = c[f]
        /\ FreshGame(c) => FreshGame(d)
    BY <2>2 DEF Registers, Fields, FreshGame
  <2>4. UartLast(d) /\ (Connected(d) => Connected(c))
    BY <1>2, <2>3 DEF UartLast, Connected
  <2>5. \A f \in {"thr", "tsr", "num_round_sent_bytes", "max_buttons_size"} : k[f] = h[f]
    BY <2>2 DEF Fields
  <2>6. Connected(d) => Numbered(k, d)
    BY <1>2, <2>3, <2>4, <2>5 DEF Numbered, RByte
  <2>7. d.sessions = 0 => FALSE
    BY <1>2, <2>1, <2>3 DEF Untouched
  <2> QED
    BY <2>4, <2>6, <2>7
<1> QED
  BY <1>5, <1>6, TwoMachines

\* The client's game is the host's when the handler starts it.
LEMMA ClientBegins ==
  ASSUME PcOK, TurnInv, HandInv, ~pc["client"].game_started, NEW t, ClientGoesOn(t),
         ClientSaid(pc["client"], t), pc["client"].todo # << >>, t.game_started
  PROVE  Numbered(pc["host"], t) /\ t.received_no_bytes = 2
<1> DEFINE h == pc["host"]
           c == pc["client"]
<1>1. MachineOK(h) /\ MachineOK(c) /\ MachineOK(t) /\ c.data \in Int
  BY TwoMachines DEF PcOK, ClientGoesOn, MachineOK
<1>2. Connected(c) => Numbered(h, c)
  BY DEF HandInv
<1>3. ClientWaits(c)
  BY DEF TurnInv
<1>4. c.sessions = 1
  BY <1>3 DEF ClientWaits
<1>5. Numbered(h, c)
  BY <1>2, <1>4 DEF Connected
<1>6. Numbered(h, t)
  BY <1>1, <1>5, ClientNumbers
<1> QED
  BY <1>6 DEF ClientGoesOn

\* Every step, and what it means for the client's game
LEMMA HandStep ==
  ASSUME PcOK, TurnInv, HandInv, Sessions <= 1, Next
  PROVE  /\ HandInv'
         /\ ~pc["client"].game_started /\ pc'["client"].game_started =>
              /\ Numbered(pc["host"], pc'["client"]) /\ pc'["client"].received_no_bytes = 2
<1>1. CASE pc["client"].game_started
  BY <1>1, PlayingStep DEF HandInv
<1>2. CASE ~pc["client"].game_started
  <2>1. /\ HostWaits(pc["host"]) /\ ClientWaits(pc["client"]) /\ Arrived(pc["client"]) <= 2
    BY <1>2, Waiting
  <2>2. CASE \E n \in Rounds : Host_mp_game(n)
    <3>1. PICK t : HostGoesOn(t) /\ HostEntered(pc["host"], t)
      BY <2>1, <2>2, HostEnters
    <3>2. pc'["client"] = pc["client"]
      BY <3>1, TwoMachines, Replaced DEF HostGoesOn
    <3> QED
      BY <1>2, <3>1, <3>2, HostHandshakes
  <2>3. CASE Connect_mp_game
    <3>1. PICK t : ClientGoesOn(t) /\ ClientEntered(pc["client"], t)
      BY <2>1, <2>3, ClientEnters
    <3>2. pc'["client"] = t /\ ~t.game_started
      BY <3>1, TwoMachines, Replaced DEF ClientGoesOn, ClientEntered
    <3> QED
      BY <1>2, <3>1, <3>2, ClientHandshakes
  <2>4. ASSUME NEW m \in Machines, (\E hs \in Notifications : Notify(m, hs)) \/ IgnoreUart(m)
        PROVE  HandInv' /\ ~pc'["client"].game_started
    <3>1. PICK t : pc' = [pc EXCEPT ![m] = t] /\ Reads(pc[m], t) /\ Noticed(pc[m], t)
      BY <2>4, Notices
    <3>2. CASE m = "host"
      <4>1. HostGoesOn(t)
        BY <2>1, <3>1, <3>2, HostReads
      <4>2. pc'["client"] = pc["client"]
        BY <4>1, TwoMachines, Replaced DEF HostGoesOn
      <4> QED
        BY <1>2, <3>1, <3>2, <4>1, <4>2, HostHandshakes
    <3>3. CASE m = "client"
      <4>1. ClientGoesOn(t)
        BY <2>1, <3>1, <3>3, ClientReads
      <4>2. pc'["client"] = t
        BY <4>1, TwoMachines, Replaced DEF ClientGoesOn
      <4>3. t.game_started = pc["client"].game_started
        BY <3>1, <3>3 DEF Reads, Differ, Fields
      <4> QED
        BY <1>2, <3>1, <3>3, <4>1, <4>2, <4>3, ClientHandshakes
    <3> QED
      BY <3>2, <3>3, TwoMachines
  <2>5. ASSUME NEW m \in Machines, HandlerStep(m)
        PROVE  /\ HandInv'
               /\ pc'["client"].game_started =>
                    /\ Numbered(pc["host"], pc'["client"]) /\ pc'["client"].received_no_bytes = 2
    <3>1. pc[m].todo # << >>
      BY <2>5 DEF HandlerStep, KeyStep, MouseStep, RtcStep, UartStep, ChangePlayerStep, Runs
    <3>2. CASE m = "host"
      <4>1. PICK t : HostGoesOn(t) /\ HostSaid(pc["host"], t)
        BY <2>1, <2>5, <3>2, HostHandler
      <4>2. pc'["client"] = pc["client"]
        BY <4>1, TwoMachines, Replaced DEF HostGoesOn
      <4> QED
        BY <1>2, <3>1, <3>2, <4>1, <4>2, HostHandshakes
    <3>3. CASE m = "client"
      <4>1. PICK t : ClientGoesOn(t) /\ ClientSaid(pc["client"], t)
        BY <2>1, <2>5, <3>3, ClientHandler
      <4>2. pc'["client"] = t
        BY <4>1, TwoMachines, Replaced DEF ClientGoesOn
      <4>3. HandInv'
        BY <1>2, <3>1, <3>3, <4>1, ClientHandshakes
      <4> QED
        BY <1>2, <3>1, <3>3, <4>1, <4>2, <4>3, ClientBegins
    <3> QED
      BY <3>2, <3>3, TwoMachines
  <2>6. ASSUME NEW m \in Machines, Deliver(m)
        PROVE  HandInv' /\ ~pc'["client"].game_started
    <3>1. HandInv'
      BY <1>2, <2>6, LineHandshakes
    <3>2. /\ Differ(pc[m], pc'[m], Registers) /\ Differ(pc[Other(m)], pc'[Other(m)], {"rbr"})
      BY <2>6, Delivers
    <3>3. /\ pc'[m].game_started = pc[m].game_started
          /\ pc'[Other(m)].game_started = pc[Other(m)].game_started
      BY <3>2 DEF Differ, Registers, Fields
    <3> QED
      BY <1>2, <3>1, <3>3, TwoMachines
  <2>7. CASE Idle
    BY <1>2, <2>7 DEF Idle, HandInv
  <2> QED
    BY <1>2, <2>2, <2>3, <2>4, <2>5, <2>6, <2>7 DEF Next
<1> QED
  BY <1>1, <1>2

\* In the first game of two computers, whatever the clock and the line do before
\* it starts, the client starts with the low byte of the host's number of rounds,
\* an empty sequence that is allocated, and no result.
THEOREM ClientStartsAsAtFirst ==
  ASSUME Sessions <= 1
  PROVE  Spec => StartsAsAtFirst
<1> DEFINE Inv == PcOK /\ TurnInv /\ HandInv
           Fresh == LET s == pc["client"]
                        t == pc'["client"]
                    IN  ~s.game_started /\ t.game_started =>
                          /\ t.max_buttons_size = pc["host"].max_buttons_size % 256
                          /\ t.buttons = << >> /\ t.heap = "live" /\ ~t.game_end
<1>1. Init => Inv
  BY TurnInit, HandInit
<1>2. Inv /\ [Next]_pc => Inv'
  <2>1. ASSUME Inv, Next PROVE Inv'
    BY <2>1, WaitingStep, PlayingStep, HandStep
  <2>2. ASSUME Inv, UNCHANGED pc PROVE Inv'
    BY <2>2 DEF PcOK, TurnInv, HandInv
  <2> QED
    BY <2>1, <2>2
<1>3. Inv /\ [Next]_pc => [Fresh]_pc
  <2>1. ASSUME Inv, Next, ~pc["client"].game_started, pc'["client"].game_started
        PROVE  LET t == pc'["client"] IN
               /\ t.max_buttons_size = pc["host"].max_buttons_size % 256
               /\ t.buttons = << >> /\ t.heap = "live" /\ ~t.game_end
    <3>1. Numbered(pc["host"], pc'["client"]) /\ pc'["client"].received_no_bytes = 2
      BY <2>1, HandStep
    <3> QED
      BY <3>1 DEF Numbered, FreshGame, RByte
  <2> QED
    BY <2>1
<1>4. Spec => [][Fresh]_pc
  BY <1>1, <1>2, <1>3, PTL DEF Spec
<1> QED
  BY <1>4 DEF StartsAsAtFirst

-----------------------------------------------------------------------------
(* What each handler does, field by field                                  *)

\* The byte is sent, unless it has to wait in the queue.
Sent(s, t, byte) ==
  \/ Pushed(s, t, byte) /\ t.queue = s.queue /\ t.waited = s.waited
  \/ t.waited = TRUE

\* Nothing is sent.
Silent(s, t) == \A f \in {"thr", "tsr", "queue", "waited"} : t[f] = s[f]

\* One message
LEMMA SendSent ==
  ASSUME NEW s, MachineOK(s), NEW byte \in Nat
  PROVE  LET t == Send(s, byte) IN
         MachineOK(t) /\ Differ(s, t, Outgoing) /\ Sent(s, t, byte)
<1> DEFINE t == Send(s, byte)
<1>1. MachineOK(t) /\ Differ(s, t, Outgoing)
  BY Sends
<1>2. CASE ThrEmpty(s)
  <2>1. t = Serial_write_byte(s, byte)
    BY <1>2 DEF Send
  <2>2. Pushed(s, t, byte) /\ Differ(s, t, Registers)
    BY <1>2, <2>1, SerialPushes, SerialWrites
  <2> QED
    BY <1>1, <2>2 DEF Sent, Differ, Registers, Fields
<1>3. CASE ~ThrEmpty(s)
  <2>1. t.waited = TRUE
    BY <1>3 DEF Send, MachineOK, IsRecord, Fields
  <2> QED
    BY <1>1, <2>1 DEF Sent
<1> QED
  BY <1>2, <1>3

\* A message after a change of other fields, and before one
LEMMA SentBetween ==
  ASSUME NEW s, NEW a, NEW b, NEW t, NEW byte, Silent(s, a), Sent(a, b, byte), Silent(b, t)
  PROVE  Sent(s, t, byte)
BY DEF Sent, Silent, Pushed

\* A change of other fields sends nothing.
LEMMA DifferSilent ==
  ASSUME NEW s, NEW t, NEW F, Differ(s, t, F), F \cap {"thr", "tsr", "queue", "waited"} = {}
  PROVE  Silent(s, t)
<1>1. {"thr", "tsr", "queue", "waited"} \subseteq Fields \ F
  BY DEF Fields
<1> QED
  BY <1>1 DEF Silent, Differ

\* A change of fields that MachineOK does not look at, or that stay Booleans
LEMMA StaysOK ==
  ASSUME NEW s, MachineOK(s), NEW t, Differ(s, t, GameFields), t.game_end \in BOOLEAN
  PROVE  MachineOK(t)
BY DEF MachineOK, Differ, GameFields, Fields

\* What the end of a game changes
EndFields == {"game_end", "alarm", "heap", "ws"}

\* mp_get_winner, mp_send_winner and mp_end_game
LEMMA LossSent ==
  ASSUME NEW s, MachineOK(s)
  PROVE  LET t == Mp_end_game(Mp_send_winner(Mp_get_winner(s))) IN
         /\ MachineOK(t) /\ Differ(s, t, Outgoing \cup EndFields) /\ Sent(s, t, LOSE)
         /\ t.game_end = TRUE /\ t.ws = IF s.is_player_1 THEN WINNER2 ELSE WINNER1
         /\ s.heap = "live" => t.heap = "freed"
<1> DEFINE a == Mp_get_winner(s)
           b == Mp_send_winner(a)
           t == Mp_end_game(b)
           w == IF s.is_player_1 THEN WINNER2 ELSE WINNER1
<1>1. Differ(s, a, {"ws"}) /\ a.ws = w /\ a.game_end = s.game_end
  BY DEF Mp_get_winner, MachineOK, IsRecord, Differ, Fields
<1>2. MachineOK(a)
  BY <1>1, StaysOK DEF MachineOK, Differ, GameFields
<1>3. a.ws # TIE /\ LOSE \in Nat
  BY <1>1 DEF WINNER1, WINNER2, TIE, LOSE
<1>4. b = Send(a, LOSE)
  BY <1>3 DEF Mp_send_winner
<1>5. MachineOK(b) /\ Differ(a, b, Outgoing) /\ Sent(a, b, LOSE)
  BY <1>2, <1>3, <1>4, SendSent
<1> HIDE DEF a, b, w
<1>6. /\ Differ(b, t, {"game_end", "alarm", "heap"}) /\ t.game_end = TRUE
      /\ b.heap = "live" => t.heap = "freed"
  BY <1>5 DEF Mp_end_game, MachineOK, IsRecord, Differ, Fields
<1>12. b.heap = s.heap
  BY <1>1, <1>5 DEF Differ, Outgoing, Registers, Fields
<1>7. MachineOK(t)
  BY <1>5, <1>6, StaysOK DEF Differ, GameFields
<1> HIDE DEF t
<1>8. Differ(s, t, Outgoing \cup EndFields)
  BY <1>1, <1>5, <1>6 DEF Differ, EndFields
<1>9. t.ws = w
  BY <1>1, <1>5, <1>6 DEF Differ, Outgoing, Registers, Fields
<1>10. Silent(s, a) /\ Silent(b, t)
  BY <1>1, <1>6, DifferSilent
<1>11. Sent(s, t, LOSE)
  BY <1>5, <1>10, SentBetween
<1> QED
  BY <1>6, <1>7, <1>8, <1>9, <1>11, <1>12 DEF t, a, b, w

\* The outcomes of mp_click_button: a tie, one more button, the next button of the
\* sequence, or a mistake
OwnTie(s, t) ==
  /\ Adding(s) /\ s.guessed = s.max_buttons_size
  /\ Differ(s, t, Outgoing \cup EndFields \cup {"player_score"})
  /\ Sent(s, t, TIE_REMOTE) /\ t.game_end = TRUE /\ (s.heap = "live" => t.heap = "freed")

\* The score a click sets
ScoreOf(s) == IF s.guessed = Len(s.buttons) THEN Len(s.buttons) ELSE s.player_score

\* One more button: in a VS interval, opening one, or before passing the turn
OwnAdd(s, t, click) ==
  /\ Adding(s) /\ s.guessed # s.max_buttons_size
  /\ Differ(s, t, Outgoing \cup {"buttons", "player_score", "VS_was_pressed",
                                 "time_left_for_click", "opened_VS", "todo"})
  /\ Sent(s, t, GREEN_REMOTE + click)
  /\ t.buttons = Append(s.buttons, click) /\ t.player_score = ScoreOf(s)
  /\ \/ /\ s.is_vs_round /\ s.VS_was_pressed
        /\ t.VS_was_pressed = s.VS_was_pressed /\ t.opened_VS = s.opened_VS /\ t.todo = s.todo
     \/ /\ s.is_vs_round /\ ~s.VS_was_pressed /\ click = VS_B
        /\ t.VS_was_pressed = TRUE /\ t.opened_VS = TRUE /\ t.todo = s.todo
     \/ /\ ~(s.is_vs_round /\ (s.VS_was_pressed \/ click = VS_B))
        /\ t.VS_was_pressed = s.VS_was_pressed /\ t.opened_VS = s.opened_VS
        /\ t.todo = <<"change_player">> \o s.todo

\* The next button of the sequence
OwnNext(s, t, click) ==
  /\ ~Adding(s) /\ TRUE \in Matches(s, click)
  /\ Differ(s, t, Outgoing \cup {"guessed", "time_left_for_click"})
  /\ Sent(s, t, GREEN_REMOTE + click) /\ t.guessed = s.guessed + 1

\* A mistake, or no time left: the other player wins and is told.
OwnLoss(s, t) ==
  /\ Differ(s, t, Outgoing \cup EndFields) /\ Sent(s, t, LOSE)
  /\ t.game_end = TRUE /\ t.ws = IF s.is_player_1 THEN WINNER2 ELSE WINNER1
  /\ s.heap = "live" => t.heap = "freed"

\* mp_click_button
LEMMA OwnClicks ==
  ASSUME NEW s, MachineOK(s), NEW click \in 0..5, NEW t \in Mp_click_button(s, click)
  PROVE  /\ MachineOK(t)
         /\ \/ OwnTie(s, t)
            \/ OwnAdd(s, t, click)
            \/ OwnNext(s, t, click)
            \/ OwnLoss(s, t) /\ ~Adding(s) /\ FALSE \in Matches(s, click)
<1> DEFINE g == GREEN_REMOTE + click
<1>0. g \in Nat /\ TIE_REMOTE \in Nat
  BY Messages
<1>1. CASE Adding(s)
  <2> DEFINE a == SetScore(s)
             b == Mp_add_button(a, click)
             c == Mp_send_button(b, click)
  <2>1. t = IF s.guessed = s.max_buttons_size
            THEN Mp_send_winner(Mp_end_game([a EXCEPT !.ws = TIE]))
            ELSE AddOwn(a, click)
    BY <1>1 DEF Mp_click_button
  <2>2. Differ(s, a, {"player_score"}) /\ a.player_score = ScoreOf(s)
    BY DEF SetScore, ScoreOf, MachineOK, IsRecord, Differ, Fields
  <2>3. MachineOK(a)
    BY <2>2, StaysOK DEF MachineOK, Differ, GameFields, Fields
  <2>4. CASE s.guessed = s.max_buttons_size
    <3> DEFINE d == [a EXCEPT !.ws = TIE]
               e == Mp_end_game(d)
    <3> HIDE DEF a
    <3>1. Differ(a, d, {"ws"}) /\ d.ws = TIE
      BY <2>3 DEF MachineOK, IsRecord, Differ, Fields
    <3>2. MachineOK(d)
      BY <2>3, <3>1, StaysOK DEF MachineOK, Differ, GameFields, Fields
    <3> HIDE DEF d
    <3>3. /\ Differ(d, e, {"game_end", "alarm", "heap"}) /\ e.game_end = TRUE
          /\ d.heap = "live" => e.heap = "freed"
      BY <3>2 DEF Mp_end_game, MachineOK, IsRecord, Differ, Fields
    <3>4. MachineOK(e)
      BY <3>2, <3>3, StaysOK DEF Differ, GameFields
    <3>5. e.ws = TIE
      BY <3>1, <3>3 DEF Differ, Fields
    <3> HIDE DEF e
    <3>6. t = Send(e, TIE_REMOTE)
      BY <2>1, <2>4, <3>5 DEF Mp_send_winner, d, e
    <3>7. MachineOK(t) /\ Differ(e, t, Outgoing) /\ Sent(e, t, TIE_REMOTE)
      BY <1>0, <3>4, <3>6, SendSent
    <3>8. Differ(s, e, EndFields \cup {"player_score"})
      BY <2>2, <3>1, <3>3 DEF Differ, EndFields
    <3>9. Silent(s, e) /\ Silent(t, t)
      BY <3>8, DifferSilent DEF EndFields, Silent
    <3>10. Sent(s, t, TIE_REMOTE)
      BY <3>7, <3>9, SentBetween
    <3>11. Differ(s, t, Outgoing \cup EndFields \cup {"player_score"})
      BY <3>7, <3>8 DEF Differ
    <3>12. t.game_end = TRUE /\ t.heap = e.heap /\ d.heap = s.heap
      BY <2>2, <3>1, <3>3, <3>7 DEF Differ, Outgoing, Registers, Fields
    <3>13. OwnTie(s, t)
      BY <1>1, <2>4, <3>3, <3>10, <3>11, <3>12 DEF OwnTie
    <3> QED
      BY <3>7, <3>13
  <2>5. CASE s.guessed # s.max_buttons_size
    <3>1. t = IF a.is_vs_round /\ a.VS_was_pressed THEN c
              ELSE IF a.is_vs_round /\ click = VS_B
              THEN [c EXCEPT !.VS_was_pressed = TRUE, !.time_left_for_click = VS_INTERVAL,
                             !.opened_VS = TRUE]
              ELSE ThenChangePlayer(c)
      BY <2>1, <2>5 DEF AddOwn
    <3> HIDE DEF a
    <3>2. Differ(a, b, {"buttons"}) /\ b.buttons = Append(a.buttons, click)
      BY <2>3 DEF Mp_add_button, MachineOK, IsRecord, Differ, Fields
    <3>3. MachineOK(b)
      BY <2>3, <3>2, StaysOK DEF MachineOK, Differ, GameFields, Fields
    <3> HIDE DEF b
    <3>4. MachineOK(c) /\ Differ(b, c, Outgoing) /\ Sent(b, c, g)
      BY <1>0, <3>3, SendSent DEF Mp_send_button
    <3> HIDE DEF c, g
    <3>5. Differ(s, b, {"buttons", "player_score"})
      BY <2>2, <3>2 DEF Differ
    <3>6. Silent(s, b) /\ Silent(c, c)
      BY <3>5, DifferSilent DEF Silent
    <3>7. Sent(s, c, g)
      BY <3>4, <3>6, SentBetween
    <3>8. Differ(s, c, Outgoing \cup {"buttons", "player_score"})
      BY <3>4, <3>5 DEF Differ
    <3>9. c.buttons = Append(s.buttons, click) /\ c.player_score = ScoreOf(s)
      BY <2>2, <3>2, <3>4 DEF Differ, Outgoing, Registers, Fields
    <3>10. /\ a.is_vs_round = s.is_vs_round /\ a.VS_was_pressed = s.VS_was_pressed
           /\ \A f \in {"VS_was_pressed", "opened_VS", "todo", "game_end"} : c[f] = s[f]
      BY <2>2, <3>8 DEF Differ, Outgoing, Registers, Fields
    <3>11. CASE s.is_vs_round /\ s.VS_was_pressed
      <4>1. t = c
        BY <3>1, <3>10, <3>11
      <4>2. OwnAdd(s, t, click)
        BY <1>1, <2>5, <3>7, <3>8, <3>9, <3>10, <3>11, <4>1 DEF OwnAdd, Differ, g
      <4> QED
        BY <3>4, <4>1, <4>2
    <3>12. CASE s.is_vs_round /\ ~s.VS_was_pressed /\ click = VS_B
      <4>1. t = [c EXCEPT !.VS_was_pressed = TRUE, !.time_left_for_click = VS_INTERVAL,
                          !.opened_VS = TRUE]
        BY <3>1, <3>10, <3>12
      <4>2. /\ Differ(c, t, {"VS_was_pressed", "time_left_for_click", "opened_VS"})
            /\ t.VS_was_pressed = TRUE /\ t.opened_VS = TRUE
        BY <3>4, <4>1 DEF MachineOK, IsRecord, Differ, Fields
      <4>3. \A f \in {"buttons", "player_score", "todo", "game_end"} : t[f] = c[f]
        BY <4>2 DEF Differ, Fields
      <4>4. MachineOK(t)
        BY <3>4, <4>2, <4>3, StaysOK DEF MachineOK, Differ, GameFields
      <4>5. Silent(c, t) /\ Silent(s, s)
        BY <4>2, DifferSilent DEF Silent
      <4>6. Sent(s, t, g)
        BY <3>7, <4>5, SentBetween
      <4>7. OwnAdd(s, t, click)
        BY <1>1, <2>5, <3>8, <3>9, <3>10, <3>12, <4>2, <4>3, <4>6 DEF OwnAdd, Differ, g
      <4> QED
        BY <4>4, <4>7
    <3>13. CASE ~(s.is_vs_round /\ (s.VS_was_pressed \/ click = VS_B))
      <4>1. t = ThenChangePlayer(c)
        BY <3>1, <3>10, <3>13
      <4>2. Differ(c, t, {"todo"}) /\ t.todo = <<"change_player">> \o c.todo
        BY <3>4, <4>1 DEF ThenChangePlayer, MachineOK, IsRecord, Differ, Fields
      <4>3. \A f \in {"buttons", "player_score", "VS_was_pressed", "opened_VS"} : t[f] = c[f]
        BY <4>2 DEF Differ, Fields
      <4>4. c.todo \in Seq(TaskNames) /\ <<"change_player">> \in Seq(TaskNames)
        BY <3>4 DEF MachineOK, TaskNames
      <4>5. t.todo \in Seq(TaskNames)
        BY <4>2, <4>4
      <4>6. MachineOK(t)
        BY <3>4, <4>2, <4>5 DEF MachineOK, Differ, Fields
      <4>7. Silent(c, t) /\ Silent(s, s)
        BY <4>2, DifferSilent DEF Silent
      <4>8. Sent(s, t, g)
        BY <3>7, <4>7, SentBetween
      <4>9. OwnAdd(s, t, click)
        BY <1>1, <2>5, <3>8, <3>9, <3>10, <3>13, <4>2, <4>3, <4>8 DEF OwnAdd, Differ, g
      <4> QED
        BY <4>6, <4>9
    <3> QED
      BY <3>11, <3>12, <3>13
  <2> QED
    BY <2>4, <2>5
<1>2. CASE ~Adding(s)
  <2>1. \/ TRUE \in Matches(s, click) /\ t = Repeat(s, click)
        \/ /\ FALSE \in Matches(s, click)
           /\ t = Mp_end_game(Mp_send_winner(Mp_get_winner(s)))
    <3>1. PICK right \in Matches(s, click) :
            t = IF right THEN Repeat(s, click)
                ELSE Mp_end_game(Mp_send_winner(Mp_get_winner(s)))
      BY <1>2 DEF Mp_click_button
    <3>2. right \in BOOLEAN
      BY DEF Matches
    <3> QED
      BY <3>1, <3>2
  <2>2. CASE TRUE \in Matches(s, click) /\ t = Repeat(s, click)
    <3> DEFINE c == Mp_send_button(s, click)
    <3>1. MachineOK(c) /\ Differ(s, c, Outgoing) /\ Sent(s, c, g)
      BY <1>0, SendSent DEF Mp_send_button
    <3>2. t = [c EXCEPT !.guessed = c.guessed + 1,
                        !.time_left_for_click = IF s.guessed + 1 = Len(s.buttons) THEN -1
                                                ELSE INTERVAL]
      BY <2>2 DEF Repeat
    <3> HIDE DEF c, g
    <3>3. /\ Differ(c, t, {"guessed", "time_left_for_click"}) /\ t.guessed = c.guessed + 1
          /\ t.game_end = c.game_end
      BY <3>1, <3>2 DEF MachineOK, IsRecord, Differ, Fields
    <3>4. c.guessed = s.guessed
      BY <3>1 DEF Differ, Outgoing, Registers, Fields
    <3>5. MachineOK(t)
      BY <3>1, <3>3, StaysOK DEF MachineOK, Differ, GameFields
    <3>6. Silent(c, t) /\ Silent(s, s)
      BY <3>3, DifferSilent DEF Silent
    <3>7. Sent(s, t, g)
      BY <3>1, <3>6, SentBetween
    <3>8. OwnNext(s, t, click)
      BY <1>2, <2>2, <3>1, <3>3, <3>4, <3>7 DEF OwnNext, Differ, g
    <3> QED
      BY <3>5, <3>8
  <2>3. CASE FALSE \in Matches(s, click) /\ t = Mp_end_game(Mp_send_winner(Mp_get_winner(s)))
    BY <1>2, <2>3, LossSent DEF OwnLoss
  <2> QED
    BY <2>1, <2>2, <2>3
<1> QED
  BY <1>1, <1>2

\* The outcomes of mp_remote_click_button
RemoteTie(s, t) ==
  /\ Adding(s) /\ s.guessed = s.max_buttons_size
  /\ Differ(s, t, EndFields \cup {"player_score"}) /\ t.game_end = TRUE
  /\ s.heap = "live" => t.heap = "freed"

\* One more button, a VS interval with it
RemoteAdd(s, t, click) ==
  /\ Adding(s) /\ s.guessed # s.max_buttons_size
  /\ Differ(s, t, {"buttons", "player_score", "VS_was_pressed"})
  /\ t.buttons = Append(s.buttons, click) /\ t.player_score = ScoreOf(s)
  /\ t.VS_was_pressed = (s.VS_was_pressed \/ (s.is_vs_round /\ click = VS_B))

\* The next button of the sequence
RemoteNext(s, t, click) ==
  /\ ~Adding(s) /\ TRUE \in Matches(s, click)
  /\ Differ(s, t, {"guessed"}) /\ t.guessed = s.guessed + 1

\* mp_remote_click_button
LEMMA RemoteClicks ==
  ASSUME NEW s, MachineOK(s), NEW click, NEW t \in Mp_remote_click_button(s, click)
  PROVE  /\ MachineOK(t)
         /\ \/ RemoteTie(s, t)
            \/ RemoteAdd(s, t, click)
            \/ RemoteNext(s, t, click)
            \/ t = s /\ ~Adding(s) /\ FALSE \in Matches(s, click)
<1>1. CASE Adding(s)
  <2> DEFINE a == SetScore(s)
             v == a.VS_was_pressed \/ (s.is_vs_round /\ click = VS_B)
  <2>1. t = IF s.guessed = s.max_buttons_size THEN Mp_end_game([a EXCEPT !.ws = TIE])
            ELSE Mp_add_button([a EXCEPT !.VS_was_pressed = v], click)
    BY <1>1 DEF Mp_remote_click_button
  <2>2. Differ(s, a, {"player_score"}) /\ a.player_score = ScoreOf(s)
    BY DEF SetScore, ScoreOf, MachineOK, IsRecord, Differ, Fields
  <2>3. MachineOK(a)
    BY <2>2, StaysOK DEF MachineOK, Differ, GameFields, Fields
  <2> HIDE DEF a
  <2>4. CASE s.guessed = s.max_buttons_size
    <3> DEFINE d == [a EXCEPT !.ws = TIE]
    <3>1. Differ(a, d, {"ws"})
      BY <2>3 DEF MachineOK, IsRecord, Differ, Fields
    <3>2. t = Mp_end_game(d)
      BY <2>1, <2>4
    <3> HIDE DEF d
    <3>3. /\ Differ(d, t, {"game_end", "alarm", "heap"}) /\ t.game_end = TRUE
          /\ d.heap = "live" => t.heap = "freed"
      BY <3>1, <3>2 DEF Mp_end_game, IsRecord, Differ, Fields
    <3>4. Differ(s, t, EndFields \cup {"player_score"})
      BY <2>2, <3>1, <3>3 DEF Differ, EndFields
    <3>5. MachineOK(t)
      BY <3>3, <3>4, StaysOK DEF Differ, EndFields, GameFields
    <3>6. d.heap = s.heap
      BY <2>2, <3>1 DEF Differ, Fields
    <3> QED
      BY <1>1, <2>4, <3>3, <3>4, <3>5, <3>6 DEF RemoteTie
  <2>5. CASE s.guessed # s.max_buttons_size
    <3> DEFINE d == [a EXCEPT !.VS_was_pressed = v]
    <3> HIDE DEF v
    <3>1. Differ(a, d, {"VS_was_pressed"}) /\ d.VS_was_pressed = v
      BY <2>3 DEF MachineOK, IsRecord, Differ, Fields
    <3>2. t = Mp_add_button(d, click)
      BY <2>1, <2>5 DEF v
    <3> HIDE DEF d
    <3>3. Differ(d, t, {"buttons"}) /\ t.buttons = Append(d.buttons, click)
      BY <3>1, <3>2 DEF Mp_add_button, IsRecord, Differ, Fields
    <3>4. Differ(s, t, {"buttons", "player_score", "VS_was_pressed"})
      BY <2>2, <3>1, <3>3 DEF Differ
    <3>5. /\ d.buttons = s.buttons /\ t.VS_was_pressed = v /\ t.player_score = ScoreOf(s)
          /\ t.game_end = s.game_end
      BY <2>2, <3>1, <3>3 DEF Differ, Fields
    <3>6. MachineOK(t)
      BY <3>4, <3>5, StaysOK DEF MachineOK, Differ, GameFields
    <3>7. v = (s.VS_was_pressed \/ (s.is_vs_round /\ click = VS_B))
      BY <2>2 DEF Differ, Fields, v
    <3> QED
      BY <1>1, <2>5, <3>3, <3>4, <3>5, <3>6, <3>7 DEF RemoteAdd
  <2> QED
    BY <2>4, <2>5
<1>2. CASE ~Adding(s)
  <2>1. PICK right \in Matches(s, click) : t = IF right THEN [s EXCEPT !.guessed = @ + 1] ELSE s
    BY <1>2 DEF Mp_remote_click_button
  <2>2. right \in BOOLEAN
    BY DEF Matches
  <2>3. CASE right
    <3>1. t = [s EXCEPT !.guessed = s.guessed + 1] /\ TRUE \in Matches(s, click)
      BY <2>1, <2>2, <2>3
    <3>2. Differ(s, t, {"guessed"}) /\ t.guessed = s.guessed + 1 /\ t.game_end = s.game_end
      BY <3>1 DEF MachineOK, IsRecord, Differ, Fields
    <3>3. MachineOK(t)
      BY <3>2, StaysOK DEF MachineOK, Differ, GameFields
    <3> QED
      BY <1>2, <3>1, <3>2, <3>3 DEF RemoteNext
  <2>4. CASE ~right
    BY <1>2, <2>1, <2>2, <2>4
  <2> QED
    BY <2>3, <2>4
<1> QED
  BY <1>1, <1>2

\* mp_change_player
TurnFieldsOf == {"is_player_1", "guessed", "is_vs_round", "VS_was_pressed"}

\* The turn is given up and the other player told.
GivesTurn(m, s, t) ==
  /\ Differ(s, t, Outgoing \cup TurnFieldsOf)
  /\ Sent(s, t, IF m = "host" THEN IS_VS ELSE READY)
  /\ t.is_player_1 = ~s.is_player_1 /\ t.guessed = 0
  /\ IF m = "host" THEN t.is_vs_round = TRUE /\ t.VS_was_pressed = FALSE
     ELSE t.is_vs_round = s.is_vs_round /\ t.VS_was_pressed = s.VS_was_pressed

\* mp_change_player
LEMMA ChangesPlayer ==
  ASSUME NEW m, NEW s, MachineOK(s)
  PROVE  LET t == Mp_change_player(m, s) IN MachineOK(t) /\ GivesTurn(m, s, t)
<1> DEFINE p == PassTurn(s)
           v == Mp_is_VS_round(p)
           a == IF m = "host" THEN v ELSE p
           x == IF m = "host" THEN IS_VS ELSE READY
           t == Mp_change_player(m, s)
<1>1. /\ Differ(s, p, {"is_player_1", "guessed"}) /\ p.is_player_1 = ~s.is_player_1
      /\ p.guessed = 0
  BY DEF PassTurn, MachineOK, IsRecord, Differ, Fields
<1>2. p.is_player_1 \in BOOLEAN
  BY <1>1 DEF MachineOK
<1>3. MachineOK(p)
  BY <1>1, <1>2 DEF MachineOK, Differ, Fields
<1>4. x \in Nat
  BY DEF IS_VS, READY
<1>5. t = Send(a, x)
  <2> HIDE DEF p
  <2>1. v.is_vs_round = TRUE
    BY <1>3 DEF Mp_is_VS_round, MachineOK, IsRecord, Fields
  <2> HIDE DEF v
  <2> QED
    BY <2>1 DEF Mp_change_player, p, v
<1> HIDE DEF p, x
<1>6. Differ(p, v, {"is_vs_round", "VS_was_pressed"}) /\ v.is_vs_round = TRUE
        /\ v.VS_was_pressed = FALSE /\ v.game_end = p.game_end
  BY <1>3 DEF Mp_is_VS_round, MachineOK, IsRecord, Differ, Fields
<1>7. MachineOK(v)
  BY <1>3, <1>6, StaysOK DEF MachineOK, Differ, GameFields
<1> HIDE DEF v
<1>8. /\ MachineOK(a) /\ Differ(s, a, TurnFieldsOf)
      /\ a.is_player_1 = ~s.is_player_1 /\ a.guessed = 0
      /\ IF m = "host" THEN a.is_vs_round = TRUE /\ a.VS_was_pressed = FALSE
         ELSE a.is_vs_round = s.is_vs_round /\ a.VS_was_pressed = s.VS_was_pressed
  BY <1>1, <1>3, <1>6, <1>7 DEF Differ, TurnFieldsOf, Fields
<1> HIDE DEF a, t
<1>9. MachineOK(t) /\ Differ(a, t, Outgoing) /\ Sent(a, t, x)
  BY <1>4, <1>5, <1>8, SendSent
<1>10. Silent(s, a) /\ Silent(t, t)
  BY <1>8, DifferSilent DEF Silent, TurnFieldsOf
<1>11. Sent(s, t, x)
  BY <1>9, <1>10, SentBetween
<1>12. Differ(s, t, Outgoing \cup TurnFieldsOf)
  BY <1>8, <1>9 DEF Differ
<1>13. \A f \in TurnFieldsOf : t[f] = a[f]
  BY <1>9 DEF Differ, Outgoing, Registers, TurnFieldsOf, Fields
<1>14. GivesTurn(m, s, t)
  BY <1>8, <1>11, <1>12, <1>13 DEF GivesTurn, TurnFieldsOf, x
<1> QED
  BY <1>9, <1>14 DEF t

\* play_game: the turn comes.
TakesTurn(s, t, vs) ==
  /\ Differ(s, t, TurnFieldsOf \cup {"time_left_for_click"})
  /\ t.is_player_1 = ~s.is_player_1 /\ t.guessed = 0
  /\ t.is_vs_round = vs /\ t.VS_was_pressed = FALSE

\* The turn that comes to this computer
LEMMA BeginsTurn ==
  ASSUME NEW s, MachineOK(s), NEW vs
  PROVE  MachineOK(BeginTurn(s, vs)) /\ TakesTurn(s, BeginTurn(s, vs), vs)
<1> DEFINE p == PassTurn(s)
           t == BeginTurn(s, vs)
<1>1. /\ Differ(s, p, {"is_player_1", "guessed"}) /\ p.is_player_1 = ~s.is_player_1
      /\ p.guessed = 0
  BY DEF PassTurn, MachineOK, IsRecord, Differ, Fields
<1>2. t = [p EXCEPT !.is_vs_round = vs, !.VS_was_pressed = FALSE,
                    !.time_left_for_click = INTERVAL]
  BY DEF BeginTurn
<1> HIDE DEF p, t
<1>3. /\ Differ(p, t, {"is_vs_round", "VS_was_pressed", "time_left_for_click"})
      /\ t.is_vs_round = vs /\ t.VS_was_pressed = FALSE
  BY <1>1, <1>2 DEF IsRecord, Differ, Fields
<1>4. t.is_player_1 = ~s.is_player_1 /\ t.guessed = 0
  BY <1>1, <1>3 DEF Differ, Fields
<1>5. t.is_player_1 \in BOOLEAN
  BY <1>4 DEF MachineOK
<1>6. Differ(s, t, TurnFieldsOf \cup {"time_left_for_click"})
  BY <1>1, <1>3 DEF Differ, TurnFieldsOf
<1>7. MachineOK(t)
  BY <1>5, <1>6 DEF MachineOK, Differ, TurnFieldsOf, Fields
<1> QED
  BY <1>3, <1>4, <1>6, <1>7 DEF TakesTurn, t

\* Nothing of the game changes; a finished one may be left.
Rests(s, t) ==
  /\ Differ(s, t, {"mode", "alarm", "time_left_for_click"}) /\ (s.game_end \/ t.mode = s.mode)

\* Nothing at all changes.
LEMMA SameRests == ASSUME NEW s, MachineOK(s) PROVE Rests(s, s)
BY DEF Rests, Differ, MachineOK

\* The way out, by the clock or the keyboard, changes nothing of the game.
LEMMA LeftRests ==
  ASSUME NEW s, MachineOK(s)
  PROVE  /\ MachineOK(Left(s)) /\ Rests(s, Left(s)) /\ (~s.game_end => Left(s) = s)
         /\ MachineOK(OnKey(s)) /\ Rests(s, OnKey(s))
<1>1. CASE ~s.game_end
  BY <1>1, SameRests DEF Left, OnKey
<1>2. CASE s.game_end
  <2> DEFINE a == [s EXCEPT !.alarm = "seconds"]
             l == LeaveGame(a)
             k == LeaveGame(s)
  <2>1. Differ(s, a, {"alarm"}) /\ a.game_end = s.game_end
    BY DEF MachineOK, IsRecord, Differ, Fields
  <2> HIDE DEF a
  <2>2. Differ(a, l, {"mode"}) /\ l.game_end = a.game_end
    BY <2>1 DEF LeaveGame, IsRecord, Differ, Fields
  <2>3. Differ(s, k, {"mode"}) /\ k.game_end = s.game_end
    BY DEF LeaveGame, MachineOK, IsRecord, Differ, Fields
  <2>4. Left(s) = l /\ OnKey(s) = k
    BY <1>2 DEF Left, OnKey, a
  <2> HIDE DEF l, k
  <2>5. Differ(s, l, {"mode", "alarm"})
    BY <2>1, <2>2 DEF Differ
  <2>6. MachineOK(l) /\ MachineOK(k)
    BY <2>1, <2>2, <2>3, <2>5, StaysOK DEF MachineOK, Differ, GameFields
  <2>7. Rests(s, l) /\ Rests(s, k)
    BY <1>2, <2>3, <2>5 DEF Rests, Differ
  <2> QED
    BY <1>2, <2>4, <2>6, <2>7
<1> QED
  BY <1>1, <1>2

\* mp_game_update_status_rtc
LEMMA ClockCases ==
  ASSUME NEW m, NEW s, MachineOK(s)
  PROVE  LET t == OnRtc(m, s) IN
         /\ MachineOK(t)
         /\ \/ Rests(s, t)
            \/ CountsDown(m, s) /\ (OwnLoss(s, t) \/ GivesTurn(m, s, t))
<1> DEFINE t == OnRtc(m, s)
           counts == CountsDown(m, s)
           timeUp == s.time_left_for_click = 0
           c == Mp_change_player(m, s)
           d == [s EXCEPT !.time_left_for_click = @ - 1]
<1>0. \A x : Left(x) = IF x.game_end THEN LeaveGame([x EXCEPT !.alarm = "seconds"]) ELSE x
  BY DEF Left
<1>1. t = CASE counts /\ timeUp /\ ~s.VS_was_pressed ->
                 Mp_end_game(Mp_send_winner(Mp_get_winner(s)))
            [] counts /\ timeUp /\ s.VS_was_pressed /\ s.is_vs_round -> Left(c)
            [] counts /\ s.time_left_for_click > 0 -> Left(d)
            [] OTHER -> Left(s)
  BY DEF OnRtc, Left
<1>2. ~(0 > 0)
  OBVIOUS
<1>3. CASE counts /\ timeUp /\ ~s.VS_was_pressed
  <2>1. t = Mp_end_game(Mp_send_winner(Mp_get_winner(s)))
    BY <1>1, <1>2, <1>3
  <2> QED
    BY <1>3, <2>1, LossSent DEF OwnLoss
<1>4. CASE counts /\ timeUp /\ s.VS_was_pressed /\ s.is_vs_round
  <2>1. t = Left(c)
    BY <1>1, <1>2, <1>4
  <2>2. MachineOK(c) /\ GivesTurn(m, s, c)
    BY ChangesPlayer
  <2> HIDE DEF c
  <2>3. ~c.game_end
    BY <1>4, <2>2 DEF CountsDown, GivesTurn, Differ, Outgoing, Registers, TurnFieldsOf, Fields
  <2>4. t = c
    BY <2>1, <2>2, <2>3, LeftRests
  <2> QED
    BY <1>4, <2>2, <2>4
<1>5. CASE counts /\ ~timeUp /\ s.time_left_for_click > 0
  <2>1. t = Left(d)
    BY <1>1, <1>5
  <2>2. Differ(s, d, {"time_left_for_click"}) /\ d.game_end = s.game_end /\ d.mode = s.mode
    BY DEF MachineOK, IsRecord, Differ, Fields
  <2> HIDE DEF d
  <2>3. MachineOK(d)
    BY <2>2, StaysOK DEF MachineOK, Differ, GameFields
  <2>4. t = d
    BY <1>5, <2>1, <2>2, <2>3, LeftRests DEF CountsDown
  <2>5. Rests(s, d)
    BY <2>2 DEF Rests, Differ
  <2> QED
    BY <2>3, <2>4, <2>5
<1>6. CASE /\ ~(counts /\ timeUp /\ ~s.VS_was_pressed)
           /\ ~(counts /\ timeUp /\ s.VS_was_pressed /\ s.is_vs_round)
           /\ ~(counts /\ s.time_left_for_click > 0)
  <2>1. t = Left(s)
    BY <1>1, <1>6
  <2> QED
    BY <2>1, LeftRests
<1> QED
  BY <1>2, <1>3, <1>4, <1>5, <1>6

\* What a click of one's own, or of the other player, may do
OwnClicked(s, t, click) ==
  \/ OwnTie(s, t)
  \/ OwnAdd(s, t, click)
  \/ OwnNext(s, t, click)
  \/ OwnLoss(s, t) /\ ~Adding(s) /\ FALSE \in Matches(s, click)

RemoteClicked(s, t, click) ==
  \/ RemoteTie(s, t)
  \/ RemoteAdd(s, t, click)
  \/ RemoteNext(s, t, click)
  \/ t = s /\ ~Adding(s) /\ FALSE \in Matches(s, click)

\* The other player's result
HearsEnd(s, t) ==
  Differ(s, t, EndFields) /\ t.game_end = TRUE /\ (s.heap = "live" => t.heap = "freed")

\* play_game
Hears(m, s, t, data) ==
  \/ data \in 3..8 /\ MyTurn(m, s) /\ OwnClicked(s, t, data - 3)
  \/ data \in 3..8 /\ ~MyTurn(m, s) /\ RemoteClicked(s, t, data - 3)
  \/ data \in {9, 11} /\ TakesTurn(s, t, TRUE)
  \/ data = 10 /\ TakesTurn(s, t, FALSE)
  \/ data = 12 /\ HearsEnd(s, t) /\ t.ws = (IF m = "host" THEN WINNER1 ELSE WINNER2)
  \/ data = 2 /\ HearsEnd(s, t)
  \/ data \notin 3..12 /\ data # 2 /\ t = s

\* play_game, byte by byte
LEMMA PlayHears ==
  ASSUME NEW m, NEW s, MachineOK(s), NEW data \in Nat, NEW t \in Play_game(m, s, data)
  PROVE  MachineOK(t) /\ Hears(m, s, t, data)
<1>0. /\ GREEN_REMOTE..WHITE_REMOTE = 3..8 /\ GREEN_REMOTE = 3 /\ IS_VS = 9 /\ IS_NOT_VS = 10
      /\ READY = 11 /\ LOSE = 12 /\ TIE = 2
  BY DEF GREEN_REMOTE, WHITE_REMOTE, IS_VS, IS_NOT_VS, READY, LOSE, TIE
<1>a. t \in CASE data \in 3..8 -> Mp_buttons_handler(m, s, data - 3)
              [] data = 9  -> {BeginTurn(s, TRUE)}
              [] data = 10 -> {BeginTurn(s, FALSE)}
              [] data = 11 -> {BeginTurn(s, Mp_is_VS_round(s).is_vs_round)}
              [] data = 12 -> {Mp_end_game([s EXCEPT !.ws = IF m = "host" THEN WINNER1
                                                            ELSE WINNER2])}
              [] data = 2  -> {Mp_end_game([s EXCEPT !.ws = 2])}
              [] OTHER     -> {s}
  BY <1>0 DEF Play_game
<1>b. ASSUME NEW w, t = Mp_end_game([s EXCEPT !.ws = w])
      PROVE  MachineOK(t) /\ HearsEnd(s, t) /\ t.ws = w
  <2> DEFINE d == [s EXCEPT !.ws = w]
  <2>1. Differ(s, d, {"ws"}) /\ d.ws = w
    BY DEF MachineOK, IsRecord, Differ, Fields
  <2>2. t = Mp_end_game(d)
    BY <1>b
  <2> HIDE DEF d
  <2>3. /\ Differ(d, t, {"game_end", "alarm", "heap"}) /\ t.game_end = TRUE
        /\ d.heap = "live" => t.heap = "freed"
    BY <2>1, <2>2 DEF Mp_end_game, IsRecord, Differ, Fields
  <2>4. t.ws = w /\ Differ(s, t, EndFields) /\ d.heap = s.heap
    BY <2>1, <2>3 DEF Differ, EndFields, Fields
  <2>5. MachineOK(t)
    BY <2>3, <2>4, StaysOK DEF Differ, EndFields, GameFields
  <2> QED
    BY <2>3, <2>4, <2>5 DEF HearsEnd
<1>1. CASE data \in 3..8
  <2>0. data # 9 /\ data # 10 /\ data # 11 /\ data # 12 /\ data # 2 /\ data - 3 \in 0..5
    BY <1>1
  <2>1. t \in Mp_buttons_handler(m, s, data - 3)
    BY <1>a, <1>1, <2>0
  <2>2. CASE MyTurn(m, s)
    BY <1>1, <2>0, <2>1, <2>2, OwnClicks DEF Mp_buttons_handler, Hears, OwnClicked
  <2>3. CASE ~MyTurn(m, s)
    BY <1>1, <2>1, <2>3, RemoteClicks DEF Mp_buttons_handler, Hears, RemoteClicked
  <2> QED
    BY <2>2, <2>3
<1>2. CASE data = 9 \/ data = 11
  <2>1. Mp_is_VS_round(s).is_vs_round = TRUE
    BY DEF Mp_is_VS_round, MachineOK, IsRecord, Fields
  <2>2. t = BeginTurn(s, TRUE)
    <3>1. ~(9 \in 3..8) /\ ~(11 \in 3..8)
      OBVIOUS
    <3>2. CASE data = 9
      BY <1>a, <3>1, <3>2
    <3>3. CASE data = 11
      <4> DEFINE x == Mp_is_VS_round(s).is_vs_round
      <4> HIDE DEF x
      <4>1. t \in {BeginTurn(s, x)}
        BY <1>a, <3>1, <3>3 DEF x
      <4>2. x = TRUE
        BY <2>1 DEF x
      <4> QED
        BY <4>1, <4>2
    <3> QED
      BY <1>2, <3>2, <3>3
  <2> QED
    BY <1>2, <2>2, BeginsTurn DEF Hears
<1>3. CASE data = 10
  <2>1. t = BeginTurn(s, FALSE)
    BY <1>a, <1>3
  <2> QED
    BY <1>3, <2>1, BeginsTurn DEF Hears
<1>4. CASE data = 12
  <2>1. t = Mp_end_game([s EXCEPT !.ws = IF m = "host" THEN WINNER1 ELSE WINNER2])
    BY <1>a, <1>4
  <2> QED
    BY <1>b, <1>4, <2>1 DEF Hears
<1>5. CASE data = 2
  <2>1. t = Mp_end_game([s EXCEPT !.ws = 2])
    BY <1>a, <1>5
  <2> QED
    BY <1>b, <1>5, <2>1 DEF Hears
<1>6. CASE data \notin 3..12 /\ data # 2
  <2>0. /\ ~(data \in 3..8) /\ data # 9 /\ data # 10 /\ data # 11 /\ data # 12
        /\ data # 2
    BY <1>6
  <2>1. t = s
    BY <1>a, <2>0
  <2> QED
    BY <1>6, <2>1 DEF Hears
<1> QED
  BY <1>1, <1>2, <1>3, <1>4, <1>5, <1>6

\* The next handler is taken from the list, and the byte it reads with it.
TakesNext(s, p) ==
  /\ MachineOK(p) /\ Calm(p) /\ Differ(s, p, {"todo", "data"}) /\ p.todo = Tail(s.todo)
  /\ p.data = (IF Head(s.todo) = "uart" THEN -1 ELSE s.data)

\* What a handler of m makes of p.
Handles(m, s, p, t) ==
  \/ Head(s.todo) = "change_player" /\ GivesTurn(m, p, t)
  \/ (Head(s.todo) = "uart" => s.data < 0) /\ Rests(p, t)
  \/ Head(s.todo) = "mouse" /\ TakesClicks(m, p) /\ \E click \in 0..5 : OwnClicked(p, t, click)
  \/ Head(s.todo) = "rtc" /\ CountsDown(m, p) /\ (OwnLoss(p, t) \/ GivesTurn(m, p, t))
  \/ Head(s.todo) = "uart" /\ s.data >= 0 /\ Hears(m, p, t, s.data)
  \/ /\ Head(s.todo) = "uart" /\ s.data < 0 /\ p.queue # << >>
     /\ Differ(p, t, Registers \cup {"queue"})

\* Every handler of a computer whose game has started
LEMMA HandlerCases ==
  ASSUME PcOK, NEW m \in Machines, HandlerStep(m), pc[m].game_started
  PROVE  /\ pc[m].todo # << >>
         /\ \E t : /\ pc' = [pc EXCEPT ![m] = t] /\ MachineOK(t)
                   /\ \E p : TakesNext(pc[m], p) /\ Handles(m, pc[m], p, t)
<1> DEFINE s == pc[m]
           p == Popped(m)
           q == [p EXCEPT !.data = -1]
<1>0. s.todo # << >> /\ MachineOK(s)
  BY DEF HandlerStep, KeyStep, MouseStep, RtcStep, UartStep, ChangePlayerStep, Runs, PcOK
<1>1. MachineOK(p) /\ Calm(p) /\ Differ(s, p, {"todo"}) /\ p.todo = Tail(s.todo)
  BY <1>0, Pops
<1>2. MachineOK(q) /\ Calm(q) /\ Differ(p, q, {"data"}) /\ q.data = -1
  BY <1>1, Consumes
<1>3. s.data \in Int
  BY <1>0 DEF MachineOK
<1> HIDE DEF p, q
<1>4. Head(s.todo) # "uart" => TakesNext(s, p)
  <2>1. p.data = s.data
    BY <1>1 DEF Differ, Fields
  <2> QED
    BY <1>1, <2>1 DEF TakesNext, Differ
<1>5. Head(s.todo) = "uart" => TakesNext(s, q)
  <2>1. q.todo = p.todo /\ Differ(s, q, {"todo", "data"})
    BY <1>1, <1>2 DEF Differ, Fields
  <2> QED
    BY <1>1, <1>2, <2>1 DEF TakesNext
<1>6. p.game_started /\ q.game_started
  BY <1>1, <1>2 DEF Differ, Fields
<1>7. SUFFICES ASSUME TRUE
               PROVE  \E t : /\ pc' = [pc EXCEPT ![m] = t] /\ MachineOK(t)
                             /\ \E r : TakesNext(s, r) /\ Handles(m, s, r, t)
  BY <1>0
<1>8. CASE KeyStep(m)
  <2>1. Head(s.todo) = "key" /\ pc' = [pc EXCEPT ![m] = OnKey(p)]
    BY <1>8 DEF KeyStep, Runs, Becomes, p
  <2> DEFINE t == OnKey(p)
  <2>2. MachineOK(t) /\ Rests(p, t)
    BY <1>1, LeftRests
  <2> HIDE DEF t
  <2>3. TakesNext(s, p) /\ Handles(m, s, p, t)
    BY <1>4, <2>1, <2>2 DEF Handles
  <2> QED
    BY <2>1, <2>2, <2>3 DEF t
<1>9. CASE MouseStep(m)
  <2>1. PICK t : /\ Head(s.todo) = "mouse" /\ pc' = [pc EXCEPT ![m] = t]
                 /\ t = p \/ \E click \in Buttons : t \in OnMouse(m, p, click)
    BY <1>9 DEF MouseStep, Runs, Becomes, p
  <2>2. TakesNext(s, p)
    BY <1>4, <2>1
  <2>3. CASE t = p
    BY <1>1, <2>1, <2>2, <2>3, SameRests DEF Handles
  <2>4. ASSUME NEW click \in Buttons, t \in OnMouse(m, p, click)
        PROVE  MachineOK(t) /\ Handles(m, s, p, t)
    <3>1. click \in 0..5
      BY ColoursAssumption DEF Buttons, VS_B
    <3>2. CASE TakesClicks(m, p)
      <4>1. t \in Mp_click_button(p, click)
        BY <2>4, <3>2 DEF OnMouse
      <4>2. MachineOK(t) /\ OwnClicked(p, t, click)
        BY <1>1, <3>1, <4>1, OwnClicks DEF OwnClicked
      <4> QED
        BY <2>1, <3>1, <3>2, <4>2 DEF Handles
    <3>3. CASE ~TakesClicks(m, p)
      BY <1>1, <2>1, <2>4, <3>3, SameRests DEF OnMouse, Handles
    <3> QED
      BY <3>2, <3>3
  <2> QED
    BY <2>1, <2>2, <2>3, <2>4
<1>10. CASE RtcStep(m)
  <2>1. Head(s.todo) = "rtc" /\ pc' = [pc EXCEPT ![m] = OnRtc(m, p)]
    BY <1>10 DEF RtcStep, Runs, Becomes, p
  <2> DEFINE t == OnRtc(m, p)
  <2>2. /\ MachineOK(t)
        /\ Rests(p, t) \/ (CountsDown(m, p) /\ (OwnLoss(p, t) \/ GivesTurn(m, p, t)))
    BY <1>1, ClockCases
  <2> HIDE DEF t
  <2>3. TakesNext(s, p) /\ Handles(m, s, p, t)
    BY <1>4, <2>1, <2>2 DEF Handles
  <2> QED
    BY <2>1, <2>2, <2>3 DEF t
<1>11. CASE UartStep(m)
  <2>1. PICK t \in OnUart(m, q, s.data) : Head(s.todo) = "uart" /\ pc' = [pc EXCEPT ![m] = t]
    BY <1>11 DEF UartStep, Runs, Becomes, p, q
  <2>2. TakesNext(s, q)
    BY <1>5, <2>1
  <2>3. CASE s.data >= 0
    <3>1. s.data \in Nat /\ ~(s.data < 0)
      BY <1>3, <2>3
    <3>2. t \in Play_game(m, q, s.data)
      BY <1>6, <2>1, <2>3, <3>1 DEF OnUart
    <3>3. MachineOK(t) /\ Hears(m, q, t, s.data)
      BY <1>2, <3>1, <3>2, PlayHears
    <3> QED
      BY <2>1, <2>2, <2>3, <3>3 DEF Handles
  <2>4. CASE ~(s.data >= 0)
    <3>1. s.data < 0
      BY <1>3, <2>4
    <3>2. t = IF q.queue # << >> THEN Uart_ready(q) ELSE q
      BY <1>6, <2>1, <2>4, <3>1 DEF OnUart
    <3>3. CASE q.queue = << >>
      BY <1>2, <2>1, <2>2, <3>1, <3>2, <3>3, SameRests DEF Handles
    <3>4. CASE q.queue # << >>
      <4> DEFINE u == [q EXCEPT !.queue = << >>]
      <4>1. PICK b \in Nat : q.queue = <<b>>
        BY <1>2, <3>4 DEF MachineOK, Slot
      <4>2. Differ(q, u, {"queue"}) /\ u.queue = << >>
        BY <1>2 DEF MachineOK, IsRecord, Differ, Fields
      <4>3. t = Serial_write_byte(u, b)
        BY <3>2, <3>4, <4>1 DEF Uart_ready
      <4> HIDE DEF u
      <4>4. MachineOK(u)
        BY <1>2, <4>2 DEF MachineOK, Differ, Fields, Slot
      <4>5. MachineOK(t) /\ Differ(u, t, Registers)
        BY <4>3, <4>4, SerialWrites
      <4>6. Differ(q, t, Registers \cup {"queue"})
        BY <4>2, <4>5 DEF Differ
      <4> QED
        BY <2>1, <2>2, <3>1, <3>4, <4>5, <4>6 DEF Handles
    <3> QED
      BY <3>3, <3>4
  <2> QED
    BY <2>3, <2>4
<1>12. CASE ChangePlayerStep(m)
  <2>1. Head(s.todo) = "change_player" /\ pc' = [pc EXCEPT ![m] = Mp_change_player(m, p)]
    BY <1>12 DEF ChangePlayerStep, Runs, Becomes, p
  <2> DEFINE t == Mp_change_player(m, p)
  <2>2. MachineOK(t) /\ GivesTurn(m, p, t)
    BY <1>1, ChangesPlayer
  <2> HIDE DEF t
  <2>3. TakesNext(s, p) /\ Handles(m, s, p, t)
    BY <1>4, <2>1, <2>2 DEF Handles
  <2> QED
    BY <2>1, <2>2, <2>3 DEF t
<1> QED
  BY <1>8, <1>9, <1>10, <1>11, <1>12 DEF HandlerStep

-----------------------------------------------------------------------------
(* What never comes back                                                   *)

\* The sequence only grows, and a message that waited is remembered.
Keeps(s, t) ==
  /\ t.max_buttons_size = s.max_buttons_size
  /\ (s.waited => t.waited) /\ (s.opened_VS => t.opened_VS)
  /\ s.buttons \in Seq(Nat) => t.buttons \in Seq(Nat) /\ Len(s.buttons) <= Len(t.buttons)

\* A handler that adds no button
LEMMA KeepsSame ==
  ASSUME NEW s, NEW t, t.max_buttons_size = s.max_buttons_size, s.waited => t.waited,
         s.opened_VS => t.opened_VS, t.buttons = s.buttons
  PROVE  Keeps(s, t)
<1>1. s.buttons \in Seq(Nat) => Len(s.buttons) <= Len(s.buttons)
  BY LenProperties
<1> QED
  BY <1>1 DEF Keeps

\* A handler that adds one
LEMMA KeepsAppend ==
  ASSUME NEW s, NEW t, t.max_buttons_size = s.max_buttons_size, s.waited => t.waited,
         s.opened_VS => t.opened_VS, NEW x \in Nat, t.buttons = Append(s.buttons, x)
  PROVE  Keeps(s, t)
<1>1. s.buttons \in Seq(Nat) => /\ Append(s.buttons, x) \in Seq(Nat)
                                /\ Len(s.buttons) <= Len(Append(s.buttons, x))
  BY LenProperties, AppendProperties
<1> QED
  BY <1>1 DEF Keeps

\* That a message had to wait is not forgotten.
LEMMA SentWaits ==
  ASSUME NEW s, NEW t, NEW byte, Sent(s, t, byte) PROVE s.waited => t.waited
BY DEF Sent

\* A click
LEMMA OwnKeeps ==
  ASSUME NEW s, NEW t, NEW click \in Nat, OwnClicked(s, t, click) PROVE Keeps(s, t)
<1>1. CASE OwnTie(s, t)
  BY <1>1, SentWaits, KeepsSame DEF OwnTie, Differ, Outgoing, Registers, EndFields, Fields
<1>2. CASE OwnAdd(s, t, click)
  <2>1. t.max_buttons_size = s.max_buttons_size /\ t.buttons = Append(s.buttons, click)
    BY <1>2 DEF OwnAdd, Differ, Outgoing, Registers, Fields
  <2>2. (s.waited => t.waited) /\ (s.opened_VS => t.opened_VS)
    BY <1>2, SentWaits DEF OwnAdd
  <2> QED
    BY <2>1, <2>2, KeepsAppend
<1>3. CASE OwnNext(s, t, click)
  BY <1>3, SentWaits, KeepsSame DEF OwnNext, Differ, Outgoing, Registers, Fields
<1>4. CASE OwnLoss(s, t)
  BY <1>4, SentWaits, KeepsSame DEF OwnLoss, Differ, Outgoing, Registers, EndFields, Fields
<1> QED
  BY <1>1, <1>2, <1>3, <1>4 DEF OwnClicked

\* A click of the other player
LEMMA RemoteKeeps ==
  ASSUME NEW s, NEW t, NEW click \in Nat, RemoteClicked(s, t, click) PROVE Keeps(s, t)
<1>1. CASE RemoteTie(s, t)
  BY <1>1, KeepsSame DEF RemoteTie, Differ, EndFields, Fields
<1>2. CASE RemoteAdd(s, t, click)
  <2>1. /\ t.max_buttons_size = s.max_buttons_size /\ t.buttons = Append(s.buttons, click)
        /\ t.waited = s.waited /\ t.opened_VS = s.opened_VS
    BY <1>2 DEF RemoteAdd, Differ, Fields
  <2> QED
    BY <2>1, KeepsAppend
<1>3. CASE RemoteNext(s, t, click)
  BY <1>3, KeepsSame DEF RemoteNext, Differ, Fields
<1>4. CASE t = s
  BY <1>4, KeepsSame
<1> QED
  BY <1>1, <1>2, <1>3, <1>4 DEF RemoteClicked

\* Every handler
LEMMA HandlerKeeps ==
  ASSUME NEW m, NEW s, s.data \in Int, NEW p, NEW t, TakesNext(s, p), Handles(m, s, p, t)
  PROVE  Keeps(s, t)
<1>1. SUFFICES Keeps(p, t)
  <2>1. \A f \in {"max_buttons_size", "waited", "opened_VS", "buttons"} : p[f] = s[f]
    BY DEF TakesNext, Differ, Fields
  <2> QED
    BY <2>1 DEF Keeps
<1>2. ASSUME GivesTurn(m, p, t) PROVE Keeps(p, t)
  BY <1>2, SentWaits, KeepsSame DEF GivesTurn, Differ, Outgoing, Registers, TurnFieldsOf, Fields
<1>3. ASSUME Rests(p, t) PROVE Keeps(p, t)
  BY <1>3, KeepsSame DEF Rests, Differ, Fields
<1>4. ASSUME OwnLoss(p, t) PROVE Keeps(p, t)
  BY <1>4, SentWaits, KeepsSame DEF OwnLoss, Differ, Outgoing, Registers, EndFields, Fields
<1>5. ASSUME NEW data \in Int, Hears(m, p, t, data) PROVE Keeps(p, t)
  <2>1. CASE data \in 3..8 /\ (OwnClicked(p, t, data - 3) \/ RemoteClicked(p, t, data - 3))
    <3>1. data - 3 \in Nat
      BY <2>1
    <3> QED
      BY <2>1, <3>1, OwnKeeps, RemoteKeeps
  <2>2. CASE \E vs : TakesTurn(p, t, vs)
    BY <2>2, KeepsSame DEF TakesTurn, Differ, TurnFieldsOf, Fields
  <2>3. CASE HearsEnd(p, t)
    BY <2>3, KeepsSame DEF HearsEnd, Differ, EndFields, Fields
  <2>4. CASE t = p
    BY <2>4, KeepsSame
  <2> QED
    BY <1>5, <2>1, <2>2, <2>3, <2>4 DEF Hears
<1>6. ASSUME Differ(p, t, Registers \cup {"queue"}) PROVE Keeps(p, t)
  BY <1>6, KeepsSame DEF Differ, Registers, Fields
<1>7. ASSUME NEW click \in 0..5, OwnClicked(p, t, click) PROVE Keeps(p, t)
  BY <1>7, OwnKeeps
<1> QED
  BY <1>2, <1>3, <1>4, <1>5, <1>6, <1>7 DEF Handles

-----------------------------------------------------------------------------
(* The game as a player sees it, and what a byte makes of it               *)

\* What the two players have to agree on: the result counts once there is one.
V(bs, g, f, x, sc, e, w, n) ==
  [buttons |-> bs, guessed |-> g, first |-> f, vs |-> x, score |-> sc, ended |-> e,
   ws |-> w, max |-> n]

View(s) ==
  V(s.buttons, s.guessed, s.is_player_1, s.VS_was_pressed, s.player_score, s.game_end,
    IF s.game_end THEN s.ws ELSE TIE, s.max_buttons_size)

\* The fields of such a game
LEMMA ViewFields ==
  ASSUME NEW bs, NEW g, NEW f, NEW x, NEW sc, NEW e, NEW w, NEW n
  PROVE  LET v == V(bs, g, f, x, sc, e, w, n) IN
         /\ v.buttons = bs /\ v.guessed = g /\ v.first = f /\ v.vs = x /\ v.score = sc
         /\ v.ended = e /\ v.ws = w /\ v.max = n
BY DEF V

\* The fields of a computer's game
LEMMA ViewOf ==
  ASSUME NEW s
  PROVE  /\ View(s).buttons = s.buttons /\ View(s).guessed = s.guessed
         /\ View(s).first = s.is_player_1 /\ View(s).vs = s.VS_was_pressed
         /\ View(s).score = s.player_score /\ View(s).ended = s.game_end
         /\ View(s).ws = (IF s.game_end THEN s.ws ELSE TIE)
         /\ View(s).max = s.max_buttons_size
BY ViewFields DEF View

\* What a view is made of
Seen == {"buttons", "guessed", "is_player_1", "VS_was_pressed", "player_score", "game_end", "ws",
         "max_buttons_size"}

\* A change of other fields is not seen.
LEMMA SameView ==
  ASSUME NEW s, NEW t, \A f \in Seen : t[f] = s[f] PROVE View(t) = View(s)
BY DEF View, Seen

\* Whose turn it is, and whether a click adds a button
Turn(m, v) == (m = "host") = v.first
Adds(v) == v.guessed = Len(v.buttons) \/ v.vs

\* A click of the player to move, the turn passed, and a loss of the player to move
Press(v, click) ==
  IF Adds(v)
  THEN V(Append(v.buttons, click), v.guessed, v.first, v.vs \/ click = VS_B,
         IF v.guessed = Len(v.buttons) THEN Len(v.buttons) ELSE v.score, v.ended, v.ws, v.max)
  ELSE V(v.buttons, v.guessed + 1, v.first, v.vs, v.score, v.ended, v.ws, v.max)
Turned(v) == V(v.buttons, 0, ~v.first, FALSE, v.score, v.ended, v.ws, v.max)
Lost(m, v) ==
  V(v.buttons, v.guessed, v.first, v.vs, v.score, TRUE,
    IF m = "host" THEN WINNER1 ELSE WINNER2, v.max)

\* What m makes of a byte it hears.
Hear(m, v, byte) ==
  IF byte \in 3..8 THEN Press(v, byte - 3)
  ELSE IF byte \in {9, 11} THEN Turned(v)
  ELSE IF byte = 12 THEN Lost(m, v)
  ELSE v

\* A byte the other player may send in the game v: it has the turn, and a click is
\* the next one or a new one for which there is room.
Fine(m, v, byte) ==
  /\ ~v.ended /\ ~Turn(m, v) /\ byte \in 3..9 \cup {11, 12, 13}
  /\ byte \in 3..8 => IF Adds(v) THEN v.guessed # v.max
                      ELSE v.buttons[v.guessed + 1] = byte - 3

-----------------------------------------------------------------------------
(* The bytes under way to m: read, arrived, in tsr and in thr              *)

\* The game after the byte of a register, if there is one
After(m, v, q) == IF q = << >> THEN v ELSE Hear(m, v, q[1])
FineSlot(m, v, q) == q # << >> => Fine(m, v, q[1])

\* Hearing the four in order leads from v to w.
Flow(m, v, p1, p2, p3, p4, w) ==
  LET v1 == After(m, v, p1)
      v2 == After(m, v1, p2)
      v3 == After(m, v2, p3)
  IN  /\ FineSlot(m, v, p1) /\ FineSlot(m, v1, p2) /\ FineSlot(m, v2, p3) /\ FineSlot(m, v3, p4)
      /\ w = After(m, v3, p4)

\* A byte is sent after the others.
LEMMA FlowPush ==
  ASSUME NEW m, NEW v, NEW p1, NEW p2, NEW p3, NEW w, Flow(m, v, p1, p2, p3, << >>, w),
         NEW x, Fine(m, w, x)
  PROVE  /\ p3 = << >> => Flow(m, v, p1, p2, <<x>>, << >>, Hear(m, w, x))
         /\ p3 # << >> => Flow(m, v, p1, p2, p3, <<x>>, Hear(m, w, x))
<1>1. <<x>> # << >> /\ <<x>>[1] = x
  OBVIOUS
<1> QED
  BY <1>1 DEF Flow, After, FineSlot

\* The line moves a byte, and the one behind it.
LEMMA FlowDeliver ==
  ASSUME NEW m, NEW v, NEW p1, NEW p3, NEW p4, NEW w, Flow(m, v, p1, << >>, p3, p4, w)
  PROVE  Flow(m, v, p1, p3, p4, << >>, w)
BY DEF Flow, After, FineSlot

\* A byte that arrived is read.
LEMMA FlowRead ==
  ASSUME NEW m, NEW v, NEW p2, NEW p3, NEW p4, NEW w, Flow(m, v, << >>, p2, p3, p4, w)
  PROVE  Flow(m, v, p2, << >>, p3, p4, w)
BY DEF Flow, After, FineSlot

\* The byte that was read is heard.
LEMMA FlowHear ==
  ASSUME NEW m, NEW v, NEW x, NEW p2, NEW p3, NEW p4, NEW w, Flow(m, v, <<x>>, p2, p3, p4, w)
  PROVE  Fine(m, v, x) /\ Flow(m, Hear(m, v, x), << >>, p2, p3, p4, w)
<1>1. <<x>> # << >> /\ <<x>>[1] = x
  OBVIOUS
<1> QED
  BY <1>1 DEF Flow, After, FineSlot

\* No byte is under way.
LEMMA FlowNone ==
  ASSUME NEW m, NEW v PROVE Flow(m, v, << >>, << >>, << >>, << >>, v)
BY DEF Flow, After, FineSlot

\* Nothing is said to a player who has the turn, or whose game is over.
LEMMA FlowDone ==
  ASSUME NEW m, NEW v, NEW p1, NEW p2, NEW p3, NEW p4, NEW w, Flow(m, v, p1, p2, p3, p4, w),
         Turn(m, v) \/ v.ended
  PROVE  p1 = << >> /\ p2 = << >> /\ p3 = << >> /\ p4 = << >> /\ w = v
<1>1. \A x : ~Fine(m, v, x)
  BY DEF Fine
<1>2. p1 = << >> /\ After(m, v, p1) = v
  BY <1>1 DEF Flow, FineSlot, After
<1>3. p2 = << >> /\ After(m, v, p2) = v
  BY <1>1, <1>2 DEF Flow, FineSlot, After
<1>4. p3 = << >> /\ After(m, v, p3) = v
  BY <1>1, <1>2, <1>3 DEF Flow, FineSlot, After
<1>5. p4 = << >> /\ After(m, v, p4) = v
  BY <1>1, <1>2, <1>3, <1>4 DEF Flow, FineSlot, After
<1> QED
  BY <1>2, <1>3, <1>4, <1>5 DEF Flow

\* The sequence of v is where the one of w begins.
Begins(v, w) ==
  v \in Seq(Nat) =>
    w \in Seq(Nat) /\ Len(v) <= Len(w) /\ \A i \in 1..Len(v) : w[i] = v[i]

\* Only a click changes the sequence.
LEMMA HeardButtons ==
  ASSUME NEW m, NEW v, NEW x
  PROVE  Hear(m, v, x).buttons =
           IF x \in 3..8 /\ Adds(v) THEN Append(v.buttons, x - 3) ELSE v.buttons
<1>1. \A c : Press(v, c).buttons = IF Adds(v) THEN Append(v.buttons, c) ELSE v.buttons
  BY DEF Press, V
<1>2. Turned(v).buttons = v.buttons /\ Lost(m, v).buttons = v.buttons
  BY DEF Turned, Lost, V
<1> QED
  BY <1>1, <1>2 DEF Hear

\* A byte leaves the beginning of the sequence alone.
LEMMA HearBegins ==
  ASSUME NEW m, NEW v, NEW q, FineSlot(m, v, q)
  PROVE  Begins(v.buttons, After(m, v, q).buttons)
<1>1. CASE After(m, v, q).buttons = v.buttons
  BY <1>1, LenProperties DEF Begins
<1>2. ASSUME q # << >>, q[1] \in 3..8, Adds(v)
      PROVE  Begins(v.buttons, After(m, v, q).buttons)
  <2>1. After(m, v, q).buttons = Append(v.buttons, q[1] - 3)
    BY <1>2, HeardButtons DEF After
  <2>2. q[1] - 3 \in Nat
    BY <1>2
  <2> QED
    BY <2>1, <2>2, AppendProperties, LenProperties DEF Begins
<1>3. CASE ~(q # << >> /\ q[1] \in 3..8 /\ Adds(v))
  <2>1. After(m, v, q).buttons = v.buttons
    BY <1>3, HeardButtons DEF After
  <2> QED
    BY <1>1, <2>1
<1> QED
  BY <1>2, <1>3

\* A beginning of a beginning
LEMMA BeginsTrans ==
  ASSUME NEW u, NEW v, NEW w, Begins(u, v), Begins(v, w) PROVE Begins(u, w)
<1> SUFFICES ASSUME u \in Seq(Nat)
             PROVE  w \in Seq(Nat) /\ Len(u) <= Len(w) /\ \A i \in 1..Len(u) : w[i] = u[i]
  BY DEF Begins
<1>1. v \in Seq(Nat) /\ Len(u) <= Len(v) /\ \A i \in 1..Len(u) : v[i] = u[i]
  BY DEF Begins
<1>2. w \in Seq(Nat) /\ Len(v) <= Len(w) /\ \A i \in 1..Len(v) : w[i] = v[i]
  BY <1>1 DEF Begins
<1>3. Len(u) \in Nat /\ Len(v) \in Nat /\ Len(w) \in Nat
  BY <1>1, <1>2, LenProperties
<1>4. \A i \in 1..Len(u) : i \in 1..Len(v)
  BY <1>1, <1>3
<1> QED
  BY <1>1, <1>2, <1>3, <1>4

\* So do all the bytes under way.
LEMMA FlowBegins ==
  ASSUME NEW m, NEW v, NEW p1, NEW p2, NEW p3, NEW p4, NEW w, Flow(m, v, p1, p2, p3, p4, w)
  PROVE  Begins(v.buttons, w.buttons)
<1> DEFINE v1 == After(m, v, p1)
           v2 == After(m, v1, p2)
           v3 == After(m, v2, p3)
<1>1. /\ FineSlot(m, v, p1) /\ FineSlot(m, v1, p2) /\ FineSlot(m, v2, p3) /\ FineSlot(m, v3, p4)
      /\ w = After(m, v3, p4)
  BY DEF Flow
<1> HIDE DEF v1, v2, v3
<1>2. Begins(v.buttons, v1.buttons)
  BY <1>1, HearBegins DEF v1
<1>3. Begins(v1.buttons, v2.buttons)
  BY <1>1, HearBegins DEF v2
<1>4. Begins(v2.buttons, v3.buttons)
  BY <1>1, HearBegins DEF v3
<1>5. Begins(v3.buttons, w.buttons)
  BY <1>1, HearBegins
<1> QED
  BY <1>2, <1>3, <1>4, <1>5, BeginsTrans

-----------------------------------------------------------------------------
(* What a handler does to the games of the two players                     *)

\* The byte a handler is about to read
InHand(s) == IF s.data >= 0 THEN <<s.data>> ELSE << >>

\* One computer's part of Orderly
Tame(m, s) ==
  /\ ~s.waited /\ Len(s.buttons) <= s.max_buttons_size /\ (m = "client" => ~s.opened_VS)

\* A computer in a started game: it is on screen or over, no message waits, a
\* player about to pass the turn has not lost, and player 2 opened no VS interval.
Sane(m, s) ==
  /\ s.is_vs_round = TRUE /\ s.VS_was_pressed \in BOOLEAN
  /\ s.buttons \in Seq(Nat) /\ s.guessed \in 0..Len(s.buttons)
  /\ s.mode = "MP_GAME" \/ s.game_end
  /\ s.queue = << >> /\ UartLast(s)
  /\ s.todo # << >> /\ Head(s.todo) = "change_player" => ~s.game_end
  /\ m = "client" /\ MyTurn(m, s) => ~s.VS_was_pressed

\* The player says something, and the other one will see the same game; but of a
\* tie it does not hear.
Speaks(m, s, t) ==
  /\ MyTurn(m, s) /\ ~s.game_end /\ t.data = s.data /\ t.rbr = s.rbr
  /\ \E x : /\ Pushed(s, t, x) /\ Fine(Other(m), View(s), x)
            /\ View(t) = Hear(Other(m), View(s), x) \/ (x = 13 /\ t.game_end)

\* The turn, as both players see it
LEMMA TurnOfOther ==
  ASSUME NEW m \in Machines, NEW s, MachineOK(s)
  PROVE  /\ MyTurn(m, s) <=> Turn(m, View(s))
         /\ MyTurn(m, s) => ~Turn(Other(m), View(s))
         /\ ~MyTurn(m, s) => Turn(Other(m), View(s))
<1>1. View(s).first = s.is_player_1 /\ s.is_player_1 \in BOOLEAN
  BY ViewOf DEF MachineOK
<1>2. (m = "host" /\ Other(m) # "host") \/ (m # "host" /\ Other(m) = "host")
  BY DEF Machines, Other
<1> QED
  BY <1>1, <1>2 DEF MyTurn, Turn

\* The first handler is not mp_change_player either.
LEMMA CalmHead ==
  ASSUME NEW s, MachineOK(s), Calm(s) PROVE ~(s.todo # << >> /\ Head(s.todo) = "change_player")
<1> SUFFICES ASSUME s.todo # << >> PROVE Head(s.todo) # "change_player"
  OBVIOUS
<1>1. s.todo \in Seq(TaskNames)
  BY DEF MachineOK
<1>2. Head(s.todo) = s.todo[1] /\ 1 \in 1..Len(s.todo)
  <2>1. Len(s.todo) \in Nat /\ Len(s.todo) # 0
    BY <1>1, EmptySeq, LenProperties
  <2> QED
    BY <1>1, <2>1
<1> QED
  BY <1>2 DEF Calm

\* mp_change_player comes before the handlers that are due.
LEMMA PrependLast ==
  ASSUME NEW s, MachineOK(s), UartLast(s), NEW t, t.todo = <<"change_player">> \o s.todo,
         t.data = s.data
  PROVE  UartLast(t)
<1>1. s.todo \in Seq(TaskNames) /\ <<"change_player">> \in Seq(TaskNames)
  BY DEF MachineOK, TaskNames
<1>2. /\ Len(t.todo) = Len(s.todo) + 1 /\ Len(s.todo) \in Nat /\ t.todo[1] = "change_player"
      /\ \A i \in 2..Len(t.todo) : t.todo[i] = s.todo[i - 1]
  BY <1>1, LenProperties
<1>3. t.todo # << >>
  BY <1>1, <1>2
<1>4. ASSUME NEW i \in 1..Len(t.todo), t.todo[i] = "uart" PROVE i = Len(t.todo)
  <2>1. i \in 2..Len(t.todo) /\ i - 1 \in 1..Len(s.todo)
    BY <1>2, <1>4
  <2>2. i - 1 = Len(s.todo)
    BY <1>2, <1>4, <2>1 DEF UartLast
  <2> QED
    BY <1>2, <2>2
<1>5. ASSUME t.data >= 0 PROVE t.todo[Len(t.todo)] = "uart"
  <2>1. s.todo # << >> /\ s.todo[Len(s.todo)] = "uart"
    BY <1>5 DEF UartLast
  <2>2. Len(s.todo) # 0
    BY <1>1, <2>1, EmptySeq
  <2>3. Len(t.todo) \in 2..Len(t.todo) /\ Len(t.todo) - 1 = Len(s.todo)
    BY <1>2, <2>2
  <2> QED
    BY <1>2, <2>1, <2>3
<1> QED
  BY <1>3, <1>4, <1>5 DEF UartLast

\* A message that is sent leaves the queue empty, as long as none waits.
LEMMA SentOut ==
  ASSUME NEW s, NEW t, NEW x, Sent(s, t, x), ~t.waited
  PROVE  Pushed(s, t, x) /\ t.queue = s.queue
BY DEF Sent

\* A loss is said, and the game is over on both sides.
LEMMA LossSpeaks ==
  ASSUME NEW m \in Machines, NEW s, MachineOK(s), Calm(s), Sane(m, s), NEW t, MachineOK(t),
         Tame(m, t), MyTurn(m, s), ~s.game_end, OwnLoss(s, t)
  PROVE  Speaks(m, s, t) /\ Sane(m, t)
<1>1. /\ \A f \in {"buttons", "guessed", "is_player_1", "VS_was_pressed", "player_score",
                   "max_buttons_size", "data", "rbr", "todo", "is_vs_round", "mode"} : t[f] = s[f]
      /\ t.game_end = TRUE /\ t.ws = IF s.is_player_1 THEN WINNER2 ELSE WINNER1
  BY DEF OwnLoss, Differ, Outgoing, Registers, EndFields, Fields
<1>2. LOSE = 12
  BY DEF LOSE
<1>3. Pushed(s, t, 12) /\ t.queue = s.queue
  BY <1>2, SentOut DEF OwnLoss, Tame
<1>4. Fine(Other(m), View(s), 12)
  <2>1. ~View(s).ended /\ ~Turn(Other(m), View(s))
    BY ViewOf, TurnOfOther
  <2> QED
    BY <2>1 DEF Fine
<1>5. t.ws = IF Other(m) = "host" THEN WINNER1 ELSE WINNER2
  BY <1>1 DEF MyTurn, Machines, Other
<1>6. View(t) = Lost(Other(m), View(s))
  <2>1. /\ View(s).buttons = s.buttons /\ View(s).guessed = s.guessed
        /\ View(s).first = s.is_player_1 /\ View(s).vs = s.VS_was_pressed
        /\ View(s).score = s.player_score /\ View(s).max = s.max_buttons_size
    BY ViewOf
  <2>2. View(t) = V(s.buttons, s.guessed, s.is_player_1, s.VS_was_pressed, s.player_score, TRUE,
                    t.ws, s.max_buttons_size)
    BY <1>1 DEF View
  <2> QED
    BY <1>5, <2>1, <2>2 DEF Lost
<1>7. Hear(Other(m), View(s), 12) = Lost(Other(m), View(s))
  BY DEF Hear
<1>8. Speaks(m, s, t)
  BY <1>1, <1>3, <1>4, <1>6, <1>7 DEF Speaks
<1>9. UartLast(t)
  BY <1>1 DEF Sane, UartLast
<1>10. ~(t.todo # << >> /\ Head(t.todo) = "change_player")
  BY <1>1, CalmHead
<1>11. Sane(m, t)
  BY <1>1, <1>3, <1>9, <1>10 DEF Sane, MyTurn
<1> QED
  BY <1>8, <1>11

\* The turn is passed in both games.
LEMMA TurnSpeaks ==
  ASSUME NEW m \in Machines, NEW s, MachineOK(s), Calm(s), Sane(m, s), NEW t, MachineOK(t),
         Tame(m, t), MyTurn(m, s), ~s.game_end, GivesTurn(m, s, t)
  PROVE  Speaks(m, s, t) /\ Sane(m, t)
<1>1. /\ \A f \in {"buttons", "player_score", "game_end", "ws", "max_buttons_size", "data", "rbr",
                   "todo", "mode"} : t[f] = s[f]
      /\ t.guessed = 0 /\ t.is_player_1 = ~s.is_player_1
  BY DEF GivesTurn, Differ, Outgoing, Registers, TurnFieldsOf, Fields
<1>2. t.is_vs_round = TRUE /\ t.VS_was_pressed = FALSE
  <2>1. CASE m = "host"
    BY <2>1 DEF GivesTurn
  <2>2. CASE m = "client"
    <3>1. ~s.VS_was_pressed /\ s.VS_was_pressed \in BOOLEAN /\ s.is_vs_round = TRUE
      BY <2>2 DEF Sane
    <3>2. m # "host"
      BY <2>2
    <3>3. t.is_vs_round = s.is_vs_round /\ t.VS_was_pressed = s.VS_was_pressed
      BY <3>2 DEF GivesTurn
    <3> QED
      BY <3>1, <3>3
  <2> QED
    BY <2>1, <2>2 DEF Machines
<1> DEFINE x == IF m = "host" THEN IS_VS ELSE READY
<1>3. x = 9 \/ x = 11
  BY DEF IS_VS, READY
<1>4. Pushed(s, t, x) /\ t.queue = s.queue
  BY SentOut DEF GivesTurn, Tame
<1> HIDE DEF x
<1>5. Fine(Other(m), View(s), x)
  <2>1. ~View(s).ended /\ ~Turn(Other(m), View(s))
    BY ViewOf, TurnOfOther
  <2> QED
    BY <1>3, <2>1 DEF Fine
<1>6. View(t) = Turned(View(s))
  <2>1. /\ View(s).buttons = s.buttons /\ View(s).first = s.is_player_1
        /\ View(s).score = s.player_score /\ View(s).max = s.max_buttons_size
        /\ View(s).ended = s.game_end /\ View(s).ws = (IF s.game_end THEN s.ws ELSE TIE)
    BY ViewOf
  <2>2. View(t) = V(s.buttons, 0, ~s.is_player_1, FALSE, s.player_score, s.game_end,
                    IF s.game_end THEN s.ws ELSE TIE, s.max_buttons_size)
    BY <1>1, <1>2 DEF View
  <2> QED
    BY <2>1, <2>2 DEF Turned
<1>7. Hear(Other(m), View(s), x) = Turned(View(s))
  BY <1>3 DEF Hear
<1>8. Speaks(m, s, t)
  BY <1>1, <1>4, <1>5, <1>6, <1>7 DEF Speaks
<1>9. UartLast(t)
  BY <1>1 DEF Sane, UartLast
<1>10. 0 \in 0..Len(t.buttons)
  BY <1>1, LenProperties DEF Sane
<1>11. Sane(m, t)
  BY <1>1, <1>2, <1>4, <1>9, <1>10 DEF Sane
<1> QED
  BY <1>8, <1>11

\* A click in one's own turn
LEMMA OwnSpeaks ==
  ASSUME NEW m \in Machines, NEW s, MachineOK(s), Calm(s), Sane(m, s), Tame(m, s), NEW t,
         MachineOK(t), Tame(m, t), MyTurn(m, s), ~s.game_end, NEW click \in 0..5,
         OwnClicked(s, t, click)
  PROVE  Speaks(m, s, t) /\ Sane(m, t)
<1>0. ~View(s).ended /\ ~Turn(Other(m), View(s))
  BY ViewOf, TurnOfOther
<1>v. /\ View(s).buttons = s.buttons /\ View(s).guessed = s.guessed
      /\ View(s).first = s.is_player_1 /\ View(s).vs = s.VS_was_pressed
      /\ View(s).score = s.player_score /\ View(s).max = s.max_buttons_size
      /\ View(s).ended = s.game_end /\ View(s).ws = (IF s.game_end THEN s.ws ELSE TIE)
  BY ViewOf
<1>a. Adds(View(s)) <=> Adding(s)
  BY <1>v DEF Adds, Adding
<1>h. ~(s.todo # << >> /\ Head(s.todo) = "change_player")
  BY CalmHead
<1>s. /\ s.is_vs_round = TRUE /\ s.VS_was_pressed \in BOOLEAN
      /\ s.buttons \in Seq(Nat) /\ s.guessed \in 0..Len(s.buttons)
      /\ s.mode = "MP_GAME" /\ s.queue = << >> /\ UartLast(s)
      /\ (m = "client" => ~s.VS_was_pressed)
  BY DEF Sane
<1>n. s.max_buttons_size \in Nat /\ Len(s.buttons) \in Nat /\ Len(s.buttons) <= s.max_buttons_size
      /\ s.guessed \in Nat
  BY <1>s, LenProperties DEF MachineOK, Tame
<1>x. /\ GREEN_REMOTE + click = 3 + click /\ 3 + click \in 3..8 /\ (3 + click) - 3 = click
      /\ click \in Nat
  BY DEF GREEN_REMOTE
<1>p. Hear(Other(m), View(s), 3 + click) = Press(View(s), click)
  BY <1>x DEF Hear
<1>1. CASE OwnTie(s, t)
  <2>1. /\ \A f \in {"buttons", "guessed", "is_player_1", "VS_was_pressed", "max_buttons_size",
                     "data", "rbr", "todo", "is_vs_round", "mode"} : t[f] = s[f]
        /\ t.game_end = TRUE
    BY <1>1 DEF OwnTie, Differ, Outgoing, Registers, EndFields, Fields
  <2>2. TIE_REMOTE = 13
    BY DEF TIE_REMOTE
  <2>3. Pushed(s, t, 13) /\ t.queue = s.queue
    BY <1>1, <2>2, SentOut DEF OwnTie, Tame
  <2>4. Fine(Other(m), View(s), 13)
    BY <1>0 DEF Fine
  <2>5. Speaks(m, s, t)
    BY <2>1, <2>3, <2>4 DEF Speaks
  <2>6. UartLast(t)
    BY <1>s, <2>1 DEF UartLast
  <2>7. Sane(m, t)
    BY <1>s, <1>h, <2>1, <2>3, <2>6 DEF Sane
  <2> QED
    BY <2>5, <2>7
<1>2. CASE OwnAdd(s, t, click)
  <2>1. /\ \A f \in {"guessed", "is_player_1", "game_end", "ws", "max_buttons_size", "data", "rbr",
                     "is_vs_round", "mode"} : t[f] = s[f]
        /\ t.buttons = Append(s.buttons, click) /\ t.player_score = ScoreOf(s)
        /\ Adding(s) /\ s.guessed # s.max_buttons_size
    BY <1>2 DEF OwnAdd, Differ, Outgoing, Registers, Fields
  <2>2. Pushed(s, t, 3 + click) /\ t.queue = s.queue
    BY <1>2, <1>x, SentOut DEF OwnAdd, Tame
  <2>3. Fine(Other(m), View(s), 3 + click)
    BY <1>0, <1>v, <1>a, <1>x, <2>1 DEF Fine
  <2>4. t.VS_was_pressed = (s.VS_was_pressed \/ click = VS_B)
    BY <1>2, <1>s DEF OwnAdd
  <2>5. View(t) = Press(View(s), click)
    <3>1. View(t) = V(Append(s.buttons, click), s.guessed, s.is_player_1,
                      s.VS_was_pressed \/ click = VS_B,
                      IF s.guessed = Len(s.buttons) THEN Len(s.buttons) ELSE s.player_score,
                      s.game_end, IF s.game_end THEN s.ws ELSE TIE, s.max_buttons_size)
      BY <2>1, <2>4 DEF View, ScoreOf
    <3> QED
      BY <1>v, <1>a, <2>1, <3>1 DEF Press
  <2>6. Speaks(m, s, t)
    BY <1>p, <2>1, <2>2, <2>3, <2>5 DEF Speaks
  <2>7. UartLast(t)
    <3>1. CASE t.todo = s.todo
      BY <1>s, <2>1, <3>1 DEF UartLast
    <3>2. CASE t.todo = <<"change_player">> \o s.todo
      BY <1>s, <2>1, <3>2, PrependLast
    <3> QED
      BY <1>2, <3>1, <3>2 DEF OwnAdd
  <2>8. t.buttons \in Seq(Nat) /\ t.guessed \in 0..Len(t.buttons)
    BY <1>s, <1>n, <1>x, <2>1, AppendProperties
  <2>9. m = "client" => ~t.VS_was_pressed
    BY <1>2, <1>s DEF OwnAdd, Tame
  <2>10. t.VS_was_pressed \in BOOLEAN
    BY <2>4
  <2>11. Sane(m, t)
    BY <1>s, <2>1, <2>2, <2>7, <2>8, <2>9, <2>10 DEF Sane
  <2> QED
    BY <2>6, <2>11
<1>3. CASE OwnNext(s, t, click)
  <2>1. /\ \A f \in {"buttons", "is_player_1", "VS_was_pressed", "player_score", "game_end", "ws",
                     "max_buttons_size", "data", "rbr", "todo", "is_vs_round", "mode"} : t[f] = s[f]
        /\ t.guessed = s.guessed + 1 /\ ~Adding(s) /\ TRUE \in Matches(s, click)
    BY <1>3 DEF OwnNext, Differ, Outgoing, Registers, Fields
  <2>2. Pushed(s, t, 3 + click) /\ t.queue = s.queue
    BY <1>3, <1>x, SentOut DEF OwnNext, Tame
  <2>3. s.guessed # Len(s.buttons)
    BY <2>1 DEF Adding
  <2>4. s.guessed < Len(s.buttons) /\ s.guessed < s.max_buttons_size
    BY <1>s, <1>n, <2>3
  <2>5. s.buttons[s.guessed + 1] = click
    BY <2>1, <2>4 DEF Matches
  <2>6. Fine(Other(m), View(s), 3 + click)
    BY <1>0, <1>v, <1>a, <1>x, <2>1, <2>5 DEF Fine
  <2>7. View(t) = Press(View(s), click)
    <3>1. View(t) = V(s.buttons, s.guessed + 1, s.is_player_1, s.VS_was_pressed, s.player_score,
                      s.game_end, IF s.game_end THEN s.ws ELSE TIE, s.max_buttons_size)
      BY <2>1 DEF View
    <3> QED
      BY <1>v, <1>a, <2>1, <3>1 DEF Press
  <2>8. Speaks(m, s, t)
    BY <1>p, <2>1, <2>2, <2>6, <2>7 DEF Speaks
  <2>9. UartLast(t)
    BY <1>s, <2>1 DEF UartLast
  <2>10. t.guessed \in 0..Len(t.buttons)
    BY <1>n, <2>1, <2>4
  <2>11. Sane(m, t)
    BY <1>s, <1>h, <2>1, <2>2, <2>9, <2>10 DEF Sane
  <2> QED
    BY <2>8, <2>11
<1>4. CASE OwnLoss(s, t)
  BY <1>4, LossSpeaks
<1> QED
  BY <1>1, <1>2, <1>3, <1>4 DEF OwnClicked

\* What the other player does
LEMMA HearsFine ==
  ASSUME NEW m \in Machines, NEW s, MachineOK(s), Calm(s), Sane(m, s), Tame(m, s), NEW t,
         MachineOK(t), NEW x \in Nat, Hears(m, s, t, x), Fine(m, View(s), x)
  PROVE  View(t) = Hear(m, View(s), x) /\ Silent(s, t) /\ Sane(m, t)
         /\ t.data = s.data /\ t.rbr = s.rbr
<1>v. /\ View(s).buttons = s.buttons /\ View(s).guessed = s.guessed
      /\ View(s).first = s.is_player_1 /\ View(s).vs = s.VS_was_pressed
      /\ View(s).score = s.player_score /\ View(s).max = s.max_buttons_size
      /\ View(s).ended = s.game_end /\ View(s).ws = (IF s.game_end THEN s.ws ELSE TIE)
  BY ViewOf
<1>0. /\ ~s.game_end /\ ~MyTurn(m, s) /\ x \in 3..9 \cup {11, 12, 13}
      /\ x \in 3..8 => IF Adds(View(s)) THEN s.guessed # s.max_buttons_size
                       ELSE s.buttons[s.guessed + 1] = x - 3
  BY <1>v, TurnOfOther DEF Fine
<1>a. Adds(View(s)) <=> Adding(s)
  BY <1>v DEF Adds, Adding
<1>h. ~(s.todo # << >> /\ Head(s.todo) = "change_player")
  BY CalmHead
<1>s. /\ s.is_vs_round = TRUE /\ s.VS_was_pressed \in BOOLEAN
      /\ s.buttons \in Seq(Nat) /\ s.guessed \in 0..Len(s.buttons)
      /\ s.mode = "MP_GAME" /\ s.queue = << >> /\ UartLast(s)
  BY <1>0 DEF Sane
<1>n. s.max_buttons_size \in Nat /\ Len(s.buttons) \in Nat /\ Len(s.buttons) <= s.max_buttons_size
      /\ s.guessed \in Nat
  BY <1>s, LenProperties DEF MachineOK, Tame
<1>1. CASE x \in 3..8
  <2> DEFINE click == x - 3
  <2>0. click \in Nat /\ Hear(m, View(s), x) = Press(View(s), click)
    BY <1>1 DEF Hear
  <2>a. ~(x \in {9, 11}) /\ x # 10 /\ x # 12 /\ x # 2 /\ ~(x \notin 3..12 /\ x # 2)
    BY <1>1
  <2>1. RemoteClicked(s, t, click)
    BY <1>0, <2>a DEF Hears
  <2> HIDE DEF click
  <2>2. CASE Adding(s)
    <3>1. RemoteAdd(s, t, click)
      BY <1>0, <1>1, <1>a, <2>1, <2>2 DEF RemoteClicked, RemoteTie, RemoteNext
    <3>2. /\ \A f \in {"guessed", "is_player_1", "game_end", "ws", "max_buttons_size", "data",
                       "rbr", "is_vs_round", "mode", "todo", "queue"} : t[f] = s[f]
          /\ t.buttons = Append(s.buttons, click) /\ t.player_score = ScoreOf(s)
          /\ t.VS_was_pressed = (s.VS_was_pressed \/ (s.is_vs_round /\ click = VS_B))
      BY <3>1 DEF RemoteAdd, Differ, Fields
    <3>3. Silent(s, t)
      BY <3>1, DifferSilent DEF RemoteAdd
    <3>4. t.VS_was_pressed = (s.VS_was_pressed \/ click = VS_B)
      BY <1>s, <3>2
    <3>5. View(t) = V(Append(s.buttons, click), s.guessed, s.is_player_1,
                      s.VS_was_pressed \/ click = VS_B,
                      IF s.guessed = Len(s.buttons) THEN Len(s.buttons) ELSE s.player_score,
                      s.game_end, IF s.game_end THEN s.ws ELSE TIE, s.max_buttons_size)
      BY <3>2, <3>4 DEF View, ScoreOf
    <3>6. View(t) = Press(View(s), click)
      BY <1>v, <1>a, <2>2, <3>5 DEF Press
    <3>7. UartLast(t)
      BY <1>s, <3>2 DEF UartLast
    <3>8. t.buttons \in Seq(Nat) /\ t.guessed \in 0..Len(t.buttons)
      BY <1>s, <1>n, <2>0, <3>2, AppendProperties
    <3>9. t.VS_was_pressed \in BOOLEAN /\ ~MyTurn(m, t)
      BY <1>0, <3>2, <3>4 DEF MyTurn
    <3>10. Sane(m, t)
      BY <1>s, <1>h, <3>2, <3>7, <3>8, <3>9 DEF Sane
    <3> QED
      BY <2>0, <3>2, <3>3, <3>6, <3>10
  <2>3. CASE ~Adding(s)
    <3>1. s.guessed # Len(s.buttons)
      BY <2>3 DEF Adding
    <3>2. s.guessed < Len(s.buttons) /\ s.guessed < s.max_buttons_size
      BY <1>s, <1>n, <3>1
    <3>3. Matches(s, click) = {TRUE}
      BY <1>0, <1>1, <1>a, <2>3, <3>2 DEF Matches, click
    <3>4. RemoteNext(s, t, click)
      BY <2>1, <2>3, <3>3 DEF RemoteClicked, RemoteTie, RemoteAdd
    <3>5. /\ \A f \in {"buttons", "is_player_1", "VS_was_pressed", "player_score", "game_end", "ws",
                       "max_buttons_size", "data", "rbr", "todo", "is_vs_round", "mode",
                       "queue"} : t[f] = s[f]
          /\ t.guessed = s.guessed + 1
      BY <3>4 DEF RemoteNext, Differ, Fields
    <3>6. Silent(s, t)
      BY <3>4, DifferSilent DEF RemoteNext
    <3>7. View(t) = V(s.buttons, s.guessed + 1, s.is_player_1, s.VS_was_pressed, s.player_score,
                      s.game_end, IF s.game_end THEN s.ws ELSE TIE, s.max_buttons_size)
      BY <3>5 DEF View
    <3>8. View(t) = Press(View(s), click)
      BY <1>v, <1>a, <2>3, <3>7 DEF Press
    <3>9. UartLast(t)
      BY <1>s, <3>5 DEF UartLast
    <3>10. t.guessed \in 0..Len(t.buttons)
      BY <1>n, <3>2, <3>5
    <3>11. ~MyTurn(m, t)
      BY <1>0, <3>5 DEF MyTurn
    <3>12. Sane(m, t)
      BY <1>s, <1>h, <3>5, <3>9, <3>10, <3>11 DEF Sane
    <3> QED
      BY <2>0, <3>5, <3>6, <3>8, <3>12
  <2> QED
    BY <2>2, <2>3
<1>2. CASE x \in {9, 11}
  <2>a. x \notin 3..8 /\ x # 10 /\ x # 12 /\ x # 2 /\ ~(x \notin 3..12 /\ x # 2)
    BY <1>2
  <2>1. TakesTurn(s, t, TRUE)
    BY <2>a DEF Hears
  <2>2. /\ \A f \in {"buttons", "player_score", "game_end", "ws", "max_buttons_size", "data", "rbr",
                     "todo", "mode", "queue"} : t[f] = s[f]
        /\ t.guessed = 0 /\ t.is_player_1 = ~s.is_player_1
        /\ t.is_vs_round = TRUE /\ t.VS_was_pressed = FALSE
    BY <2>1 DEF TakesTurn, Differ, TurnFieldsOf, Fields
  <2>3. Silent(s, t)
    BY <2>1, DifferSilent DEF TakesTurn, TurnFieldsOf
  <2>4. View(t) = V(s.buttons, 0, ~s.is_player_1, FALSE, s.player_score, s.game_end,
                    IF s.game_end THEN s.ws ELSE TIE, s.max_buttons_size)
    BY <2>2 DEF View
  <2>5. View(t) = Turned(View(s))
    BY <1>v, <2>4 DEF Turned
  <2>6. Hear(m, View(s), x) = Turned(View(s))
    BY <1>2 DEF Hear
  <2>7. UartLast(t)
    BY <1>s, <2>2 DEF UartLast
  <2>8. t.guessed \in 0..Len(t.buttons)
    BY <1>n, <2>2
  <2>9. Sane(m, t)
    BY <1>s, <1>h, <2>2, <2>7, <2>8 DEF Sane
  <2> QED
    BY <2>2, <2>3, <2>5, <2>6, <2>9
<1>3. CASE x = 12
  <2>1. HearsEnd(s, t) /\ t.ws = (IF m = "host" THEN WINNER1 ELSE WINNER2)
    BY <1>3 DEF Hears
  <2>2. /\ \A f \in {"buttons", "guessed", "is_player_1", "VS_was_pressed", "player_score",
                     "max_buttons_size", "data", "rbr", "todo", "is_vs_round", "mode",
                     "queue"} : t[f] = s[f]
        /\ t.game_end = TRUE
    BY <2>1 DEF HearsEnd, Differ, EndFields, Fields
  <2>3. Silent(s, t)
    BY <2>1, DifferSilent DEF HearsEnd, EndFields
  <2>4. View(t) = V(s.buttons, s.guessed, s.is_player_1, s.VS_was_pressed, s.player_score, TRUE,
                    t.ws, s.max_buttons_size)
    BY <2>2 DEF View
  <2>5. View(t) = Lost(m, View(s))
    BY <1>v, <2>1, <2>4 DEF Lost
  <2>6. Hear(m, View(s), x) = Lost(m, View(s))
    BY <1>3 DEF Hear
  <2>7. UartLast(t) /\ ~MyTurn(m, t)
    BY <1>0, <1>s, <2>2 DEF UartLast, MyTurn
  <2>8. Sane(m, t)
    BY <1>s, <1>h, <2>2, <2>7 DEF Sane
  <2> QED
    BY <2>2, <2>3, <2>5, <2>6, <2>8
<1>4. CASE x = 13
  <2>1. t = s
    BY <1>4 DEF Hears
  <2>2. Hear(m, View(s), x) = View(s)
    BY <1>4 DEF Hear
  <2> QED
    BY <2>1, <2>2 DEF Silent
<1> QED
  BY <1>0, <1>1, <1>2, <1>3, <1>4

\* Nothing is said and nothing heard, or the byte that was read is heard.
Idles(s, t) == View(t) = View(s) /\ Silent(s, t) /\ t.rbr = s.rbr /\ InHand(t) = InHand(s)
HearsByte(m, s, t) ==
  /\ s.data >= 0 /\ View(t) = Hear(m, View(s), s.data) /\ Silent(s, t) /\ t.rbr = s.rbr
  /\ InHand(t) = << >>

\* A computer that has taken the next handler from its list
LEMMA TakenSane ==
  ASSUME NEW m \in Machines, NEW s, MachineOK(s), TodoOK(m, s), s.todo # << >>, Sane(m, s),
         Tame(m, s), NEW p, TakesNext(s, p)
  PROVE  /\ MachineOK(p) /\ Calm(p) /\ Sane(m, p) /\ Tame(m, p) /\ View(p) = View(s)
         /\ Silent(s, p) /\ p.rbr = s.rbr /\ p.game_end = s.game_end
         /\ MyTurn(m, p) <=> MyTurn(m, s)
         /\ Head(s.todo) = "change_player" => MyTurn(m, p) /\ ~p.game_end
         /\ Head(s.todo) # "uart" => p.data = s.data
         /\ Head(s.todo) = "uart" => InHand(p) = << >>
         /\ (Head(s.todo) = "uart" => s.data < 0) => InHand(p) = InHand(s)
<1>1. /\ MachineOK(p) /\ Calm(p) /\ p.todo = Tail(s.todo)
      /\ p.data = (IF Head(s.todo) = "uart" THEN -1 ELSE s.data)
      /\ Differ(s, p, {"todo", "data"})
  BY DEF TakesNext
<1>2. \A f \in Fields \ {"todo", "data"} : p[f] = s[f]
  BY <1>1 DEF Differ
<1>3. View(p) = View(s)
  BY <1>2, SameView DEF Seen, Fields
<1>4. Silent(s, p) /\ p.rbr = s.rbr /\ p.game_end = s.game_end /\ (MyTurn(m, p) <=> MyTurn(m, s))
  BY <1>2 DEF Silent, Fields, MyTurn
<1>5. UartLast(p)
  BY <1>1, NextIsDue DEF Sane
<1>6. ~(p.todo # << >> /\ Head(p.todo) = "change_player")
  BY <1>1, CalmHead
<1>7. Sane(m, p)
  BY <1>2, <1>5, <1>6 DEF Sane, Fields, MyTurn
<1>8. Tame(m, p)
  BY <1>2 DEF Tame, Fields
<1>9. Head(s.todo) = "change_player" => MyTurn(m, p) /\ ~p.game_end
  <2> SUFFICES ASSUME Head(s.todo) = "change_player" PROVE MyTurn(m, s) /\ ~s.game_end
    BY <1>4
  <2>1. s.todo \in Seq(TaskNames)
    BY DEF MachineOK
  <2>2. Len(s.todo) \in Nat /\ Len(s.todo) # 0
    BY <2>1, EmptySeq, LenProperties
  <2>3. 1 \in 1..Len(s.todo) /\ Head(s.todo) = s.todo[1]
    BY <2>1, <2>2
  <2> QED
    BY <2>3 DEF TodoOK, Sane
<1>10. s.data \in Int /\ ~(-1 >= 0)
  BY DEF MachineOK
<1>11. Head(s.todo) = "uart" => InHand(p) = << >>
  BY <1>1, <1>10 DEF InHand
<1>12. (Head(s.todo) = "uart" => s.data < 0) => InHand(p) = InHand(s)
  <2>1. s.data < 0 => ~(s.data >= 0)
    BY <1>10
  <2> QED
    BY <1>1, <1>10, <2>1 DEF InHand
<1> QED
  BY <1>1, <1>3, <1>4, <1>7, <1>8, <1>9, <1>11, <1>12

\* Every handler of a started game
LEMMA HandlerOutcome ==
  ASSUME NEW m \in Machines, NEW s, MachineOK(s), TodoOK(m, s), s.todo # << >>, Sane(m, s),
         Tame(m, s), s.data >= 0 => Fine(m, View(s), s.data),
         NEW p, TakesNext(s, p), NEW t, MachineOK(t), Tame(m, t), Handles(m, s, p, t)
  PROVE  Sane(m, t) /\ (Idles(s, t) \/ Speaks(m, s, t) \/ HearsByte(m, s, t))
<1>1. /\ MachineOK(p) /\ Calm(p) /\ Sane(m, p) /\ Tame(m, p) /\ View(p) = View(s)
      /\ Silent(s, p) /\ p.rbr = s.rbr /\ p.game_end = s.game_end
      /\ MyTurn(m, p) <=> MyTurn(m, s)
      /\ Head(s.todo) = "change_player" => MyTurn(m, p) /\ ~p.game_end
      /\ Head(s.todo) # "uart" => p.data = s.data
      /\ Head(s.todo) = "uart" => InHand(p) = << >>
      /\ (Head(s.todo) = "uart" => s.data < 0) => InHand(p) = InHand(s)
  BY TakenSane
<1>2. ASSUME Head(s.todo) # "uart", Speaks(m, p, t), Sane(m, t) PROVE Speaks(m, s, t)
  <2>1. PICK x : /\ Pushed(p, t, x) /\ Fine(Other(m), View(p), x)
                 /\ View(t) = Hear(Other(m), View(p), x) \/ (x = 13 /\ t.game_end)
    BY <1>2 DEF Speaks
  <2>2. Pushed(s, t, x)
    BY <1>1, <2>1 DEF Pushed, Silent
  <2> QED
    BY <1>1, <1>2, <2>1, <2>2 DEF Speaks
<1>3. CASE Head(s.todo) = "change_player" /\ GivesTurn(m, p, t)
  BY <1>1, <1>2, <1>3, TurnSpeaks
<1>4. CASE (Head(s.todo) = "uart" => s.data < 0) /\ Rests(p, t)
  <2>1. /\ \A f \in Fields \ {"mode", "alarm", "time_left_for_click"} : t[f] = p[f]
        /\ p.game_end \/ t.mode = p.mode
    BY <1>4 DEF Rests, Differ
  <2>2. View(t) = View(p)
    BY <2>1, SameView DEF Seen, Fields
  <2>3. Silent(p, t) /\ t.rbr = p.rbr /\ t.data = p.data /\ t.todo = p.todo
    BY <2>1 DEF Silent, Fields
  <2>4. UartLast(t)
    BY <1>1, <2>3 DEF UartLast, Sane
  <2>5. Sane(m, t)
    BY <1>1, <2>1, <2>4 DEF Sane, MyTurn, Fields
  <2>6. Idles(s, t)
    BY <1>1, <1>4, <2>2, <2>3 DEF Idles, Silent, InHand
  <2> QED
    BY <2>5, <2>6
<1>5. CASE /\ Head(s.todo) = "mouse" /\ TakesClicks(m, p)
           /\ \E click \in 0..5 : OwnClicked(p, t, click)
  <2>1. MyTurn(m, p) /\ ~p.game_end
    BY <1>5 DEF TakesClicks
  <2> QED
    BY <1>1, <1>2, <1>5, <2>1, OwnSpeaks
<1>6. CASE /\ Head(s.todo) = "rtc" /\ CountsDown(m, p)
           /\ OwnLoss(p, t) \/ GivesTurn(m, p, t)
  <2>1. MyTurn(m, p) /\ ~p.game_end
    BY <1>6 DEF CountsDown
  <2> QED
    BY <1>1, <1>2, <1>6, <2>1, LossSpeaks, TurnSpeaks
<1>7. CASE Head(s.todo) = "uart" /\ s.data >= 0 /\ Hears(m, p, t, s.data)
  <2>1. s.data \in Nat /\ Fine(m, View(p), s.data)
    BY <1>1, <1>7 DEF MachineOK
  <2>2. /\ View(t) = Hear(m, View(p), s.data) /\ Silent(p, t) /\ Sane(m, t)
        /\ t.data = p.data /\ t.rbr = p.rbr
    BY <1>1, <1>7, <2>1, HearsFine
  <2>3. HearsByte(m, s, t)
    BY <1>1, <1>7, <2>2 DEF HearsByte, Silent, InHand
  <2> QED
    BY <2>2, <2>3
<1>8. CASE Head(s.todo) = "uart" /\ s.data < 0 /\ p.queue # << >>
  BY <1>1, <1>8 DEF Sane
<1> QED
  BY <1>3, <1>4, <1>5, <1>6, <1>7, <1>8 DEF Handles

-----------------------------------------------------------------------------
(* Two started games                                                       *)

\* Everything m said is under way to the other computer o, and will make its game r
\* the one m has; but m may have ended in a tie of which o does not hear.
Ahead(m, s, o, r) ==
  /\ InHand(s) = << >> /\ s.rbr = << >> /\ r.tsr = << >> /\ r.thr = << >>
  /\ \E w : /\ Flow(o, View(r), InHand(r), r.rbr, s.tsr, s.thr, w)
            /\ w = View(s) \/ (s.game_end /\ ~w.ended /\ ~Turn(o, w))

\* Bytes are under way in one direction only.
InStep(m, s, o, r) == Ahead(m, s, o, r) \/ Ahead(o, r, m, s)

\* The byte a handler is about to read is one the other player may send.
LEMMA InStepFine ==
  ASSUME NEW m, NEW s, NEW o, NEW r, InStep(m, s, o, r), s.data >= 0
  PROVE  Fine(m, View(s), s.data) /\ Ahead(o, r, m, s)
<1>1. InHand(s) = <<s.data>> /\ <<s.data>> # << >>
  BY DEF InHand
<1>2. Ahead(o, r, m, s)
  BY <1>1 DEF InStep, Ahead
<1>3. PICK w : Flow(m, View(s), InHand(s), s.rbr, r.tsr, r.thr, w)
  BY <1>2 DEF Ahead
<1>4. Fine(m, View(s), s.data)
  BY <1>1, <1>3, FlowHear
<1> QED
  BY <1>2, <1>4

\* Nothing is under way to the player who has the turn, and none of his game is news.
LEMMA InStepTurn ==
  ASSUME NEW m \in Machines, NEW s, MachineOK(s), NEW o, NEW r, InStep(m, s, o, r),
         MyTurn(m, s), ~s.game_end
  PROVE  Ahead(m, s, o, r)
<1> SUFFICES ASSUME Ahead(o, r, m, s) PROVE Ahead(m, s, o, r)
  BY DEF InStep
<1>1. PICK w : /\ Flow(m, View(s), InHand(s), s.rbr, r.tsr, r.thr, w)
               /\ w = View(r) \/ (r.game_end /\ ~w.ended /\ ~Turn(m, w))
  BY DEF Ahead
<1>2. Turn(m, View(s))
  BY TurnOfOther
<1>3. /\ InHand(s) = << >> /\ s.rbr = << >> /\ r.tsr = << >> /\ r.thr = << >> /\ w = View(s)
  BY <1>1, <1>2, FlowDone
<1>4. View(r) = View(s)
  BY <1>1, <1>2, <1>3
<1>5. InHand(r) = << >> /\ r.rbr = << >> /\ s.tsr = << >> /\ s.thr = << >>
  BY DEF Ahead
<1>6. Flow(o, View(r), << >>, << >>, << >>, << >>, View(r))
  BY FlowNone
<1> QED
  BY <1>3, <1>4, <1>5, <1>6 DEF Ahead

\* A handler keeps the two in step.
LEMMA OutcomeInStep ==
  ASSUME NEW m \in Machines, NEW s, MachineOK(s), NEW o, o = Other(m), NEW r, InStep(m, s, o, r),
         NEW t, Idles(s, t) \/ Speaks(m, s, t) \/ HearsByte(m, s, t)
  PROVE  InStep(m, t, o, r)
<1>1. CASE Idles(s, t)
  <2>1. /\ View(t) = View(s) /\ InHand(t) = InHand(s) /\ t.rbr = s.rbr /\ t.tsr = s.tsr
        /\ t.thr = s.thr
    BY <1>1 DEF Idles, Silent
  <2>2. View(t).ended = t.game_end /\ View(s).ended = s.game_end
    BY ViewOf
  <2> QED
    BY <2>1, <2>2 DEF InStep, Ahead
<1>2. CASE Speaks(m, s, t)
  <2>1. PICK x : /\ Pushed(s, t, x) /\ Fine(o, View(s), x)
                 /\ View(t) = Hear(o, View(s), x) \/ (x = 13 /\ t.game_end)
    BY <1>2 DEF Speaks
  <2>2. MyTurn(m, s) /\ ~s.game_end /\ t.data = s.data /\ t.rbr = s.rbr
    BY <1>2 DEF Speaks
  <2>3. Ahead(m, s, o, r)
    BY <2>2, InStepTurn
  <2>4. Flow(o, View(r), InHand(r), r.rbr, s.tsr, s.thr, View(s))
    BY <2>2, <2>3 DEF Ahead
  <2>5. Flow(o, View(r), InHand(r), r.rbr, s.tsr, << >>, View(s))
    BY <2>1, <2>4 DEF Pushed
  <2>6. Flow(o, View(r), InHand(r), r.rbr, t.tsr, t.thr, Hear(o, View(s), x))
    BY <2>1, <2>5, FlowPush DEF Pushed
  <2>7. x = 13 => Hear(o, View(s), x) = View(s)
    BY DEF Hear
  <2>8. ~View(s).ended /\ ~Turn(o, View(s))
    BY <2>1 DEF Fine
  <2>9. InHand(t) = << >> /\ t.rbr = << >> /\ r.tsr = << >> /\ r.thr = << >>
    BY <2>2, <2>3 DEF Ahead, InHand
  <2>10. Ahead(m, t, o, r)
    BY <2>1, <2>6, <2>7, <2>8, <2>9 DEF Ahead
  <2> QED
    BY <2>10 DEF InStep
<1>3. CASE HearsByte(m, s, t)
  <2>1. /\ s.data >= 0 /\ View(t) = Hear(m, View(s), s.data) /\ t.tsr = s.tsr /\ t.thr = s.thr
        /\ t.rbr = s.rbr /\ InHand(t) = << >>
    BY <1>3 DEF HearsByte, Silent
  <2>2. Ahead(o, r, m, s) /\ InHand(s) = <<s.data>>
    BY <2>1, InStepFine DEF InHand
  <2>3. PICK w : /\ Flow(m, View(s), InHand(s), s.rbr, r.tsr, r.thr, w)
                 /\ w = View(r) \/ (r.game_end /\ ~w.ended /\ ~Turn(m, w))
    BY <2>2 DEF Ahead
  <2>4. Flow(m, View(t), InHand(t), t.rbr, r.tsr, r.thr, w)
    BY <2>1, <2>2, <2>3, FlowHear
  <2>5. Ahead(o, r, m, t)
    BY <2>1, <2>2, <2>3, <2>4 DEF Ahead
  <2> QED
    BY <2>5 DEF InStep
<1> QED
  BY <1>1, <1>2, <1>3

\* What a notification does to the game: at most a byte is read.
Takes(s, t) ==
  /\ View(t) = View(s) /\ Silent(s, t)
  /\ \/ InHand(t) = InHand(s) /\ t.rbr = s.rbr
     \/ InHand(s) = << >> /\ InHand(t) = s.rbr /\ t.rbr = << >>

\* A notification
LEMMA NoticeTakes ==
  ASSUME NEW m \in Machines, NEW s, MachineOK(s), Sane(m, s), NEW t, Reads(s, t), Noticed(s, t),
         s.mode # "MP_GAME" => s.rbr = << >>
  PROVE  Sane(m, t) /\ Takes(s, t)
<1>1. MachineOK(t) /\ Calm(t) /\ \A f \in Fields \ {"rbr", "thre", "todo", "data"} : t[f] = s[f]
  BY DEF Reads, Differ
<1>2. View(t) = View(s)
  BY <1>1, SameView DEF Seen, Fields
<1>3. Silent(s, t)
  BY <1>1 DEF Silent, Fields
<1>4. s.data \in Int /\ t.data \in Int /\ ~(-1 >= 0) /\ Len(<< >>) = 0
  BY <1>1 DEF MachineOK
<1>5. s.todo = << >> /\ ~(s.data >= 0)
  BY DEF Noticed, Sane, UartLast
<1>6. UartLast(t)
  BY <1>4, <1>5 DEF Noticed, UartLast, NoUart
<1>7. ~(t.todo # << >> /\ Head(t.todo) = "change_player")
  BY <1>1, CalmHead
<1>8. Sane(m, t)
  BY <1>1, <1>6, <1>7 DEF Sane, MyTurn, Fields
<1>9. InHand(s) = << >>
  BY <1>5 DEF InHand
<1>10. CASE t.rbr = s.rbr /\ t.data = s.data
  BY <1>2, <1>3, <1>8, <1>10 DEF Takes, InHand
<1>11. CASE t.rbr = << >> /\ t.data = UartCause(s)
  <2>1. CASE s.rbr = << >>
    <3>1. InHand(t) = << >>
      BY <1>4, <1>11, <2>1 DEF UartCause, InHand
    <3> QED
      BY <1>2, <1>3, <1>8, <1>9, <1>11, <2>1, <3>1 DEF Takes
  <2>2. CASE s.rbr # << >>
    <3>1. PICK b \in Nat : s.rbr = <<b>>
      BY <2>2 DEF MachineOK, Slot
    <3>2. t.data = b /\ b >= 0
      BY <1>11, <2>2, <3>1 DEF UartCause
    <3>3. InHand(t) = s.rbr
      BY <3>1, <3>2 DEF InHand
    <3> QED
      BY <1>2, <1>3, <1>8, <1>9, <1>11, <3>3 DEF Takes
  <2> QED
    BY <2>1, <2>2
<1>12. CASE s.mode # "MP_GAME" /\ t.rbr = << >> /\ t.data = s.data
  BY <1>10, <1>12
<1> QED
  BY <1>10, <1>11, <1>12 DEF Noticed

\* A byte that is read leaves the two in step.
LEMMA TakesInStep ==
  ASSUME NEW m, NEW s, NEW o, NEW r, InStep(m, s, o, r), NEW t, Takes(s, t)
  PROVE  InStep(m, t, o, r)
<1>1. View(t) = View(s) /\ t.tsr = s.tsr /\ t.thr = s.thr
  BY DEF Takes, Silent
<1>2. View(t).ended = t.game_end /\ View(s).ended = s.game_end
  BY ViewOf
<1>3. CASE InHand(t) = InHand(s) /\ t.rbr = s.rbr
  BY <1>1, <1>2, <1>3 DEF InStep, Ahead
<1>4. CASE InHand(s) = << >> /\ InHand(t) = s.rbr /\ t.rbr = << >>
  <2>1. CASE Ahead(m, s, o, r)
    <3>1. InHand(t) = << >>
      BY <1>4, <2>1 DEF Ahead
    <3> QED
      BY <1>1, <1>2, <1>4, <2>1, <3>1 DEF InStep, Ahead
  <2>2. CASE Ahead(o, r, m, s)
    <3>1. PICK w : /\ Flow(m, View(s), InHand(s), s.rbr, r.tsr, r.thr, w)
                   /\ w = View(r) \/ (r.game_end /\ ~w.ended /\ ~Turn(m, w))
      BY <2>2 DEF Ahead
    <3>2. Flow(m, View(t), InHand(t), t.rbr, r.tsr, r.thr, w)
      BY <1>1, <1>4, <3>1, FlowRead
    <3>3. Ahead(o, r, m, t)
      BY <1>1, <2>2, <3>1, <3>2 DEF Ahead
    <3> QED
      BY <3>3 DEF InStep
  <2> QED
    BY <2>1, <2>2 DEF InStep
<1> QED
  BY <1>3, <1>4 DEF Takes

\* A finished game has nothing to hear.
LEMMA InStepEnded ==
  ASSUME NEW m, NEW s, NEW o, NEW r, InStep(m, s, o, r), s.game_end
  PROVE  s.rbr = << >>
<1>1. View(s).ended = s.game_end
  BY ViewOf
<1>2. CASE Ahead(o, r, m, s)
  <2>1. PICK w : Flow(m, View(s), InHand(s), s.rbr, r.tsr, r.thr, w)
    BY <1>2 DEF Ahead
  <2> QED
    BY <1>1, <2>1, FlowDone
<1> QED
  BY <1>2 DEF InStep, Ahead

\* The line
LEMMA LineInStep ==
  ASSUME NEW m, NEW s, NEW o, NEW r, InStep(m, s, o, r), s.tsr # << >>, r.rbr = << >>,
         NEW t, Differ(s, t, Registers), t.tsr = s.thr, t.thr = << >>,
         NEW u, Differ(r, u, {"rbr"}), u.rbr = s.tsr
  PROVE  InStep(m, t, o, u)
<1>1. Ahead(m, s, o, r)
  BY DEF InStep, Ahead
<1>2. /\ \A f \in {"data", "rbr", "game_end"} : t[f] = s[f]
      /\ \A f \in {"data", "tsr", "thr"} : u[f] = r[f]
  BY DEF Differ, Registers, Fields
<1>3. View(t) = View(s) /\ View(u) = View(r)
  <2>1. \A f \in Seen : t[f] = s[f] /\ u[f] = r[f]
    BY DEF Differ, Registers, Fields, Seen
  <2> QED
    BY <2>1, SameView
<1>4. PICK w : /\ Flow(o, View(r), InHand(r), r.rbr, s.tsr, s.thr, w)
               /\ w = View(s) \/ (s.game_end /\ ~w.ended /\ ~Turn(o, w))
  BY <1>1 DEF Ahead
<1>5. InHand(t) = InHand(s) /\ InHand(u) = InHand(r)
  BY <1>2 DEF InHand
<1>6. Flow(o, View(u), InHand(u), u.rbr, t.tsr, t.thr, w)
  BY <1>3, <1>4, <1>5, FlowDeliver
<1>7. Ahead(m, t, o, u)
  BY <1>1, <1>2, <1>3, <1>4, <1>5, <1>6 DEF Ahead
<1> QED
  BY <1>7 DEF InStep

-----------------------------------------------------------------------------
(* The client has started and the host waits for the acknowledgment        *)

\* Neither the keyboard, the mouse nor the clock changes the host's game.
Still(s) ==
  /\ Calm(s) /\ ~s.game_end /\ s.is_player_1 /\ s.time_left_for_click = -1
  /\ s.num_round_sent_bytes = 2
\* It does nothing but hear of the acknowledgment.
Listens(s, p, t) ==
  \/ t = p
  \/ /\ Head(s.todo) = "uart" /\ s.data = ACK
     /\ Differ(p, t, {"game_started"}) /\ t.game_started = TRUE

\* start_game on the host
LEMMA HostStarts ==
  ASSUME NEW q, MachineOK(q), ~q.game_started, NEW d
  PROVE  LET t == HostStart(q, d) IN
         /\ MachineOK(t) /\ Differ(q, t, Registers \cup {"num_round_sent_bytes", "game_started"})
         /\ ~MoreBytes(q) => \/ t = q /\ d # ACK
                             \/ d = ACK /\ Differ(q, t, {"game_started"}) /\ t.game_started = TRUE
<1> DEFINE a == [q EXCEPT !.num_round_sent_bytes = @ + 1]
           b == Serial_write_byte(a, RoundsByte(q))
           sends == d = CONNECTED /\ MoreBytes(q) /\ ThrEmpty(q)
           x == IF sends THEN b ELSE q
           t == HostStart(q, d)
           F == Registers \cup {"num_round_sent_bytes"}
<1>1. t = [x EXCEPT !.game_started = @ \/ d = ACK]
  BY DEF HostStart
<1>2. sends => MachineOK(b) /\ Differ(q, b, F)
  <2> SUFFICES ASSUME sends PROVE MachineOK(b) /\ Differ(q, b, F)
    OBVIOUS
  <2>0. /\ Differ(q, a, {"num_round_sent_bytes"})
        /\ a.num_round_sent_bytes = q.num_round_sent_bytes + 1
    BY DEF MachineOK, IsRecord, Differ, Fields
  <2>1. Differ(q, a, {"num_round_sent_bytes"}) /\ a.num_round_sent_bytes \in Nat
    BY <2>0 DEF MachineOK
  <2> HIDE DEF a
  <2>2. MachineOK(a)
    BY <2>1 DEF MachineOK, Differ, Fields
  <2>3. RoundsByte(q) \in Nat
    BY SentByte
  <2>4. MachineOK(b) /\ Differ(a, b, Registers)
    BY <2>2, <2>3, SerialWrites
  <2> QED
    BY <2>1, <2>4 DEF Differ
<1>3. MachineOK(x) /\ Differ(q, x, F) /\ (~MoreBytes(q) => x = q)
  <2>1. Differ(q, q, F)
    BY DEF Differ, MachineOK
  <2> HIDE DEF b
  <2> QED
    BY <1>2, <2>1
<1> HIDE DEF x, t, F
<1>4. /\ Differ(x, t, {"game_started"}) /\ t.game_started = (x.game_started \/ d = ACK)
  BY <1>1, <1>3 DEF MachineOK, IsRecord, Differ, Fields
<1>5. MachineOK(t)
  BY <1>3, <1>4 DEF MachineOK, Differ, Fields
<1>6. Differ(q, t, Registers \cup {"num_round_sent_bytes", "game_started"})
  BY <1>3, <1>4 DEF Differ, F
<1>7. ASSUME ~MoreBytes(q)
      PROVE  \/ t = q /\ d # ACK
             \/ d = ACK /\ Differ(q, t, {"game_started"}) /\ t.game_started = TRUE
  <2>1. x = q
    BY <1>3, <1>7
  <2>2. CASE d = ACK
    BY <1>4, <2>1, <2>2
  <2>3. CASE d # ACK
    <3>1. t.game_started = q.game_started
      BY <1>4, <2>1, <2>3 DEF MachineOK
    <3>2. \A f \in Fields : t[f] = q[f]
      BY <1>4, <2>1, <3>1 DEF Differ
    <3>3. t = q
      BY <1>5, <3>2 DEF MachineOK, IsRecord
    <3> QED
      BY <2>3, <3>3
  <2> QED
    BY <2>2, <2>3
<1> QED
  BY <1>5, <1>6, <1>7 DEF t

\* Every handler of the host before its game has started
LEMMA HostUnstarted ==
  ASSUME PcOK, HandlerStep("host"), ~pc["host"].game_started
  PROVE  /\ pc["host"].todo # << >>
         /\ \E t : /\ pc' = [pc EXCEPT !["host"] = t] /\ MachineOK(t) /\ Keeps(pc["host"], t)
                   /\ \E p : /\ TakesNext(pc["host"], p)
                             /\ Still(pc["host"]) => Listens(pc["host"], p, t)
<1> DEFINE s == pc["host"]
           p == Popped("host")
           q == [p EXCEPT !.data = -1]
<1>0. s.todo # << >> /\ MachineOK(s) /\ "host" \in Machines
  BY TwoMachines
     DEF HandlerStep, KeyStep, MouseStep, RtcStep, UartStep, ChangePlayerStep, Runs, PcOK
<1>1. MachineOK(p) /\ Calm(p) /\ Differ(s, p, {"todo"}) /\ p.todo = Tail(s.todo)
  BY <1>0, Pops
<1>2. MachineOK(q) /\ Calm(q) /\ Differ(p, q, {"data"}) /\ q.data = -1
  BY <1>1, Consumes
<1>3. s.data \in Int
  BY <1>0 DEF MachineOK
<1> HIDE DEF p, q
<1>4. Head(s.todo) # "uart" => TakesNext(s, p)
  <2>1. p.data = s.data
    BY <1>1 DEF Differ, Fields
  <2> QED
    BY <1>1, <2>1 DEF TakesNext, Differ
<1>5. Head(s.todo) = "uart" => TakesNext(s, q)
  <2>1. q.todo = p.todo /\ Differ(s, q, {"todo", "data"})
    BY <1>1, <1>2 DEF Differ, Fields
  <2> QED
    BY <1>1, <1>2, <2>1 DEF TakesNext
<1>6. /\ ~p.game_started /\ ~q.game_started
      /\ \A f \in {"game_end", "is_player_1", "time_left_for_click"} : p[f] = s[f]
      /\ q.num_round_sent_bytes = s.num_round_sent_bytes
  BY <1>1, <1>2 DEF Differ, Fields
<1>7. SUFFICES ASSUME TRUE
               PROVE  \E t : /\ pc' = [pc EXCEPT !["host"] = t] /\ MachineOK(t) /\ Keeps(s, t)
                             /\ \E r : TakesNext(s, r) /\ (Still(s) => Listens(s, r, t))
  BY <1>0
<1>8. CASE KeyStep("host")
  <2>1. Head(s.todo) = "key" /\ pc' = [pc EXCEPT !["host"] = OnKey(p)]
    BY <1>8 DEF KeyStep, Runs, Becomes, p
  <2> DEFINE t == OnKey(p)
  <2>2. MachineOK(t) /\ Rests(p, t)
    BY <1>1, LeftRests
  <2>3. Still(s) => t = p
    BY <1>6 DEF Still, OnKey
  <2> HIDE DEF t
  <2>4. TakesNext(s, p) /\ Handles("host", s, p, t)
    BY <1>4, <2>1, <2>2 DEF Handles
  <2>5. Keeps(s, t)
    BY <1>3, <2>4, HandlerKeeps
  <2> QED
    BY <2>1, <2>2, <2>3, <2>4, <2>5 DEF t, Listens
<1>9. CASE MouseStep("host")
  <2>1. PICK t : /\ Head(s.todo) = "mouse" /\ pc' = [pc EXCEPT !["host"] = t]
                 /\ t = p \/ \E click \in Buttons : t \in OnMouse("host", p, click)
    BY <1>9 DEF MouseStep, Runs, Becomes, p
  <2>2. t = p
    BY <1>6, <2>1 DEF OnMouse, TakesClicks
  <2>3. TakesNext(s, p) /\ Handles("host", s, p, p)
    BY <1>1, <1>4, <2>1, SameRests DEF Handles
  <2>4. Keeps(s, p)
    BY <1>3, <2>3, HandlerKeeps
  <2> QED
    BY <1>1, <2>1, <2>2, <2>3, <2>4 DEF Listens
<1>10. CASE RtcStep("host")
  <2>1. Head(s.todo) = "rtc" /\ pc' = [pc EXCEPT !["host"] = OnRtc("host", p)]
    BY <1>10 DEF RtcStep, Runs, Becomes, p
  <2> DEFINE t == OnRtc("host", p)
  <2>2. /\ MachineOK(t)
        /\ \/ Rests(p, t)
           \/ CountsDown("host", p) /\ (OwnLoss(p, t) \/ GivesTurn("host", p, t))
    BY <1>1, ClockCases
  <2>3. Still(s) => t = p
    <3> SUFFICES ASSUME Still(s) PROVE t = p
      OBVIOUS
    <3>1. p.time_left_for_click = -1 /\ ~p.game_end
      BY <1>6 DEF Still
    <3>2. -1 # 0 /\ ~(-1 > 0)
      OBVIOUS
    <3> QED
      BY <3>1, <3>2 DEF OnRtc
  <2> HIDE DEF t
  <2>4. TakesNext(s, p) /\ Handles("host", s, p, t)
    BY <1>4, <2>1, <2>2 DEF Handles
  <2>5. Keeps(s, t)
    BY <1>3, <2>4, HandlerKeeps
  <2> QED
    BY <2>1, <2>2, <2>3, <2>4, <2>5 DEF t, Listens
<1>11. CASE UartStep("host")
  <2>1. PICK t \in OnUart("host", q, s.data) :
          Head(s.todo) = "uart" /\ pc' = [pc EXCEPT !["host"] = t]
    BY <1>11 DEF UartStep, Runs, Becomes, p, q
  <2>2. TakesNext(s, q)
    BY <1>5, <2>1
  <2> DEFINE d == IF s.data >= 0 THEN s.data ELSE CONNECTED
  <2>3. t = HostStart(q, d)
    <3>1. CASE s.data >= 0
      <4>1. ~(s.data < 0)
        BY <1>3, <3>1
      <4> QED
        BY <1>6, <2>1, <3>1, <4>1 DEF OnUart
    <3>2. CASE ~(s.data >= 0)
      <4>1. s.data < 0
        BY <1>3, <3>2
      <4> QED
        BY <1>6, <2>1, <3>2, <4>1 DEF OnUart
    <3> QED
      BY <3>1, <3>2
  <2>4. d = ACK => s.data = ACK
    BY DEF ACK, CONNECTED
  <2> HIDE DEF d
  <2> DEFINE x == HostStart(q, d)
  <2>a. /\ MachineOK(x) /\ Differ(q, x, Registers \cup {"num_round_sent_bytes", "game_started"})
        /\ ~MoreBytes(q) => \/ x = q /\ d # ACK
                            \/ d = ACK /\ Differ(q, x, {"game_started"}) /\ x.game_started = TRUE
    BY <1>2, <1>6, HostStarts
  <2> HIDE DEF x
  <2>5. /\ MachineOK(t) /\ Differ(q, t, Registers \cup {"num_round_sent_bytes", "game_started"})
        /\ ~MoreBytes(q) => \/ t = q /\ d # ACK
                            \/ d = ACK /\ Differ(q, t, {"game_started"}) /\ t.game_started = TRUE
    BY <2>3, <2>a DEF x
  <2>6. Still(s) => ~MoreBytes(q)
    BY <1>6 DEF Still, MoreBytes
  <2>7. Keeps(s, t)
    <3>1. \A f \in {"max_buttons_size", "waited", "opened_VS", "buttons"} : t[f] = s[f]
      BY <2>2, <2>5 DEF TakesNext, Differ, Registers, Fields
    <3> QED
      BY <3>1, KeepsSame
  <2> QED
    BY <2>1, <2>2, <2>4, <2>5, <2>6, <2>7 DEF Listens
<1>12. CASE ChangePlayerStep("host")
  <2>1. /\ Head(s.todo) = "change_player"
        /\ pc' = [pc EXCEPT !["host"] = Mp_change_player("host", p)]
    BY <1>12 DEF ChangePlayerStep, Runs, Becomes, p
  <2> DEFINE t == Mp_change_player("host", p)
  <2>2. MachineOK(t) /\ GivesTurn("host", p, t)
    BY <1>1, ChangesPlayer
  <2> HIDE DEF t
  <2>3. TakesNext(s, p) /\ Handles("host", s, p, t)
    BY <1>4, <2>1, <2>2 DEF Handles
  <2>4. Keeps(s, t)
    BY <1>3, <2>3, HandlerKeeps
  <2>5. ~Still(s)
    BY <1>0, <2>1, CalmHead DEF Still
  <2> QED
    BY <2>1, <2>2, <2>3, <2>4, <2>5 DEF t
<1> QED
  BY <1>8, <1>9, <1>10, <1>11, <1>12 DEF HandlerStep

\* After an acknowledgment nothing else is under way.
AckLast(p1, p2, p3, p4) ==
  /\ p1 = <<ACK>> => p2 = << >> /\ p3 = << >> /\ p4 = << >>
  /\ p2 = <<ACK>> => p3 = << >> /\ p4 = << >>
  /\ p3 = <<ACK>> => p4 = << >>

\* Both see the same new game, in which the host has the turn.
AckDue(h, c) ==
  /\ Still(h) /\ View(c) = View(h)
  /\ InHand(c) = << >> /\ c.rbr = << >> /\ h.tsr = << >> /\ h.thr = << >>
  /\ AckLast(InHand(h), h.rbr, c.tsr, c.thr)

\* The games of two computers of which the client has started
Mirrored(h, c) ==
  /\ Sane("host", h) /\ Sane("client", c)
  /\ h.game_started => InStep("host", h, "client", c)
  /\ ~h.game_started => AckDue(h, c)

\* What makes a game sane
LEMMA SaneSame ==
  ASSUME NEW m, NEW s, Sane(m, s), NEW t,
         \A f \in {"is_vs_round", "VS_was_pressed", "buttons", "guessed", "mode", "game_end",
                   "queue", "todo", "data", "is_player_1"} : t[f] = s[f]
  PROVE  Sane(m, t)
BY DEF Sane, UartLast, MyTurn

\* The host goes on waiting, or hears of the acknowledgment.
LEMMA ListensMirrored ==
  ASSUME NEW h, MachineOK(h), TodoOK("host", h), h.todo # << >>, Tame("host", h),
         NEW c, Mirrored(h, c), ~h.game_started,
         NEW p, TakesNext(h, p), NEW t, MachineOK(t), Listens(h, p, t)
  PROVE  Mirrored(t, c)
<1>1. Sane("host", h) /\ Sane("client", c) /\ AckDue(h, c)
  BY DEF Mirrored
<1>2. /\ MachineOK(p) /\ Calm(p) /\ Sane("host", p) /\ View(p) = View(h)
      /\ Silent(h, p) /\ p.rbr = h.rbr
      /\ Head(h.todo) = "uart" => InHand(p) = << >>
      /\ (Head(h.todo) = "uart" => h.data < 0) => InHand(p) = InHand(h)
  BY <1>1, TwoMachines, TakenSane
<1>3. CASE t = p
  <2>1. \A f \in {"game_started", "game_end", "is_player_1", "time_left_for_click",
                  "num_round_sent_bytes"} : p[f] = h[f]
    BY DEF TakesNext, Differ, Fields
  <2>2. Still(p)
    BY <1>1, <1>2, <2>1 DEF Still, AckDue
  <2>3. InHand(p) = << >> \/ InHand(p) = InHand(h)
    BY <1>2
  <2>a. <<ACK>> # << >>
    OBVIOUS
  <2>4. AckLast(InHand(p), p.rbr, c.tsr, c.thr)
    BY <1>1, <1>2, <2>3, <2>a DEF AckDue, AckLast
  <2>5. AckDue(p, c)
    BY <1>1, <1>2, <2>2, <2>4 DEF AckDue, Silent
  <2> QED
    BY <1>1, <1>2, <1>3, <2>1, <2>5 DEF Mirrored
<1>4. CASE /\ Head(h.todo) = "uart" /\ h.data = ACK
           /\ Differ(p, t, {"game_started"}) /\ t.game_started = TRUE
  <2>1. InHand(h) = <<ACK>>
    BY <1>4 DEF InHand, ACK
  <2>2. h.rbr = << >> /\ c.tsr = << >> /\ c.thr = << >>
    BY <1>1, <2>1 DEF AckDue, AckLast
  <2>3. \A f \in Fields \ {"game_started"} : t[f] = p[f]
    BY <1>4 DEF Differ
  <2>4. Sane("host", t)
    BY <1>2, <2>3, SaneSame DEF Fields
  <2>5. View(t) = View(p)
    BY <2>3, SameView DEF Seen, Fields
  <2>6. t.rbr = << >> /\ t.tsr = << >> /\ t.thr = << >> /\ InHand(t) = << >>
    BY <1>1, <1>2, <1>4, <2>2, <2>3 DEF AckDue, Silent, InHand, Fields
  <2>7. Flow("client", View(c), << >>, << >>, << >>, << >>, View(c))
    BY FlowNone
  <2>8. View(t) = View(c) /\ InHand(c) = << >> /\ c.rbr = << >>
    BY <1>1, <1>2, <2>5 DEF AckDue
  <2>9. Ahead("host", t, "client", c)
    BY <2>2, <2>6, <2>7, <2>8 DEF Ahead
  <2> QED
    BY <1>1, <1>4, <2>4, <2>9 DEF Mirrored, InStep
<1> QED
  BY <1>3, <1>4 DEF Listens

\* A handler of a computer that has started
LEMMA HandlerMirrored ==
  ASSUME NEW h, MachineOK(h), NEW c, MachineOK(c), Mirrored(h, c),
         Tame("host", h), Tame("client", c), NEW m \in Machines,
         NEW s, s = (IF m = "host" THEN h ELSE c), TodoOK(m, s), s.todo # << >>,
         m = "host" => h.game_started,
         NEW p, TakesNext(s, p), NEW t, MachineOK(t), Tame(m, t), Handles(m, s, p, t),
         t.game_started = s.game_started
  PROVE  IF m = "host" THEN Mirrored(t, c) ELSE Mirrored(h, t)
<1>1. Sane("host", h) /\ Sane("client", c)
  BY DEF Mirrored
<1>2. CASE h.game_started
  <2>1. InStep("host", h, "client", c) /\ InStep("client", c, "host", h)
    BY <1>2 DEF Mirrored, InStep
  <2>2. CASE m = "host"
    <3>1. s.data >= 0 => Fine(m, View(s), s.data)
      BY <2>1, <2>2, InStepFine
    <3>2. Sane(m, t) /\ (Idles(s, t) \/ Speaks(m, s, t) \/ HearsByte(m, s, t))
      BY <1>1, <2>2, <3>1, HandlerOutcome
    <3>3. InStep("host", t, "client", c)
      BY <2>1, <2>2, <3>2, TwoMachines, OutcomeInStep
    <3> QED
      BY <1>1, <1>2, <2>2, <3>2, <3>3 DEF Mirrored
  <2>3. CASE m = "client"
    <3>0. s = c /\ "client" # "host"
      BY <2>3
    <3>1. s.data >= 0 => Fine(m, View(s), s.data)
      BY <2>1, <2>3, <3>0, InStepFine
    <3>2. Sane(m, t) /\ (Idles(s, t) \/ Speaks(m, s, t) \/ HearsByte(m, s, t))
      BY <1>1, <2>3, <3>0, <3>1, HandlerOutcome
    <3>3. InStep("client", t, "host", h)
      BY <2>1, <2>3, <3>0, <3>2, TwoMachines, OutcomeInStep
    <3> QED
      BY <1>1, <1>2, <2>3, <3>0, <3>2, <3>3 DEF Mirrored, InStep
  <2> QED
    BY <2>2, <2>3, TwoMachines
<1>3. CASE ~h.game_started
  <2>0. m = "client" /\ s = c /\ m # "host"
    BY <1>3, TwoMachines
  <2>1. AckDue(h, c)
    BY <1>3 DEF Mirrored
  <2>2. ~(c.data >= 0)
    BY <2>1 DEF AckDue, InHand
  <2>3. Sane(m, t) /\ (Idles(s, t) \/ Speaks(m, s, t) \/ HearsByte(m, s, t))
    BY <1>1, <2>0, <2>2, HandlerOutcome
  <2>4. c.is_player_1 = h.is_player_1
    BY <2>1, ViewOf DEF AckDue
  <2>5. ~MyTurn("client", c)
    BY <2>1, <2>4 DEF AckDue, Still, MyTurn, MachineOK
  <2>6. Idles(c, t)
    BY <2>0, <2>2, <2>3, <2>5 DEF Speaks, HearsByte
  <2>7. AckDue(h, t)
    BY <2>1, <2>6 DEF AckDue, Idles, Silent
  <2> QED
    BY <1>1, <1>3, <2>0, <2>3, <2>7 DEF Mirrored
<1> QED
  BY <1>2, <1>3

\* An acknowledgment that is read is still the last byte.
LEMMA AckRead ==
  ASSUME NEW p2, NEW p3, NEW p4, AckLast(<< >>, p2, p3, p4) PROVE AckLast(p2, << >>, p3, p4)
<1>1. <<ACK>> # << >>
  OBVIOUS
<1> QED
  BY <1>1 DEF AckLast

\* A notification
LEMMA NoticeMirrored ==
  ASSUME NEW h, MachineOK(h), NEW c, MachineOK(c), Mirrored(h, c), NEW m \in Machines,
         NEW s, s = (IF m = "host" THEN h ELSE c), NEW t, Reads(s, t), Noticed(s, t)
  PROVE  IF m = "host" THEN Mirrored(t, c) ELSE Mirrored(h, t)
<1>1. Sane("host", h) /\ Sane("client", c)
  BY DEF Mirrored
<1>3. \A f \in {"game_started", "game_end", "is_player_1", "time_left_for_click",
                "num_round_sent_bytes"} : t[f] = s[f]
  BY DEF Reads, Differ, Fields
<1>4. Calm(t)
  BY DEF Reads
<1>5. CASE m = "host"
  <2>0. s = h
    BY <1>5
  <2>1. h.mode # "MP_GAME" => h.rbr = << >>
    <3> SUFFICES ASSUME h.mode # "MP_GAME" PROVE h.rbr = << >>
      OBVIOUS
    <3>1. h.game_end
      BY <1>1 DEF Sane
    <3>2. CASE h.game_started
      BY <3>1, <3>2, InStepEnded DEF Mirrored
    <3>3. CASE ~h.game_started
      BY <3>1, <3>3 DEF Mirrored, AckDue, Still
    <3> QED
      BY <3>2, <3>3
  <2>2. Sane("host", t) /\ Takes(h, t)
    BY <1>1, <2>0, <2>1, TwoMachines, NoticeTakes
  <2>3. h.game_started => InStep("host", t, "client", c)
    BY <2>2, TakesInStep DEF Mirrored
  <2>4. ASSUME ~h.game_started PROVE AckDue(t, c)
    <3>1. AckDue(h, c)
      BY <2>4 DEF Mirrored
    <3>2. Still(t)
      BY <1>3, <1>4, <2>0, <3>1 DEF AckDue, Still
    <3>3. AckLast(InHand(t), t.rbr, c.tsr, c.thr)
      <4>1. AckLast(InHand(h), h.rbr, c.tsr, c.thr)
        BY <3>1 DEF AckDue
      <4>2. CASE InHand(t) = InHand(h) /\ t.rbr = h.rbr
        BY <4>1, <4>2
      <4>3. CASE InHand(h) = << >> /\ InHand(t) = h.rbr /\ t.rbr = << >>
        BY <4>1, <4>3, AckRead
      <4> QED
        BY <2>2, <4>2, <4>3 DEF Takes
    <3> QED
      BY <2>2, <3>1, <3>2, <3>3 DEF AckDue, Takes, Silent
  <2> QED
    BY <1>1, <1>3, <1>5, <2>0, <2>2, <2>3, <2>4 DEF Mirrored
<1>6. CASE m = "client"
  <2>0. s = c /\ m # "host"
    BY <1>6
  <2>1. c.mode # "MP_GAME" => c.rbr = << >>
    <3> SUFFICES ASSUME c.mode # "MP_GAME" PROVE c.rbr = << >>
      OBVIOUS
    <3>1. c.game_end
      BY <1>1 DEF Sane
    <3>2. CASE h.game_started
      <4>1. InStep("client", c, "host", h)
        BY <3>2 DEF Mirrored, InStep
      <4> QED
        BY <3>1, <4>1, InStepEnded
    <3>3. CASE ~h.game_started
      BY <3>3 DEF Mirrored, AckDue
    <3> QED
      BY <3>2, <3>3
  <2>2. Sane("client", t) /\ Takes(c, t)
    BY <1>1, <2>0, <2>1, TwoMachines, NoticeTakes
  <2>3. ASSUME h.game_started PROVE InStep("host", h, "client", t)
    <3>1. InStep("client", c, "host", h)
      BY <2>3 DEF Mirrored, InStep
    <3>2. InStep("client", t, "host", h)
      BY <2>2, <3>1, TakesInStep
    <3> QED
      BY <3>2 DEF InStep
  <2>4. ASSUME ~h.game_started PROVE AckDue(h, t)
    <3>1. AckDue(h, c)
      BY <2>4 DEF Mirrored
    <3> QED
      BY <2>2, <3>1 DEF AckDue, Takes, Silent
  <2> QED
    BY <1>1, <2>0, <2>2, <2>3, <2>4 DEF Mirrored
<1> QED
  BY <1>5, <1>6, TwoMachines

\* The line
LEMMA LineMirrored ==
  ASSUME NEW h, NEW c, Mirrored(h, c), NEW k, NEW d,
         \/ /\ h.tsr # << >> /\ c.rbr = << >>
            /\ Differ(h, k, Registers) /\ k.tsr = h.thr /\ k.thr = << >>
            /\ Differ(c, d, {"rbr"}) /\ d.rbr = h.tsr
         \/ /\ c.tsr # << >> /\ h.rbr = << >>
            /\ Differ(c, d, Registers) /\ d.tsr = c.thr /\ d.thr = << >>
            /\ Differ(h, k, {"rbr"}) /\ k.rbr = c.tsr
  PROVE  Mirrored(k, d)
<1>1. /\ \A f \in Fields \ (Registers \cup {"rbr"}) : k[f] = h[f]
      /\ \A f \in Fields \ (Registers \cup {"rbr"}) : d[f] = c[f]
  BY DEF Differ
<1>2. Sane("host", k) /\ Sane("client", d) /\ k.game_started = h.game_started
  BY <1>1, SaneSame DEF Mirrored, Registers, Fields
<1>3. ASSUME h.game_started PROVE InStep("host", k, "client", d)
  <2>1. InStep("host", h, "client", c) /\ InStep("client", c, "host", h)
    BY <1>3 DEF Mirrored, InStep
  <2>2. CASE /\ h.tsr # << >> /\ c.rbr = << >>
             /\ Differ(h, k, Registers) /\ k.tsr = h.thr /\ k.thr = << >>
             /\ Differ(c, d, {"rbr"}) /\ d.rbr = h.tsr
    BY <2>1, <2>2, LineInStep
  <2>3. CASE /\ c.tsr # << >> /\ h.rbr = << >>
             /\ Differ(c, d, Registers) /\ d.tsr = c.thr /\ d.thr = << >>
             /\ Differ(h, k, {"rbr"}) /\ k.rbr = c.tsr
    <3>1. InStep("client", d, "host", k)
      BY <2>1, <2>3, LineInStep
    <3> QED
      BY <3>1 DEF InStep
  <2> QED
    BY <2>2, <2>3
<1>4. ASSUME ~h.game_started PROVE AckDue(k, d)
  <2>1. AckDue(h, c)
    BY <1>4 DEF Mirrored
  <2>2. /\ c.tsr # << >> /\ h.rbr = << >>
        /\ Differ(c, d, Registers) /\ d.tsr = c.thr /\ d.thr = << >>
        /\ Differ(h, k, {"rbr"}) /\ k.rbr = c.tsr
    BY <2>1 DEF AckDue
  <2>3. /\ \A f \in {"todo", "game_end", "is_player_1", "time_left_for_click",
                     "num_round_sent_bytes", "data", "tsr", "thr"} : k[f] = h[f]
        /\ d.data = c.data /\ d.rbr = c.rbr
    BY <2>2 DEF Differ, Registers, Fields
  <2>4. Still(k) /\ InHand(k) = InHand(h) /\ InHand(d) = InHand(c)
    BY <2>1, <2>3 DEF AckDue, Still, Calm, InHand
  <2>5. View(k) = View(h) /\ View(d) = View(c)
    <3>1. \A f \in Seen : k[f] = h[f] /\ d[f] = c[f]
      BY <1>1 DEF Registers, Fields, Seen
    <3> QED
      BY <3>1, SameView
  <2>6. AckLast(InHand(k), k.rbr, d.tsr, d.thr)
    <3>1. <<ACK>> # << >>
      OBVIOUS
    <3> QED
      BY <2>1, <2>2, <2>4, <3>1 DEF AckDue, AckLast
  <2> QED
    BY <2>1, <2>2, <2>3, <2>4, <2>5, <2>6 DEF AckDue
<1> QED
  BY <1>2, <1>3, <1>4 DEF Mirrored

-----------------------------------------------------------------------------
(* The first game of two computers                                         *)

\* Before the client starts, the host's game is new.
SetUp(h, c) ==
  /\ UartLast(h) /\ NoneWaits(c)
  /\ h.sessions = 1 => FreshGame(h) /\ h.max_buttons_size \in Rounds

\* A client that gave up waiting and left, and whose game was then started by the
\* handler still due: it never returns to it.
Strayed(c) == c.mode # "MP_GAME" /\ ~c.game_end /\ c.todo = << >>

\* Before the client starts the host's game is new; since then the two are one game.
MirrorInv ==
  LET h == pc["host"]
      c == pc["client"]
  IN  /\ ~c.game_started => SetUp(h, c)
      /\ c.game_started =>
           /\ h.buttons \in Seq(Nat) /\ c.buttons \in Seq(Nat)
           /\ Tame("host", h) /\ Tame("client", c) /\ ~Strayed(c) => Mirrored(h, c)

\* At the start there is no game.
LEMMA MirrorInit == ASSUME Init PROVE MirrorInv
<1> DEFINE h == pc["host"]
           c == pc["client"]
<1>1. /\ h.todo = << >> /\ h.data = -1 /\ h.sessions = 0 /\ c.queue = << >>
      /\ c.game_started = FALSE
  BY TwoMachines DEF Init
<1>2. ~(-1 >= 0) /\ Len(<< >>) = 0
  OBVIOUS
<1> HIDE DEF h, c
<1>3. UartLast(h)
  BY <1>1, <1>2 DEF UartLast
<1>4. SetUp(h, c)
  BY <1>1, <1>3 DEF SetUp, NoneWaits
<1> QED
  BY <1>1, <1>4 DEF MirrorInv, h, c

\* The client starts, with the game of the host.
LEMMA StartMirrored ==
  ASSUME PcOK, TurnInv, HandInv, ~pc["client"].game_started, SetUp(pc["host"], pc["client"]),
         Rounds \subseteq 1..255, NEW t, ClientGoesOn(t),
         ClientSaid(pc["client"], t), pc["client"].todo # << >>, t.game_started
  PROVE  LET h == pc["host"] IN
         /\ FreshGame(h) /\ FreshGame(t) /\ h.buttons \in Seq(Nat) /\ t.buttons \in Seq(Nat)
         /\ ~h.game_started /\ Sane("host", h) /\ Still(h)
         /\ AckLast(InHand(h), h.rbr, t.tsr, t.thr)
         /\ Tame("host", h) /\ Tame("client", t) /\ ~Strayed(t) => Mirrored(h, t)
<1> DEFINE h == pc["host"]
           c == pc["client"]
<1>1. Numbered(h, t) /\ t.received_no_bytes = 2
  BY ClientBegins
<1>2. MachineOK(h) /\ MachineOK(c) /\ MachineOK(t)
  BY TwoMachines DEF PcOK, ClientGoesOn
<1>3. HostWaits(h) /\ ClientWaits(c) /\ UartLast(c) /\ SetUp(h, c)
  BY DEF TurnInv, HandInv
<1>4. ClientSaid(c, t) /\ c.todo # << >> /\ t.game_started
  OBVIOUS
<1> HIDE DEF h, c
<1>5. /\ InHand(t) = << >> /\ t.rbr = << >> /\ h.tsr = << >> /\ h.thr = << >>
      /\ h.num_round_sent_bytes = 2
  <2>1. /\ One(t.data >= 0) \in Nat /\ One(t.rbr # << >>) \in Nat
        /\ One(h.tsr # << >>) \in Nat /\ One(h.thr # << >>) \in Nat
    BY DEF One
  <2>2. 2 + One(t.data >= 0) + One(t.rbr # << >>) + One(h.tsr # << >>) + One(h.thr # << >>)
          = h.num_round_sent_bytes
    BY <1>1 DEF Numbered
  <2>3. h.num_round_sent_bytes \in Nat /\ h.num_round_sent_bytes <= 2
    BY <1>2, <1>3 DEF MachineOK, HostWaits
  <2>4. \A v, w, x, y, n \in Nat :
          2 + v + w + x + y = n /\ n <= 2 => v = 0 /\ w = 0 /\ x = 0 /\ y = 0 /\ n = 2
    OBVIOUS
  <2>5. /\ One(t.data >= 0) = 0 /\ One(t.rbr # << >>) = 0 /\ One(h.tsr # << >>) = 0
        /\ One(h.thr # << >>) = 0 /\ h.num_round_sent_bytes = 2
    BY <2>1, <2>2, <2>3, <2>4
  <2> QED
    BY <2>5 DEF One, InHand
<1>6. h.sessions = 1
  BY <1>3, <1>5 DEF HostWaits
<1>7. FreshGame(h) /\ h.max_buttons_size \in Rounds
  BY <1>3, <1>6 DEF SetUp
<1>8. FreshGame(t) /\ t.max_buttons_size = h.max_buttons_size
  <2>1. FreshGame(t) /\ t.max_buttons_size = h.max_buttons_size % 256
    BY <1>1 DEF Numbered, RByte
  <2>2. h.max_buttons_size \in 1..255
    BY <1>7
  <2>3. \A n \in 1..255 : n % 256 = n
    OBVIOUS
  <2>4. h.max_buttons_size % 256 = h.max_buttons_size
    BY <2>2, <2>3
  <2> QED
    BY <2>1, <2>4
<1>9. << >> \in Seq(Nat) /\ 0 \in 0..Len(<< >>)
  OBVIOUS
<1>11. ~h.game_started /\ Calm(h) /\ h.mode = "MP_GAME" /\ h.queue = << >>
         /\ h.time_left_for_click = -1
  BY <1>3, <1>6 DEF HostWaits
<1>12. Sane("host", h)
  <2>1. ~(h.todo # << >> /\ Head(h.todo) = "change_player")
    BY <1>2, <1>11, CalmHead
  <2>2. "host" # "client"
    OBVIOUS
  <2> QED
    BY <1>3, <1>7, <1>9, <1>11, <2>1, <2>2 DEF Sane, FreshGame, SetUp
<1>15. AckLast(InHand(h), h.rbr, t.tsr, t.thr)
  <2>1. Early = {2, 12} /\ ACK = 0 /\ \A b : <<b>>[1] = b
    BY DEF Early, CONNECTED, LOSE, ACK
  <2>2. \A q : Only(q, Early) => q # <<ACK>>
    BY <2>1 DEF Only
  <2>3. h.rbr # <<ACK>> /\ c.tsr # <<ACK>>
    BY <1>3, <2>2 DEF HostWaits, ClientWaits
  <2>4. InHand(h) # <<ACK>>
    <3>1. Only(InHand(h), Early)
      BY <1>3, <2>1 DEF HostWaits, InHand, Only
    <3> QED
      BY <2>2, <3>1
  <2>5. (t.thr = c.thr /\ t.tsr = c.tsr) \/ Pushed(c, t, ACK)
    BY <1>4 DEF ClientSaid
  <2>6. t.tsr = <<ACK>> => t.thr = << >>
    BY <2>3, <2>5 DEF Pushed
  <2> QED
    BY <2>3, <2>4, <2>6 DEF AckLast
<1>16. Still(h)
  BY <1>5, <1>7, <1>11 DEF Still, FreshGame
<1>10. SUFFICES ASSUME Tame("client", t), ~Strayed(t) PROVE Mirrored(h, t)
  BY <1>7, <1>8, <1>9, <1>11, <1>12, <1>15, <1>16 DEF FreshGame, h
<1>13. Sane("client", t)
  <2>1. t.queue = << >>
    BY <1>3, <1>4, <1>10 DEF SetUp, ClientSaid, NoneWaits, Tame
  <2>2. UartLast(t) /\ t.todo = << >>
    BY <1>2, <1>3, <1>4, NextIsDue DEF ClientSaid
  <2>3. t.mode = "MP_GAME"
    BY <1>8, <1>10, <2>2 DEF Strayed, FreshGame
  <2> QED
    BY <1>8, <1>9, <2>1, <2>2, <2>3 DEF Sane, FreshGame
<1>14. View(t) = View(h)
  <2>1. /\ t.game_end = FALSE /\ h.game_end = FALSE /\ t.is_player_1 = TRUE /\ h.is_player_1 = TRUE
    BY <1>2, <1>7, <1>8 DEF FreshGame, MachineOK
  <2> QED
    BY <1>7, <1>8, <2>1 DEF View, FreshGame
<1>17. AckDue(h, t)
  BY <1>5, <1>14, <1>15, <1>16 DEF AckDue
<1> QED
  BY <1>11, <1>12, <1>13, <1>17 DEF Mirrored

\* What a handler keeps was no worse before it.
LEMMA KeepsTame ==
  ASSUME NEW m, NEW s, NEW t, Keeps(s, t), s.buttons \in Seq(Nat), s.max_buttons_size \in Nat,
         Tame(m, t)
  PROVE  Tame(m, s)
<1>1. /\ t.buttons \in Seq(Nat) /\ Len(s.buttons) <= Len(t.buttons)
      /\ t.max_buttons_size = s.max_buttons_size
  BY DEF Keeps
<1>2. Len(s.buttons) \in Nat /\ Len(t.buttons) \in Nat
  BY <1>1, LenProperties
<1>3. Len(t.buttons) <= s.max_buttons_size
  BY <1>1 DEF Tame
<1>4. Len(s.buttons) <= s.max_buttons_size
  BY <1>1, <1>2, <1>3
<1> QED
  BY <1>4 DEF Tame, Keeps

\* A notification leaves the list of handlers in order.
LEMMA NoticeLast ==
  ASSUME NEW s, UartLast(s), NEW t, MachineOK(t), Noticed(s, t) PROVE UartLast(t)
<1>1. ~(-1 >= 0) /\ Len(<< >>) = 0
  OBVIOUS
<1>2. s.todo = << >> /\ ~(s.data >= 0)
  BY DEF Noticed, UartLast
<1> QED
  BY <1>1, <1>2 DEF Noticed, UartLast, NoUart

\* Every step before the client has started
LEMMA SetUpStep ==
  ASSUME PcOK, TurnInv, HandInv, MirrorInv, ~pc["client"].game_started, Sessions <= 1,
         Rounds \subseteq 1..255, Next
  PROVE  MirrorInv'
<1> DEFINE h == pc["host"]
           c == pc["client"]
<1>1. HostWaits(h) /\ ClientWaits(c) /\ Arrived(c) <= 2
  BY Waiting
<1>2. MachineOK(h) /\ MachineOK(c) /\ SetUp(h, c)
  BY TwoMachines DEF PcOK, MirrorInv
<1>3. UartLast(h) /\ NoneWaits(c)
        /\ (h.sessions = 1 => FreshGame(h) /\ h.max_buttons_size \in Rounds)
  BY <1>2 DEF SetUp
<1>4. ASSUME NEW t, HostGoesOn(t), UartLast(t),
             t.sessions = 1 => FreshGame(t) /\ t.max_buttons_size \in Rounds
      PROVE  MirrorInv'
  <2>1. pc'["host"] = t /\ pc'["client"] = c
    BY <1>4, TwoMachines, Replaced DEF HostGoesOn
  <2>2. SetUp(t, c)
    BY <1>3, <1>4 DEF SetUp
  <2> QED
    BY <2>1, <2>2 DEF MirrorInv
<1>5. ASSUME NEW t, ClientGoesOn(t), ~t.game_started, NoneWaits(t)
      PROVE  MirrorInv'
  <2>1. pc'["host"] = h /\ pc'["client"] = t
    BY <1>5, TwoMachines, Replaced DEF ClientGoesOn
  <2>2. SetUp(h, t)
    BY <1>3, <1>5 DEF SetUp
  <2> QED
    BY <1>5, <2>1, <2>2 DEF MirrorInv
<1>6. CASE \E n \in Rounds : Host_mp_game(n)
  <2>1. PICK t : HostGoesOn(t) /\ HostEntered(h, t)
    BY <1>1, <1>6, HostEnters
  <2>2. UartLast(t)
    BY <1>3, <2>1 DEF HostEntered, UartLast
  <2> QED
    BY <1>4, <2>1, <2>2 DEF HostEntered
<1>7. CASE Connect_mp_game
  <2>1. PICK t : ClientGoesOn(t) /\ ClientEntered(c, t)
    BY <1>1, <1>7, ClientEnters
  <2> QED
    BY <1>5, <2>1 DEF ClientEntered, NoneWaits
<1>8. ASSUME NEW m \in Machines, (\E hs \in Notifications : Notify(m, hs)) \/ IgnoreUart(m)
      PROVE  MirrorInv'
  <2>1. PICK t : pc' = [pc EXCEPT ![m] = t] /\ Reads(pc[m], t) /\ Noticed(pc[m], t)
    BY <1>8, Notices
  <2>2. MachineOK(t) /\ \A f \in Fields \ {"rbr", "thre", "todo", "data"} : t[f] = pc[m][f]
    BY <2>1 DEF Reads, Differ
  <2>3. CASE m = "host"
    <3>1. HostGoesOn(t)
      BY <1>1, <2>1, <2>3, HostReads
    <3>2. UartLast(t)
      BY <1>3, <2>1, <2>2, <2>3, NoticeLast
    <3>3. \A f \in Fields \ {"rbr", "thre", "todo", "data"} : t[f] = h[f]
      BY <2>2, <2>3
    <3> HIDE DEF h, c
    <3>4. t.sessions = 1 => FreshGame(t) /\ t.max_buttons_size \in Rounds
      BY <1>3, <3>3 DEF FreshGame, Fields
    <3> QED
      BY <1>4, <3>1, <3>2, <3>4
  <2>4. CASE m = "client"
    <3>1. ClientGoesOn(t)
      BY <1>1, <2>1, <2>4, ClientReads
    <3>2. t.game_started = c.game_started /\ t.queue = c.queue /\ t.waited = c.waited
      BY <2>2, <2>4 DEF Fields
    <3> QED
      BY <1>3, <1>5, <3>1, <3>2 DEF NoneWaits
  <2> QED
    BY <2>3, <2>4, TwoMachines
<1>9. ASSUME NEW m \in Machines, HandlerStep(m)
      PROVE  MirrorInv'
  <2>1. pc[m].todo # << >>
    BY <1>9 DEF HandlerStep, KeyStep, MouseStep, RtcStep, UartStep, ChangePlayerStep, Runs
  <2>2. CASE m = "host"
    <3>1. PICK t : HostGoesOn(t) /\ HostSaid(h, t)
      BY <1>1, <1>9, <2>2, HostHandler
    <3>2. UartLast(t)
      BY <1>2, <1>3, <2>1, <2>2, <3>1, NextIsDue DEF HostSaid
    <3>3. \A f \in Fields \ (Registers \cup {"todo", "data", "num_round_sent_bytes"}) : t[f] = h[f]
      BY <3>1 DEF HostSaid
    <3> HIDE DEF h, c
    <3>4. t.sessions = 1 => FreshGame(t) /\ t.max_buttons_size \in Rounds
      BY <1>3, <3>3 DEF FreshGame, Fields, Registers
    <3> QED
      BY <1>4, <3>1, <3>2, <3>4
  <2>3. CASE m = "client"
    <3>1. PICK t : ClientGoesOn(t) /\ ClientSaid(c, t)
      BY <1>1, <1>9, <2>3, ClientHandler
    <3>2. CASE ~t.game_started
      BY <1>3, <1>5, <3>1, <3>2 DEF ClientSaid
    <3>3. CASE t.game_started
      <4>1. pc'["host"] = h /\ pc'["client"] = t
        BY <3>1, TwoMachines, Replaced DEF ClientGoesOn
      <4>2. /\ h.buttons \in Seq(Nat) /\ t.buttons \in Seq(Nat)
            /\ Tame("host", h) /\ Tame("client", t) /\ ~Strayed(t) => Mirrored(h, t)
        BY <1>2, <2>1, <2>3, <3>1, <3>3, StartMirrored
      <4> QED
        BY <3>3, <4>1, <4>2 DEF MirrorInv
    <3> QED
      BY <3>2, <3>3
  <2> QED
    BY <2>2, <2>3, TwoMachines
<1>10. ASSUME NEW m \in Machines, Deliver(m)
       PROVE  MirrorInv'
  <2>1. /\ Differ(pc[m], pc'[m], Registers) /\ Differ(pc[Other(m)], pc'[Other(m)], {"rbr"})
    BY <1>10, Delivers
  <2>2. \A f \in Fields \ (Registers \cup {"rbr"}) :
          pc'[m][f] = pc[m][f] /\ pc'[Other(m)][f] = pc[Other(m)][f]
    BY <2>1 DEF Differ
  <2>3. \A f \in Fields \ (Registers \cup {"rbr"}) :
          pc'["host"][f] = h[f] /\ pc'["client"][f] = c[f]
    BY <2>2, TwoMachines
  <2> DEFINE k == pc'["host"]
             d == pc'["client"]
  <2> HIDE DEF h, c, k, d
  <2>4. \A f \in Fields \ (Registers \cup {"rbr"}) : k[f] = h[f] /\ d[f] = c[f]
    BY <2>3 DEF k, d
  <2>5. UartLast(k) /\ NoneWaits(d) /\ d.game_started = c.game_started
    BY <1>3, <2>4 DEF UartLast, NoneWaits, Fields, Registers
  <2>6. k.sessions = 1 => FreshGame(k) /\ k.max_buttons_size \in Rounds
    BY <1>3, <2>4 DEF FreshGame, Fields, Registers
  <2>7. SetUp(k, d) /\ ~d.game_started
    BY <2>5, <2>6 DEF SetUp, c
  <2> QED
    BY <2>7 DEF MirrorInv, k, d
<1>11. CASE Idle
  BY <1>11 DEF Idle, MirrorInv
<1> QED
  BY <1>6, <1>7, <1>8, <1>9, <1>10, <1>11 DEF Next

\* Every step after it
LEMMA PlayMirror ==
  ASSUME PcOK, TurnInv, MirrorInv, pc["client"].game_started, Sessions <= 1, Next
  PROVE  MirrorInv'
<1> DEFINE h == pc["host"]
           c == pc["client"]
<1>1. PcOK' /\ pc'["client"].game_started
  BY PlayingStep
<1>2. /\ MachineOK(h) /\ MachineOK(c) /\ TodoOK("host", h) /\ TodoOK("client", c)
      /\ h.max_buttons_size \in Nat /\ c.max_buttons_size \in Nat
      /\ h.data \in Int /\ c.data \in Int
  BY TwoMachines DEF PcOK, MachineOK
<1>3. /\ h.buttons \in Seq(Nat) /\ c.buttons \in Seq(Nat)
      /\ Tame("host", h) /\ Tame("client", c) /\ ~Strayed(c) => Mirrored(h, c)
  BY DEF MirrorInv
<1>4. h.num_round_sent_bytes = 2 /\ h.sessions = 1 /\ c.sessions = 1
  BY DEF TurnInv
<1>5. ASSUME NEW t, pc' = [pc EXCEPT !["host"] = t], t.buttons \in Seq(Nat),
             Tame("host", t) /\ Tame("client", c) /\ ~Strayed(c) => Mirrored(t, c)
      PROVE  MirrorInv'
  <2>1. pc'["host"] = t /\ pc'["client"] = c
    BY <1>5, TwoMachines DEF PcOK
  <2> QED
    BY <1>1, <1>3, <1>5, <2>1 DEF MirrorInv
<1>6. ASSUME NEW t, pc' = [pc EXCEPT !["client"] = t], t.buttons \in Seq(Nat),
             Tame("host", h) /\ Tame("client", t) /\ ~Strayed(t) => Mirrored(h, t)
      PROVE  MirrorInv'
  <2>1. pc'["host"] = h /\ pc'["client"] = t
    BY <1>6, TwoMachines DEF PcOK
  <2> QED
    BY <1>1, <1>3, <1>6, <2>1 DEF MirrorInv
<1>7. CASE (\E n \in Rounds : Host_mp_game(n)) \/ Connect_mp_game
  <2>1. h.sessions < Sessions \/ c.sessions < Sessions
    BY <1>7 DEF Host_mp_game, Connect_mp_game
  <2> HIDE DEF h, c
  <2> QED
    BY <1>4, <2>1, BoundsAssumption
<1>8. ASSUME NEW m \in Machines, (\E hs \in Notifications : Notify(m, hs)) \/ IgnoreUart(m)
      PROVE  MirrorInv'
  <2>1. PICK t : pc' = [pc EXCEPT ![m] = t] /\ Reads(pc[m], t) /\ Noticed(pc[m], t)
    BY <1>8, Notices
  <2>2. \A f \in {"buttons", "max_buttons_size", "waited", "opened_VS", "mode", "game_end"} :
          t[f] = pc[m][f]
    BY <2>1 DEF Reads, Differ, Fields
  <2>3. Tame(m, t) => Tame(m, pc[m])
    BY <2>2 DEF Tame
  <2>4. CASE m = "host"
    <3>1. Reads(h, t) /\ Noticed(h, t) /\ t.buttons = h.buttons
      BY <2>1, <2>2, <2>4
    <3>2. Tame("host", t) /\ Tame("client", c) /\ ~Strayed(c) => Mirrored(t, c)
      BY <1>2, <1>3, <2>3, <2>4, <3>1, TwoMachines, NoticeMirrored
    <3> QED
      BY <1>3, <1>5, <2>1, <2>4, <3>1, <3>2
  <2>5. CASE m = "client"
    <3>1. Reads(c, t) /\ Noticed(c, t) /\ t.buttons = c.buttons /\ "client" # "host"
      BY <2>1, <2>2, <2>5
    <3>2. Strayed(c) => Strayed(t)
      BY <2>2, <2>5, <3>1 DEF Strayed, Reads
    <3>3. Tame("host", h) /\ Tame("client", t) /\ ~Strayed(t) => Mirrored(h, t)
      BY <1>2, <1>3, <2>3, <2>5, <3>1, <3>2, TwoMachines, NoticeMirrored
    <3> QED
      BY <1>3, <1>6, <2>1, <2>5, <3>1, <3>3
  <2> QED
    BY <2>4, <2>5, TwoMachines
<1>9. ASSUME NEW m \in Machines, HandlerStep(m), pc[m].game_started
      PROVE  MirrorInv'
  <2>1. pc[m].todo # << >> /\ \E t : /\ pc' = [pc EXCEPT ![m] = t] /\ MachineOK(t)
                                     /\ \E p : TakesNext(pc[m], p) /\ Handles(m, pc[m], p, t)
    BY <1>9, HandlerCases
  <2>2. PICK t : /\ pc' = [pc EXCEPT ![m] = t] /\ MachineOK(t)
                 /\ \E p : TakesNext(pc[m], p) /\ Handles(m, pc[m], p, t)
    BY <2>1
  <2>3. PICK p : TakesNext(pc[m], p) /\ Handles(m, pc[m], p, t)
    BY <2>2
  <2>4. t.game_started = pc[m].game_started
    <3>1. PICK u : Continues(m, u)
      BY <1>4, <1>9, HandlerTurns
    <3>2. pc'[m] = t /\ pc'[m] = u
      BY <2>2, <3>1 DEF PcOK, Continues
    <3>3. t.game_started
      BY <1>9, <3>1, <3>2 DEF Continues
    <3>4. t.game_started \in BOOLEAN /\ pc[m].game_started \in BOOLEAN
      BY <2>2 DEF PcOK, MachineOK
    <3> QED
      BY <1>9, <3>3, <3>4
  <2>5. Keeps(pc[m], t)
    BY <1>2, <2>3, HandlerKeeps, TwoMachines
  <2>6. t.buttons \in Seq(Nat) /\ (Tame(m, t) => Tame(m, pc[m]))
    <3>1. pc[m].buttons \in Seq(Nat) /\ pc[m].max_buttons_size \in Nat
      BY <1>2, <1>3, TwoMachines
    <3> QED
      BY <2>5, <3>1, KeepsTame DEF Keeps
  <2>7. CASE m = "host"
    <3>1. /\ h.todo # << >> /\ h.game_started /\ t.game_started = h.game_started
          /\ TakesNext(h, p) /\ Handles("host", h, p, t)
          /\ Tame("host", t) => Tame("host", h)
      BY <1>9, <2>1, <2>3, <2>4, <2>6, <2>7
    <3>2. ASSUME Tame("host", t), Tame("client", c), ~Strayed(c) PROVE Mirrored(t, c)
      <4>1. Mirrored(h, c) /\ Tame("host", h)
        BY <1>3, <3>1, <3>2
      <4> HIDE DEF h, c
      <4> QED
        BY <1>2, <2>2, <3>1, <3>2, <4>1, TwoMachines, HandlerMirrored
    <3> QED
      BY <1>5, <2>2, <2>6, <2>7, <3>2
  <2>8. CASE m = "client"
    <3>1. /\ c.todo # << >> /\ t.game_started = c.game_started /\ "client" # "host"
          /\ TakesNext(c, p) /\ Handles("client", c, p, t)
          /\ Tame("client", t) => Tame("client", c)
      BY <1>9, <2>1, <2>3, <2>4, <2>6, <2>8
    <3>2. ASSUME Tame("host", h), Tame("client", t) PROVE Mirrored(h, t)
      <4>1. Mirrored(h, c) /\ Tame("client", c)
        BY <1>3, <3>1, <3>2 DEF Strayed
      <4> HIDE DEF h, c
      <4> QED
        BY <1>2, <2>2, <3>1, <3>2, <4>1, TwoMachines, HandlerMirrored
    <3> QED
      BY <1>6, <2>2, <2>6, <2>8, <3>2
  <2> QED
    BY <2>7, <2>8, TwoMachines
<1>10. ASSUME HandlerStep("host"), ~h.game_started
       PROVE  MirrorInv'
  <2>1. h.todo # << >> /\ \E t : /\ pc' = [pc EXCEPT !["host"] = t] /\ MachineOK(t) /\ Keeps(h, t)
                                 /\ \E p : TakesNext(h, p) /\ (Still(h) => Listens(h, p, t))
    BY <1>10, HostUnstarted
  <2>2. PICK t : /\ pc' = [pc EXCEPT !["host"] = t] /\ MachineOK(t) /\ Keeps(h, t)
                 /\ \E p : TakesNext(h, p) /\ (Still(h) => Listens(h, p, t))
    BY <2>1
  <2>3. PICK p : TakesNext(h, p) /\ (Still(h) => Listens(h, p, t))
    BY <2>2
  <2>4. t.buttons \in Seq(Nat) /\ (Tame("host", t) => Tame("host", h))
    BY <1>2, <1>3, <2>2, KeepsTame DEF Keeps
  <2>5. ASSUME Tame("host", t), Tame("client", c), ~Strayed(c) PROVE Mirrored(t, c)
    <3>1. Mirrored(h, c) /\ Tame("host", h)
      BY <1>3, <2>4, <2>5
    <3>2. Listens(h, p, t)
      BY <1>10, <2>3, <3>1 DEF Mirrored, AckDue
    <3> HIDE DEF h, c
    <3> QED
      BY <1>2, <1>10, <2>1, <2>2, <2>3, <3>1, <3>2, ListensMirrored
  <2> QED
    BY <1>5, <2>2, <2>4, <2>5
<1>11. ASSUME NEW m \in Machines, HandlerStep(m)
       PROVE  MirrorInv'
  BY <1>9, <1>10, <1>11, TwoMachines
<1>12. ASSUME NEW m \in Machines, Deliver(m)
       PROVE  MirrorInv'
  <2> DEFINE k == pc'["host"]
             d == pc'["client"]
  <2>1. /\ Differ(pc[m], pc'[m], Registers) /\ pc'[m].tsr = pc[m].thr /\ pc'[m].thr = << >>
        /\ Differ(pc[Other(m)], pc'[Other(m)], {"rbr"}) /\ pc'[Other(m)].rbr = pc[m].tsr
        /\ pc[Other(m)].rbr = << >> /\ pc[m].tsr # << >>
    BY <1>12, Delivers
  <2>2. \/ /\ h.tsr # << >> /\ c.rbr = << >>
           /\ Differ(h, k, Registers) /\ k.tsr = h.thr /\ k.thr = << >>
           /\ Differ(c, d, {"rbr"}) /\ d.rbr = h.tsr
        \/ /\ c.tsr # << >> /\ h.rbr = << >>
           /\ Differ(c, d, Registers) /\ d.tsr = c.thr /\ d.thr = << >>
           /\ Differ(h, k, {"rbr"}) /\ k.rbr = c.tsr
    BY <2>1, TwoMachines
  <2> HIDE DEF h, c, k, d
  <2>3. \A f \in {"buttons", "max_buttons_size", "waited", "opened_VS", "mode", "game_end",
                  "todo"} :
          k[f] = h[f] /\ d[f] = c[f]
    BY <2>2 DEF Differ, Registers, Fields
  <2>4. /\ Tame("host", k) => Tame("host", h)
        /\ Tame("client", d) => Tame("client", c)
        /\ Strayed(c) => Strayed(d)
    BY <2>3 DEF Tame, Strayed
  <2>5. Tame("host", k) /\ Tame("client", d) /\ ~Strayed(d) => Mirrored(k, d)
    BY <1>3, <2>2, <2>4, LineMirrored
  <2> QED
    BY <1>1, <1>3, <2>3, <2>5 DEF MirrorInv, k, d
<1>13. CASE Idle
  BY <1>13 DEF Idle, MirrorInv
<1> QED
  BY <1>7, <1>8, <1>11, <1>12, <1>13 DEF Next

\* Two started games are in step, unless the client has left its own unfinished.
LEMMA GamesInStep ==
  ASSUME MirrorInv, Orderly, pc["host"].game_started, pc["client"].game_started,
         pc["client"].mode = "MP_GAME" \/ pc["client"].game_end
  PROVE  /\ Sane("host", pc["host"]) /\ Sane("client", pc["client"])
         /\ InStep("host", pc["host"], "client", pc["client"])
<1>1. Tame("host", pc["host"]) /\ Tame("client", pc["client"])
  BY TwoMachines DEF Orderly, Fits, Direct, Tame
<1>2. ~Strayed(pc["client"])
  BY DEF Strayed
<1> QED
  BY <1>1, <1>2 DEF MirrorInv, Mirrored

\* A beginning, as SubSeq says it
LEMMA BeginsSubSeq ==
  ASSUME NEW u \in Seq(Nat), NEW w, Begins(u, w)
  PROVE  Len(u) <= Len(w) /\ u = SubSeq(w, 1, Len(u))
<1>1. w \in Seq(Nat) /\ Len(u) <= Len(w) /\ \A i \in 1..Len(u) : w[i] = u[i]
  BY DEF Begins
<1>2. Len(u) \in Nat /\ Len(w) \in Nat
  BY <1>1, LenProperties
<1>3. /\ SubSeq(w, 1, Len(u)) \in Seq(Nat) /\ Len(SubSeq(w, 1, Len(u))) = Len(u)
      /\ \A i \in 1..Len(u) : SubSeq(w, 1, Len(u))[i] = w[i]
  BY <1>1, <1>2
<1> QED
  BY <1>1, <1>3, SeqEqual

\* The games of two players in step, none of which is over
LEMMA AheadBegins ==
  ASSUME NEW m, NEW s, NEW o, NEW r, Ahead(m, s, o, r), ~s.game_end
  PROVE  /\ Begins(r.buttons, s.buttons)
         /\ InHand(r) = << >> /\ r.rbr = << >> /\ s.tsr = << >> /\ s.thr = << >>
              => View(r) = View(s)
<1>1. PICK w : /\ Flow(o, View(r), InHand(r), r.rbr, s.tsr, s.thr, w)
               /\ w = View(s) \/ (s.game_end /\ ~w.ended /\ ~Turn(o, w))
  BY DEF Ahead
<1>2. Flow(o, View(r), InHand(r), r.rbr, s.tsr, s.thr, View(s))
  BY <1>1
<1>3. Begins(View(r).buttons, View(s).buttons)
  BY <1>2, FlowBegins
<1>4. InHand(r) = << >> /\ r.rbr = << >> /\ s.tsr = << >> /\ s.thr = << >>
        => View(r) = View(s)
  BY <1>2 DEF Flow, After
<1> QED
  BY <1>3, <1>4, ViewOf

\* Two games that are over
LEMMA AheadEnded ==
  ASSUME NEW m, NEW s, NEW o, NEW r, Ahead(m, s, o, r), s.game_end, r.game_end
  PROVE  View(r) = View(s)
<1>1. PICK w : /\ Flow(o, View(r), InHand(r), r.rbr, s.tsr, s.thr, w)
               /\ w = View(s) \/ (s.game_end /\ ~w.ended /\ ~Turn(o, w))
  BY DEF Ahead
<1>2. View(r).ended
  BY ViewOf
<1>3. w = View(r)
  BY <1>1, <1>2, FlowDone
<1> QED
  BY <1>1, <1>2, <1>3

-----------------------------------------------------------------------------
(* The two computers play one game                                         *)

\* The inductive invariant of the first game
GameInv == PcOK /\ TurnInv /\ HandInv /\ MirrorInv

\* It holds of every behaviour.
LEMMA GameInvariant ==
  ASSUME Sessions <= 1, Rounds \subseteq 1..255
  PROVE  Spec => []GameInv
<1>1. Init => GameInv
  BY TurnInit, HandInit, MirrorInit DEF GameInv
<1>2. ASSUME GameInv, [Next]_pc PROVE GameInv'
  <2>1. CASE Next
    <3>1. PcOK' /\ TurnInv' /\ HandInv'
      BY <1>2, <2>1, WaitingStep, PlayingStep, HandStep DEF GameInv
    <3>2. MirrorInv'
      BY <1>2, <2>1, SetUpStep, PlayMirror DEF GameInv
    <3> QED
      BY <3>1, <3>2 DEF GameInv
  <2>2. CASE UNCHANGED pc
    BY <1>2, <2>2 DEF GameInv, PcOK, TurnInv, HandInv, MirrorInv
  <2> QED
    BY <1>2, <2>1, <2>2
<1> QED
  BY <1>1, <1>2, PTL DEF Spec

\* In the first game of two computers, of a number of rounds the one byte can say, one
\* sequence is a beginning of the other as long as the game is orderly: whatever is
\* clicked and however far the bytes between the two have got.
THEOREM SequencesAlwaysMirror ==
  ASSUME Sessions <= 1, Rounds \subseteq 1..255
  PROVE  Spec => []SequencesMirror
<1>1. GameInv => SequencesMirror
  <2> DEFINE h == pc["host"]
             c == pc["client"]
  <2> SUFFICES ASSUME GameInv, BothActive, Orderly
               PROVE  \/ Len(c.buttons) <= Len(h.buttons)
                         /\ c.buttons = SubSeq(h.buttons, 1, Len(c.buttons))
                      \/ Len(h.buttons) <= Len(c.buttons)
                         /\ h.buttons = SubSeq(c.buttons, 1, Len(h.buttons))
    BY DEF SequencesMirror
  <2>1. /\ h.game_started /\ c.game_started /\ ~h.game_end /\ ~c.game_end /\ c.mode = "MP_GAME"
    BY TwoMachines DEF BothActive, Active
  <2>2. Sane("host", h) /\ Sane("client", c) /\ InStep("host", h, "client", c)
    BY <2>1, GamesInStep DEF GameInv
  <2>3. h.buttons \in Seq(Nat) /\ c.buttons \in Seq(Nat)
    BY <2>2 DEF Sane
  <2> HIDE DEF h, c
  <2>4. Begins(c.buttons, h.buttons) \/ Begins(h.buttons, c.buttons)
    BY <2>1, <2>2, AheadBegins DEF InStep
  <2> QED
    BY <2>3, <2>4, BeginsSubSeq
<1> QED
  BY <1>1, GameInvariant, PTL

\* Then, once no byte is on its way and no handler is due, the two games are the same:
\* sequence, progress, turn, VS interval and score.
THEOREM GamesAlwaysAgree ==
  ASSUME Sessions <= 1, Rounds \subseteq 1..255
  PROVE  Spec => []GamesAgree
<1>1. GameInv => GamesAgree
  <2> DEFINE h == pc["host"]
             c == pc["client"]
  <2> SUFFICES ASSUME GameInv, BothActive, Quiet, Orderly
               PROVE  /\ h.buttons = c.buttons /\ h.guessed = c.guessed
                      /\ h.is_player_1 = c.is_player_1 /\ h.VS_was_pressed = c.VS_was_pressed
                      /\ h.is_vs_round = c.is_vs_round /\ h.player_score = c.player_score
    BY DEF GamesAgree
  <2>1. /\ h.game_started /\ c.game_started /\ ~h.game_end /\ ~c.game_end /\ c.mode = "MP_GAME"
    BY TwoMachines DEF BothActive, Active
  <2>2. Sane("host", h) /\ Sane("client", c) /\ InStep("host", h, "client", c)
    BY <2>1, GamesInStep DEF GameInv
  <2>3. /\ h.todo = << >> /\ h.thr = << >> /\ h.tsr = << >> /\ h.rbr = << >>
        /\ c.todo = << >> /\ c.thr = << >> /\ c.tsr = << >> /\ c.rbr = << >>
    BY TwoMachines DEF Quiet
  <2> HIDE DEF h, c
  <2>4. InHand(h) = << >> /\ InHand(c) = << >>
    BY <2>2, <2>3 DEF Sane, UartLast, InHand
  <2>5. View(h) = View(c)
    BY <2>1, <2>2, <2>3, <2>4, AheadBegins DEF InStep
  <2>6. h.is_vs_round = c.is_vs_round
    BY <2>2 DEF Sane
  <2> QED
    BY <2>5, <2>6, ViewOf
<1> QED
  BY <1>1, GameInvariant, PTL

\* And two games that both ended name the same winner, with the same score.
THEOREM ResultAlwaysSame ==
  ASSUME Sessions <= 1, Rounds \subseteq 1..255
  PROVE  Spec => []SameResult
<1>1. GameInv => SameResult
  <2> DEFINE h == pc["host"]
             c == pc["client"]
  <2> SUFFICES ASSUME GameInv, Orderly, \A m \in Machines : pc[m].game_started /\ pc[m].game_end
               PROVE  h.ws = c.ws /\ h.player_score = c.player_score
    BY DEF SameResult
  <2>1. h.game_started /\ c.game_started /\ h.game_end /\ c.game_end
    BY TwoMachines
  <2>2. InStep("host", h, "client", c)
    BY <2>1, GamesInStep DEF GameInv
  <2> HIDE DEF h, c
  <2>3. View(h) = View(c)
    BY <2>1, <2>2, AheadEnded DEF InStep
  <2> QED
    BY <2>1, <2>3, ViewOf
<1> QED
  BY <1>1, GameInvariant, PTL

-----------------------------------------------------------------------------
(* The array of the sequence                                               *)

\* A started game has its array until it ends, and has then freed it once.
HeapOK(s) == s.heap = IF s.game_end THEN "freed" ELSE "live"

\* What MemorySafe says of one computer
Safe(s, t) ==
  \/ t.guessed > s.guessed
  \/ Len(t.buttons) > Len(s.buttons)
  \/ t.heap = "freed twice"
  => s.heap = "live"

\* The host of a client that left: it waits for the acknowledgment or plays with nobody.
Alone(h, c) ==
  /\ Sane("host", h)
  /\ h.game_started => InHand(h) = << >> /\ h.rbr = << >> /\ c.tsr = << >> /\ c.thr = << >>
  /\ ~h.game_started => Still(h) /\ AckLast(InHand(h), h.rbr, c.tsr, c.thr)

\* Before the client starts no button is played; since then, in a tame game, each
\* computer frees its array when its game ends.
HeapInv ==
  LET h == pc["host"]
      c == pc["client"]
  IN  /\ ~c.game_started => Unplayed(h) /\ Unplayed(c) /\ (c.sessions = 0 => c.heap = "null")
      /\ c.game_started /\ Tame("host", h) /\ Tame("client", c) =>
           HeapOK(h) /\ HeapOK(c) /\ (Strayed(c) => Alone(h, c))

\* No button was played.
LEMMA UnplayedSafe == ASSUME NEW s, NEW t, Unplayed(s), Unplayed(t) PROVE Safe(s, t)
<1>1. t.guessed = s.guessed /\ t.buttons = s.buttons /\ s.guessed = 0 /\ s.buttons = << >>
  BY DEF Unplayed
<1>2. ~(0 > 0) /\ Len(<< >>) = 0
  OBVIOUS
<1>3. t.heap # "freed twice"
  BY DEF Unplayed
<1> QED
  BY <1>1, <1>2, <1>3 DEF Safe

\* Nothing of it changes.
LEMMA SameSafe ==
  ASSUME NEW s, HeapOK(s), s.guessed \in Nat, s.buttons \in Seq(Nat), NEW t,
         \A f \in {"guessed", "buttons", "heap", "game_end"} : t[f] = s[f]
  PROVE  HeapOK(t) /\ Safe(s, t)
<1>1. Len(s.buttons) \in Nat
  BY LenProperties
<1>2. ~(t.guessed > s.guessed) /\ ~(Len(t.buttons) > Len(s.buttons))
  BY <1>1
<1>3. t.heap # "freed twice" /\ HeapOK(t)
  BY DEF HeapOK
<1> QED
  BY <1>2, <1>3 DEF Safe

\* The game goes on or ends.
LEMMA LiveSafe ==
  ASSUME NEW s, HeapOK(s), ~s.game_end, NEW t,
         (t.heap = s.heap /\ t.game_end = s.game_end)
           \/ (t.game_end = TRUE /\ (s.heap = "live" => t.heap = "freed"))
  PROVE  HeapOK(t) /\ Safe(s, t)
BY DEF HeapOK, Safe

\* Every handler of a started game: a finished one has nothing to hear.
LEMMA HandlerSafe ==
  ASSUME NEW m \in Machines, NEW s, MachineOK(s), TodoOK(m, s), s.todo # << >>, Sane(m, s),
         Tame(m, s), HeapOK(s), s.data >= 0 => Fine(m, View(s), s.data),
         NEW p, TakesNext(s, p), NEW t, Handles(m, s, p, t)
  PROVE  HeapOK(t) /\ Safe(s, t)
<1>1. /\ \A f \in Fields \ {"todo", "data"} : p[f] = s[f]
      /\ Head(s.todo) = "change_player" => ~p.game_end
  BY TakenSane DEF TakesNext, Differ
<1>2. p.game_end = s.game_end /\ p.heap = s.heap /\ p.guessed = s.guessed /\ p.buttons = s.buttons
  BY <1>1 DEF Fields
<1>3. s.buttons \in Seq(Nat) /\ s.guessed \in Nat
  <2>1. s.buttons \in Seq(Nat) /\ s.guessed \in 0..Len(s.buttons)
    BY DEF Sane
  <2> QED
    BY <2>1, LenProperties
<1>4. CASE s.game_end
  <2>1. View(s).ended
    BY <1>4, ViewOf
  <2>2. ~(s.data >= 0)
    BY <2>1 DEF Fine
  <2>3. Rests(p, t) \/ Differ(p, t, Registers \cup {"queue"})
    BY <1>1, <1>2, <1>4, <2>2 DEF Handles, TakesClicks, CountsDown
  <2>4. \A f \in {"guessed", "buttons", "heap", "game_end"} : t[f] = p[f]
    BY <2>3 DEF Rests, Differ, Registers, Fields
  <2> QED
    BY <1>2, <1>3, <2>4, SameSafe
<1>5. CASE ~s.game_end
  <2> DEFINE Goes == \/ t.heap = p.heap /\ t.game_end = p.game_end
                     \/ t.game_end = TRUE /\ (p.heap = "live" => t.heap = "freed")
  <2>1. ASSUME GivesTurn(m, p, t) PROVE Goes
    BY <2>1 DEF GivesTurn, Differ, Outgoing, Registers, TurnFieldsOf, Fields
  <2>2. ASSUME Rests(p, t) PROVE Goes
    BY <2>2 DEF Rests, Differ, Fields
  <2>3. ASSUME OwnLoss(p, t) PROVE Goes
    BY <2>3 DEF OwnLoss
  <2>4. ASSUME NEW click, OwnClicked(p, t, click) PROVE Goes
    <3>1. ASSUME OwnAdd(p, t, click) \/ OwnNext(p, t, click) PROVE Goes
      BY <3>1 DEF OwnAdd, OwnNext, Differ, Outgoing, Registers, Fields
    <3>2. ASSUME OwnTie(p, t) PROVE Goes
      BY <3>2 DEF OwnTie
    <3> QED
      BY <2>3, <2>4, <3>1, <3>2 DEF OwnClicked
  <2>5. ASSUME NEW click, RemoteClicked(p, t, click) PROVE Goes
    <3>1. ASSUME RemoteAdd(p, t, click) \/ RemoteNext(p, t, click) PROVE Goes
      BY <3>1 DEF RemoteAdd, RemoteNext, Differ, Fields
    <3>2. ASSUME RemoteTie(p, t) PROVE Goes
      BY <3>2 DEF RemoteTie
    <3> QED
      BY <2>5, <3>1, <3>2 DEF RemoteClicked
  <2>6. ASSUME NEW vs, TakesTurn(p, t, vs) PROVE Goes
    BY <2>6 DEF TakesTurn, Differ, TurnFieldsOf, Fields
  <2>7. ASSUME HearsEnd(p, t) PROVE Goes
    BY <2>7 DEF HearsEnd
  <2>8. ASSUME Differ(p, t, Registers \cup {"queue"}) PROVE Goes
    BY <2>8 DEF Differ, Registers, Fields
  <2>9. ASSUME NEW data, Hears(m, p, t, data) PROVE Goes
    BY <2>4, <2>5, <2>6, <2>7, <2>9 DEF Hears
  <2>10. Goes
    BY <2>1, <2>2, <2>3, <2>4, <2>8, <2>9 DEF Handles
  <2> QED
    BY <1>2, <1>5, <2>10, LiveSafe
<1> QED
  BY <1>4, <1>5

\* The host of a client that left goes on waiting, or hears of the acknowledgment.
LEMMA AloneListens ==
  ASSUME NEW h, MachineOK(h), TodoOK("host", h), h.todo # << >>, Tame("host", h),
         NEW c, Alone(h, c), ~h.game_started,
         NEW p, TakesNext(h, p), NEW t, MachineOK(t), Listens(h, p, t)
  PROVE  Alone(t, c)
<1>1. Sane("host", h) /\ Still(h) /\ AckLast(InHand(h), h.rbr, c.tsr, c.thr)
  BY DEF Alone
<1>2. /\ Calm(p) /\ Sane("host", p) /\ p.rbr = h.rbr
      /\ Head(h.todo) = "uart" => InHand(p) = << >>
      /\ (Head(h.todo) = "uart" => h.data < 0) => InHand(p) = InHand(h)
  BY <1>1, TwoMachines, TakenSane
<1>3. CASE t = p
  <2>1. \A f \in {"game_started", "game_end", "is_player_1", "time_left_for_click",
                  "num_round_sent_bytes"} : p[f] = h[f]
    BY DEF TakesNext, Differ, Fields
  <2>2. Still(p)
    BY <1>1, <1>2, <2>1 DEF Still
  <2>3. InHand(p) = << >> \/ InHand(p) = InHand(h)
    BY <1>2
  <2>4. <<ACK>> # << >>
    OBVIOUS
  <2>5. AckLast(InHand(p), p.rbr, c.tsr, c.thr)
    BY <1>1, <1>2, <2>3, <2>4 DEF AckLast
  <2> QED
    BY <1>2, <1>3, <2>1, <2>2, <2>5 DEF Alone
<1>4. CASE /\ Head(h.todo) = "uart" /\ h.data = ACK
           /\ Differ(p, t, {"game_started"}) /\ t.game_started = TRUE
  <2>1. InHand(h) = <<ACK>>
    BY <1>4 DEF InHand, ACK
  <2>2. h.rbr = << >> /\ c.tsr = << >> /\ c.thr = << >>
    BY <1>1, <2>1 DEF AckLast
  <2>3. \A f \in Fields \ {"game_started"} : t[f] = p[f]
    BY <1>4 DEF Differ
  <2>4. Sane("host", t)
    BY <1>2, <2>3, SaneSame DEF Fields
  <2>5. t.rbr = << >> /\ InHand(t) = << >>
    BY <1>2, <1>4, <2>2, <2>3 DEF InHand, Fields
  <2> QED
    BY <1>4, <2>2, <2>4, <2>5 DEF Alone
<1> QED
  BY <1>3, <1>4 DEF Listens

\* It plays on, and nothing comes.
LEMMA AloneHandler ==
  ASSUME NEW h, MachineOK(h), TodoOK("host", h), h.todo # << >>, Tame("host", h),
         NEW c, Alone(h, c), h.game_started, NEW p, TakesNext(h, p),
         NEW t, MachineOK(t), Tame("host", t), Handles("host", h, p, t), t.game_started
  PROVE  Alone(t, c)
<1>1. Sane("host", h) /\ InHand(h) = << >> /\ h.rbr = << >> /\ c.tsr = << >> /\ c.thr = << >>
  BY DEF Alone
<1>2. ~(h.data >= 0)
  BY <1>1 DEF InHand
<1>3. Sane("host", t) /\ (Idles(h, t) \/ Speaks("host", h, t))
  BY <1>1, <1>2, TwoMachines, HandlerOutcome DEF HearsByte
<1>4. InHand(t) = << >> /\ t.rbr = << >>
  BY <1>1, <1>3 DEF Idles, Speaks, InHand
<1> QED
  BY <1>1, <1>3, <1>4 DEF Alone

\* A notification
LEMMA AloneNotice ==
  ASSUME NEW h, MachineOK(h), NEW c, Alone(h, c), NEW t, Reads(h, t), Noticed(h, t)
  PROVE  Alone(t, c)
<1>1. \A f \in {"game_started", "game_end", "is_player_1", "time_left_for_click",
                "num_round_sent_bytes"} : t[f] = h[f]
  BY DEF Reads, Differ, Fields
<1>2. Sane("host", h) /\ Calm(t)
  BY DEF Alone, Reads
<1>3. h.mode # "MP_GAME" => h.rbr = << >>
  BY DEF Alone, Still, Sane
<1>4. Sane("host", t) /\ Takes(h, t)
  BY <1>2, <1>3, TwoMachines, NoticeTakes
<1>5. ASSUME h.game_started PROVE InHand(t) = << >> /\ t.rbr = << >> /\ c.tsr = << >> /\ c.thr = << >>
  BY <1>4, <1>5 DEF Alone, Takes
<1>6. ASSUME ~h.game_started PROVE Still(t) /\ AckLast(InHand(t), t.rbr, c.tsr, c.thr)
  <2>1. Still(h) /\ AckLast(InHand(h), h.rbr, c.tsr, c.thr)
    BY <1>6 DEF Alone
  <2>2. Still(t)
    BY <1>1, <1>2, <2>1 DEF Still
  <2>3. AckLast(InHand(t), t.rbr, c.tsr, c.thr)
    BY <1>4, <2>1, AckRead DEF Takes
  <2> QED
    BY <2>2, <2>3
<1> QED
  BY <1>1, <1>4, <1>5, <1>6 DEF Alone

\* The line
LEMMA AloneLine ==
  ASSUME NEW h, NEW c, Alone(h, c), NEW k, NEW d,
         \/ /\ Differ(h, k, Registers) /\ Differ(c, d, {"rbr"})
         \/ /\ c.tsr # << >> /\ h.rbr = << >>
            /\ Differ(c, d, Registers) /\ d.tsr = c.thr /\ d.thr = << >>
            /\ Differ(h, k, {"rbr"}) /\ k.rbr = c.tsr
  PROVE  Alone(k, d)
<1>1. \A f \in Fields \ (Registers \cup {"rbr"}) : k[f] = h[f]
  BY DEF Differ
<1>2. Sane("host", k)
  BY <1>1, SaneSame DEF Alone, Fields, Registers
<1>3. k.game_started = h.game_started /\ InHand(k) = InHand(h) /\ (Still(h) => Still(k))
  BY <1>1 DEF Still, Calm, InHand, Fields, Registers
<1>4. CASE Differ(h, k, Registers) /\ Differ(c, d, {"rbr"})
  <2>1. k.rbr = h.rbr /\ d.tsr = c.tsr /\ d.thr = c.thr
    BY <1>4 DEF Differ, Registers, Fields
  <2> QED
    BY <1>2, <1>3, <2>1 DEF Alone
<1>5. CASE /\ c.tsr # << >> /\ h.rbr = << >> /\ d.tsr = c.thr /\ d.thr = << >> /\ k.rbr = c.tsr
  <2>1. ~h.game_started /\ Still(h) /\ AckLast(InHand(h), h.rbr, c.tsr, c.thr)
    BY <1>5 DEF Alone
  <2>2. <<ACK>> # << >>
    OBVIOUS
  <2>3. AckLast(InHand(k), k.rbr, d.tsr, d.thr)
    BY <1>3, <1>5, <2>1, <2>2 DEF AckLast
  <2> QED
    BY <1>2, <1>3, <2>1, <2>3 DEF Alone
<1> QED
  BY <1>4, <1>5

\* What each computer needs to handle what is due
LEMMA ReadyToHandle ==
  ASSUME MirrorInv, HeapInv, pc["client"].game_started,
         Tame("host", pc["host"]), Tame("client", pc["client"])
  PROVE  LET h == pc["host"]
             c == pc["client"]
         IN  /\ HeapOK(h) /\ HeapOK(c) /\ Sane("host", h)
             /\ h.game_started /\ h.data >= 0 => Fine("host", View(h), h.data)
             /\ ~h.game_started => Still(h)
             /\ ~Strayed(c) => /\ Sane("client", c)
                               /\ c.data >= 0 => Fine("client", View(c), c.data)
<1> DEFINE h == pc["host"]
           c == pc["client"]
<1>1. HeapOK(h) /\ HeapOK(c) /\ (Strayed(c) => Alone(h, c)) /\ (~Strayed(c) => Mirrored(h, c))
  BY DEF HeapInv, MirrorInv
<1> HIDE DEF h, c
<1>2. <<h.data>> # << >> /\ <<c.data>> # << >>
  OBVIOUS
<1>3. CASE Strayed(c)
  BY <1>1, <1>2, <1>3 DEF Alone, InHand, h, c
<1>4. CASE ~Strayed(c)
  <2>1. Sane("host", h) /\ Sane("client", c)
    BY <1>1, <1>4 DEF Mirrored
  <2>2. CASE h.game_started
    <3>1. InStep("host", h, "client", c) /\ InStep("client", c, "host", h)
      BY <1>1, <1>4, <2>2 DEF Mirrored, InStep
    <3> QED
      BY <1>1, <1>4, <2>1, <2>2, <3>1, InStepFine DEF h, c
  <2>3. CASE ~h.game_started
    BY <1>1, <1>2, <1>4, <2>1, <2>3 DEF Mirrored, AckDue, InHand, h, c
  <2> QED
    BY <2>2, <2>3
<1> QED
  BY <1>3, <1>4

\* At the start nothing is allocated.
LEMMA HeapInit == ASSUME Init PROVE HeapInv
<1> DEFINE h == pc["host"]
           c == pc["client"]
<1>1. /\ h.buttons = << >> /\ h.guessed = 0 /\ h.heap = "null"
      /\ c.buttons = << >> /\ c.guessed = 0 /\ c.heap = "null" /\ c.game_started = FALSE
  BY TwoMachines DEF Init
<1> HIDE DEF h, c
<1>2. Unplayed(h) /\ Unplayed(c) /\ ~c.game_started
  BY <1>1 DEF Unplayed
<1> QED
  BY <1>1, <1>2 DEF HeapInv, h, c

\* What MemorySafe says of a step
StepSafe == Safe(pc["host"], pc'["host"]) /\ Safe(pc["client"], pc'["client"])

\* Every step before the client has started
LEMMA SetUpHeap ==
  ASSUME PcOK, TurnInv, HandInv, MirrorInv, HeapInv, ~pc["client"].game_started, Sessions <= 1,
         Rounds \subseteq 1..255, Next
  PROVE  HeapInv' /\ StepSafe
<1> DEFINE h == pc["host"]
           c == pc["client"]
<1>1. HostWaits(h) /\ ClientWaits(c) /\ Arrived(c) <= 2
  BY Waiting
<1>2. SetUp(h, c) /\ Unplayed(h) /\ Unplayed(c) /\ (c.sessions = 0 => c.heap = "null")
  BY DEF MirrorInv, HeapInv
<1>3. Safe(h, h) /\ Safe(c, c)
  BY <1>2, UnplayedSafe
<1>4. ASSUME NEW t, pc' = [pc EXCEPT !["host"] = t], Unplayed(t)
      PROVE  HeapInv' /\ StepSafe
  <2>1. pc'["host"] = t /\ pc'["client"] = c
    BY <1>4, TwoMachines DEF PcOK
  <2>2. Safe(h, t)
    BY <1>2, <1>4, UnplayedSafe
  <2> QED
    BY <1>2, <1>3, <1>4, <2>1, <2>2 DEF HeapInv, StepSafe
<1>5. ASSUME NEW t, pc' = [pc EXCEPT !["client"] = t], Unplayed(t),
             t.sessions = 0 => t.heap = "null",
             t.game_started => /\ FreshGame(h) /\ FreshGame(t) /\ ~h.game_started
                               /\ Sane("host", h) /\ Still(h)
                               /\ AckLast(InHand(h), h.rbr, t.tsr, t.thr)
      PROVE  HeapInv' /\ StepSafe
  <2>1. pc'["host"] = h /\ pc'["client"] = t
    BY <1>5, TwoMachines DEF PcOK
  <2>2. Safe(c, t)
    BY <1>2, <1>5, UnplayedSafe
  <2>3. t.game_started => HeapOK(h) /\ HeapOK(t) /\ Alone(h, t)
    BY <1>5 DEF FreshGame, HeapOK, Alone
  <2> QED
    BY <1>2, <1>3, <1>5, <2>1, <2>2, <2>3 DEF HeapInv, StepSafe
<1>6. CASE \E n \in Rounds : Host_mp_game(n)
  <2>1. PICK t : HostGoesOn(t) /\ HostEntered(h, t)
    BY <1>1, <1>6, HostEnters
  <2>2. Unplayed(t)
    BY <2>1 DEF HostEntered, FreshGame, Unplayed
  <2> QED
    BY <1>4, <2>1, <2>2 DEF HostGoesOn
<1>7. CASE Connect_mp_game
  <2>1. PICK t : ClientGoesOn(t) /\ ClientEntered(c, t)
    BY <1>1, <1>7, ClientEnters
  <2>2. c.heap = "null" /\ t.heap = "null"
    BY <1>2, <2>1 DEF ClientEntered
  <2>3. Unplayed(t) /\ ~t.game_started
    BY <1>2, <2>1, <2>2 DEF ClientEntered, Unplayed
  <2> QED
    BY <1>5, <2>1, <2>2, <2>3 DEF ClientGoesOn
<1>8. ASSUME NEW m \in Machines, (\E hs \in Notifications : Notify(m, hs)) \/ IgnoreUart(m)
      PROVE  HeapInv' /\ StepSafe
  <2>1. PICK t : pc' = [pc EXCEPT ![m] = t] /\ Reads(pc[m], t) /\ Noticed(pc[m], t)
    BY <1>8, Notices
  <2>2. \A f \in {"buttons", "guessed", "heap", "is_player_1", "game_end", "game_started",
                  "sessions"} : t[f] = pc[m][f]
    BY <2>1 DEF Reads, Differ, Fields
  <2>3. Unplayed(pc[m]) => Unplayed(t)
    BY <2>2 DEF Unplayed
  <2>4. CASE m = "host"
    BY <1>2, <1>4, <2>1, <2>3, <2>4
  <2>5. CASE m = "client"
    <3>1. ~t.game_started /\ Unplayed(t) /\ (t.sessions = 0 => t.heap = "null")
      BY <1>2, <2>2, <2>3, <2>5
    <3> QED
      BY <1>5, <2>1, <2>5, <3>1
  <2> QED
    BY <2>4, <2>5, TwoMachines
<1>9. ASSUME NEW m \in Machines, HandlerStep(m)
      PROVE  HeapInv' /\ StepSafe
  <2>1. pc[m].todo # << >>
    BY <1>9 DEF HandlerStep, KeyStep, MouseStep, RtcStep, UartStep, ChangePlayerStep, Runs
  <2>2. CASE m = "host"
    <3>1. PICK t : HostGoesOn(t) /\ HostSaid(h, t)
      BY <1>1, <1>9, <2>2, HostHandler
    <3>2. \A f \in {"buttons", "guessed", "heap", "is_player_1", "game_end"} : t[f] = h[f]
      BY <3>1 DEF HostSaid, Registers, Fields
    <3>3. Unplayed(t)
      BY <1>2, <3>2 DEF Unplayed
    <3> QED
      BY <1>4, <3>1, <3>3 DEF HostGoesOn
  <2>3. CASE m = "client"
    <3>1. PICK t : ClientGoesOn(t) /\ ClientSaid(c, t)
      BY <1>1, <1>9, <2>3, ClientHandler
    <3>2. Unplayed(t) /\ (t.sessions = 0 => t.heap = "null")
      BY <1>1, <1>2, <2>1, <2>3, <3>1 DEF ClientSaid, ClientWaits
    <3>3. t.game_started => /\ FreshGame(h) /\ FreshGame(t) /\ ~h.game_started
                            /\ Sane("host", h) /\ Still(h)
                            /\ AckLast(InHand(h), h.rbr, t.tsr, t.thr)
      BY <1>2, <2>1, <2>3, <3>1, StartMirrored
    <3> QED
      BY <1>5, <3>1, <3>2, <3>3 DEF ClientGoesOn
  <2> QED
    BY <2>2, <2>3, TwoMachines
<1>10. ASSUME NEW m \in Machines, Deliver(m)
       PROVE  HeapInv' /\ StepSafe
  <2>1. /\ Differ(pc[m], pc'[m], Registers) /\ Differ(pc[Other(m)], pc'[Other(m)], {"rbr"})
    BY <1>10, Delivers
  <2>2. \A f \in Fields \ (Registers \cup {"rbr"}) :
          pc'[m][f] = pc[m][f] /\ pc'[Other(m)][f] = pc[Other(m)][f]
    BY <2>1 DEF Differ
  <2>3. \A f \in Fields \ (Registers \cup {"rbr"}) :
          pc'["host"][f] = h[f] /\ pc'["client"][f] = c[f]
    BY <2>2, TwoMachines
  <2> DEFINE k == pc'["host"]
             d == pc'["client"]
  <2>a. ~c.game_started
    OBVIOUS
  <2> HIDE DEF h, c, k, d
  <2>4. \A f \in {"buttons", "guessed", "heap", "is_player_1", "game_end", "game_started",
                  "sessions"} :
          k[f] = h[f] /\ d[f] = c[f]
    BY <2>3 DEF k, d, Fields, Registers
  <2>5. Unplayed(k) /\ Unplayed(d) /\ ~d.game_started
    BY <1>2, <2>4, <2>a DEF Unplayed
  <2>6. Safe(h, k) /\ Safe(c, d)
    BY <1>2, <2>5, UnplayedSafe
  <2> QED
    BY <1>2, <2>4, <2>5, <2>6 DEF HeapInv, StepSafe, h, c, k, d
<1>11. CASE Idle
  BY <1>3, <1>11 DEF Idle, HeapInv, StepSafe
<1> QED
  BY <1>6, <1>7, <1>8, <1>9, <1>10, <1>11 DEF Next

\* Every step after it
LEMMA PlayHeap ==
  ASSUME PcOK, TurnInv, MirrorInv, HeapInv, pc["client"].game_started, Sessions <= 1, Next
  PROVE  /\ HeapInv'
         /\ Tame("host", pc["host"]) /\ Tame("client", pc["client"]) => StepSafe
<1> DEFINE h == pc["host"]
           c == pc["client"]
           T == Tame("host", h) /\ Tame("client", c)
           Goal == HeapInv' /\ (T => StepSafe)
           Played == {"guessed", "buttons", "heap", "game_end"}
<1>1. PcOK' /\ pc'["client"].game_started
  BY PlayingStep
<1>2. /\ MachineOK(h) /\ MachineOK(c) /\ TodoOK("host", h) /\ TodoOK("client", c)
      /\ h.max_buttons_size \in Nat /\ c.max_buttons_size \in Nat
      /\ h.data \in Int /\ c.data \in Int
  BY TwoMachines DEF PcOK, MachineOK
<1>3. h.buttons \in Seq(Nat) /\ c.buttons \in Seq(Nat)
  BY DEF MirrorInv
<1>4. h.num_round_sent_bytes = 2 /\ h.sessions = 1 /\ c.sessions = 1
  BY DEF TurnInv
<1>5. T => /\ HeapOK(h) /\ HeapOK(c) /\ Sane("host", h)
           /\ h.game_started /\ h.data >= 0 => Fine("host", View(h), h.data)
           /\ ~h.game_started => Still(h)
           /\ ~Strayed(c) => /\ Sane("client", c)
                             /\ c.data >= 0 => Fine("client", View(c), c.data)
  BY ReadyToHandle
<1>6. T /\ Strayed(c) => Alone(h, c)
  BY DEF HeapInv
<1>7. ASSUME NEW t, \A f \in Played : t[f] = h[f], T PROVE HeapOK(t) /\ Safe(h, t)
  <2>1. h.guessed \in 0..Len(h.buttons) /\ HeapOK(h)
    BY <1>5, <1>7 DEF Sane
  <2>2. h.guessed \in Nat
    BY <1>3, <2>1, LenProperties
  <2> QED
    BY <1>3, <1>7, <2>1, <2>2, SameSafe
<1>8. ASSUME NEW t, \A f \in Played : t[f] = c[f], T PROVE HeapOK(t) /\ Safe(c, t)
  <2>1. CASE Strayed(c)
    BY <1>5, <1>8, <2>1 DEF Strayed, HeapOK, Safe
  <2>2. CASE ~Strayed(c)
    <3>1. c.guessed \in 0..Len(c.buttons) /\ HeapOK(c)
      BY <1>5, <1>8, <2>2 DEF Sane
    <3>2. c.guessed \in Nat
      BY <1>3, <3>1, LenProperties
    <3> QED
      BY <1>3, <1>8, <3>1, <3>2, SameSafe
  <2> QED
    BY <2>1, <2>2
<1>9. ASSUME NEW t, pc' = [pc EXCEPT !["host"] = t], Tame("host", t) => Tame("host", h),
             T => HeapOK(t) /\ Safe(h, t), T /\ Tame("host", t) /\ Strayed(c) => Alone(t, c)
      PROVE  Goal
  <2>1. pc'["host"] = t /\ pc'["client"] = c
    BY <1>9, TwoMachines DEF PcOK
  <2>2. T => HeapOK(c) /\ Safe(c, c)
    BY <1>8
  <2> QED
    BY <1>1, <1>9, <2>1, <2>2 DEF HeapInv, StepSafe
<1>10. ASSUME NEW t, pc' = [pc EXCEPT !["client"] = t], Tame("client", t) => Tame("client", c),
              T => HeapOK(t) /\ Safe(c, t), T /\ Tame("client", t) /\ Strayed(t) => Alone(h, t)
       PROVE  Goal
  <2>1. pc'["host"] = h /\ pc'["client"] = t
    BY <1>10, TwoMachines DEF PcOK
  <2>2. T => HeapOK(h) /\ Safe(h, h)
    BY <1>7
  <2> QED
    BY <1>1, <1>10, <2>1, <2>2 DEF HeapInv, StepSafe
<1>11. SUFFICES Goal
  OBVIOUS
<1>12. CASE (\E n \in Rounds : Host_mp_game(n)) \/ Connect_mp_game
  <2>1. h.sessions < Sessions \/ c.sessions < Sessions
    BY <1>12 DEF Host_mp_game, Connect_mp_game
  <2> HIDE DEF h, c
  <2> QED
    BY <1>4, <2>1, BoundsAssumption
<1>13. ASSUME NEW m \in Machines, (\E hs \in Notifications : Notify(m, hs)) \/ IgnoreUart(m)
       PROVE  Goal
  <2>1. PICK t : pc' = [pc EXCEPT ![m] = t] /\ Reads(pc[m], t) /\ Noticed(pc[m], t)
    BY <1>13, Notices
  <2>2. \A f \in Played \cup {"max_buttons_size", "waited", "opened_VS", "mode", "thr", "tsr"} :
          t[f] = pc[m][f]
    BY <2>1 DEF Reads, Differ, Fields
  <2>3. Tame(m, t) => Tame(m, pc[m])
    BY <2>2 DEF Tame
  <2>4. CASE m = "host"
    <3>1. T => HeapOK(t) /\ Safe(h, t)
      BY <1>7, <2>2, <2>4
    <3>2. T /\ Strayed(c) => Alone(t, c)
      BY <1>2, <1>6, <2>1, <2>4, AloneNotice
    <3> HIDE DEF Goal, T
    <3> QED
      BY <1>9, <2>1, <2>3, <2>4, <3>1, <3>2
  <2>5. CASE m = "client"
    <3>1. T => HeapOK(t) /\ Safe(c, t)
      BY <1>8, <2>2, <2>5
    <3>2. Strayed(t) => Strayed(c)
      BY <2>1, <2>2, <2>5 DEF Strayed, Noticed
    <3>3. t.tsr = c.tsr /\ t.thr = c.thr
      BY <2>2, <2>5
    <3>4. T /\ Strayed(t) => Alone(h, t)
      BY <1>6, <3>2, <3>3 DEF Alone
    <3> HIDE DEF Goal, T
    <3> QED
      BY <1>10, <2>1, <2>3, <2>5, <3>1, <3>4
  <2> QED
    BY <2>4, <2>5, TwoMachines
<1>14. ASSUME NEW m \in Machines, HandlerStep(m), pc[m].game_started
       PROVE  Goal
  <2>1. pc[m].todo # << >> /\ \E t : /\ pc' = [pc EXCEPT ![m] = t] /\ MachineOK(t)
                                     /\ \E p : TakesNext(pc[m], p) /\ Handles(m, pc[m], p, t)
    BY <1>14, HandlerCases
  <2>2. PICK t : /\ pc' = [pc EXCEPT ![m] = t] /\ MachineOK(t)
                 /\ \E p : TakesNext(pc[m], p) /\ Handles(m, pc[m], p, t)
    BY <2>1
  <2>3. PICK p : TakesNext(pc[m], p) /\ Handles(m, pc[m], p, t)
    BY <2>2
  <2>4. t.game_started
    <3>1. PICK u : Continues(m, u)
      BY <1>4, <1>14, HandlerTurns
    <3>2. pc'[m] = t /\ pc'[m] = u
      BY <2>2, <3>1 DEF PcOK, Continues
    <3> QED
      BY <1>14, <3>1, <3>2 DEF Continues
  <2>5. Keeps(pc[m], t)
    BY <1>2, <2>3, HandlerKeeps, TwoMachines
  <2>6. Tame(m, t) => Tame(m, pc[m])
    <3>1. pc[m].buttons \in Seq(Nat) /\ pc[m].max_buttons_size \in Nat
      BY <1>2, <1>3, TwoMachines
    <3> QED
      BY <2>5, <3>1, KeepsTame DEF Keeps
  <2>7. CASE m = "host"
    <3>1. /\ h.todo # << >> /\ h.game_started /\ TakesNext(h, p) /\ Handles("host", h, p, t)
          /\ Tame("host", t) => Tame("host", h)
      BY <1>14, <2>1, <2>3, <2>6, <2>7
    <3>2. T => HeapOK(t) /\ Safe(h, t)
      BY <1>2, <1>5, <3>1, TwoMachines, HandlerSafe
    <3>3. T /\ Tame("host", t) /\ Strayed(c) => Alone(t, c)
      BY <1>2, <1>6, <2>2, <2>4, <3>1, AloneHandler
    <3> HIDE DEF Goal, T, h, c
    <3> QED
      BY <1>9, <2>2, <2>7, <3>1, <3>2, <3>3
  <2>8. CASE m = "client"
    <3>1. /\ c.todo # << >> /\ TakesNext(c, p) /\ Handles("client", c, p, t)
          /\ Tame("client", t) => Tame("client", c)
      BY <2>1, <2>3, <2>6, <2>8
    <3>2. ~Strayed(c)
      BY <3>1 DEF Strayed
    <3>3. T => HeapOK(t) /\ Safe(c, t)
      BY <1>2, <1>5, <3>1, <3>2, TwoMachines, HandlerSafe
    <3>4. T /\ Tame("client", t) => Sane("client", t)
      BY <1>2, <1>5, <2>2, <3>1, <3>2, TwoMachines, HandlerOutcome
    <3>5. T /\ Tame("client", t) => ~Strayed(t)
      BY <3>4 DEF Sane, Strayed
    <3> HIDE DEF Goal, T, h, c
    <3> QED
      BY <1>10, <2>2, <2>8, <3>1, <3>3, <3>5
  <2> QED
    BY <2>7, <2>8, TwoMachines
<1>15. ASSUME HandlerStep("host"), ~h.game_started
       PROVE  Goal
  <2>1. h.todo # << >> /\ \E t : /\ pc' = [pc EXCEPT !["host"] = t] /\ MachineOK(t) /\ Keeps(h, t)
                                 /\ \E p : TakesNext(h, p) /\ (Still(h) => Listens(h, p, t))
    BY <1>15, HostUnstarted
  <2>2. PICK t : /\ pc' = [pc EXCEPT !["host"] = t] /\ MachineOK(t) /\ Keeps(h, t)
                 /\ \E p : TakesNext(h, p) /\ (Still(h) => Listens(h, p, t))
    BY <2>1
  <2>3. PICK p : TakesNext(h, p) /\ (Still(h) => Listens(h, p, t))
    BY <2>2
  <2>4. Tame("host", t) => Tame("host", h)
    BY <1>2, <1>3, <2>2, KeepsTame
  <2>5. T => Listens(h, p, t)
    BY <1>5, <1>15, <2>3
  <2>6. T => \A f \in Played : t[f] = h[f]
    <3>1. \A f \in Played : p[f] = h[f]
      BY <2>3 DEF TakesNext, Differ, Fields
    <3>2. Listens(h, p, t) => \A f \in Played : t[f] = p[f]
      BY DEF Listens, Differ, Fields
    <3> QED
      BY <2>5, <3>1, <3>2
  <2>7. T => HeapOK(t) /\ Safe(h, t)
    BY <1>7, <2>6
  <2>8. T /\ Strayed(c) => Alone(t, c)
    BY <1>2, <1>6, <1>15, <2>1, <2>2, <2>3, <2>5, AloneListens
  <2> HIDE DEF Goal, T, h, c
  <2> QED
    BY <1>9, <2>2, <2>4, <2>7, <2>8
<1>16. ASSUME NEW m \in Machines, HandlerStep(m)
       PROVE  Goal
  BY <1>14, <1>15, <1>16, TwoMachines
<1>17. ASSUME NEW m \in Machines, Deliver(m)
       PROVE  Goal
  <2> DEFINE k == pc'["host"]
             d == pc'["client"]
  <2>1. /\ Differ(pc[m], pc'[m], Registers) /\ pc'[m].tsr = pc[m].thr /\ pc'[m].thr = << >>
        /\ Differ(pc[Other(m)], pc'[Other(m)], {"rbr"}) /\ pc'[Other(m)].rbr = pc[m].tsr
        /\ pc[Other(m)].rbr = << >> /\ pc[m].tsr # << >>
    BY <1>17, Delivers
  <2>2. \/ Differ(h, k, Registers) /\ Differ(c, d, {"rbr"})
        \/ /\ c.tsr # << >> /\ h.rbr = << >>
           /\ Differ(c, d, Registers) /\ d.tsr = c.thr /\ d.thr = << >>
           /\ Differ(h, k, {"rbr"}) /\ k.rbr = c.tsr
    BY <2>1, TwoMachines
  <2> HIDE DEF h, c, k, d
  <2>3. \A f \in Played \cup {"max_buttons_size", "waited", "opened_VS", "mode", "todo"} :
          k[f] = h[f] /\ d[f] = c[f]
    BY <2>2 DEF Differ, Registers, Fields
  <2>4. /\ Tame("host", k) => Tame("host", h)
        /\ Tame("client", d) => Tame("client", c)
        /\ Strayed(d) => Strayed(c)
    BY <2>3 DEF Tame, Strayed
  <2>5. T => HeapOK(k) /\ Safe(h, k) /\ HeapOK(d) /\ Safe(c, d)
    BY <1>7, <1>8, <2>3
  <2>6. T /\ Strayed(d) => Alone(k, d)
    BY <1>6, <2>2, <2>4, AloneLine
  <2>7. d.game_started
    BY <1>1 DEF d
  <2>8. Tame("host", k) /\ Tame("client", d) => T
    BY <2>4
  <2> HIDE DEF T
  <2>9. HeapInv'
    BY <2>5, <2>6, <2>7, <2>8 DEF HeapInv, k, d
  <2>10. T => StepSafe
    BY <2>5 DEF StepSafe, h, c, k, d
  <2> QED
    BY <2>9, <2>10
<1>18. CASE Idle
  <2>1. pc' = pc
    BY <1>18 DEF Idle
  <2>2. T => Safe(h, h) /\ Safe(c, c)
    BY <1>7, <1>8
  <2> QED
    BY <2>1, <2>2 DEF HeapInv, StepSafe
<1> QED
  BY <1>12, <1>13, <1>16, <1>17, <1>18 DEF Next

\* In the first game of two computers, of a number of rounds the one byte can say, no
\* button is played into an array that is not allocated, and none is freed twice, as
\* long as the game is orderly.
THEOREM MemoryAlwaysSafe ==
  ASSUME Sessions <= 1, Rounds \subseteq 1..255
  PROVE  Spec => MemorySafe
<1>1. Init => HeapInv
  BY HeapInit
<1>2. ASSUME GameInv, HeapInv, Next
      PROVE  HeapInv' /\ (Orderly => StepSafe)
  <2>1. Orderly => Tame("host", pc["host"]) /\ Tame("client", pc["client"])
    BY TwoMachines DEF Orderly, Fits, Direct, Tame
  <2> QED
    BY <1>2, <2>1, SetUpHeap, PlayHeap DEF GameInv
<1>3. ASSUME GameInv, HeapInv, [Next]_pc PROVE HeapInv'
  BY <1>2, <1>3 DEF HeapInv
<1>4. ASSUME GameInv, HeapInv, [Next]_pc
      PROVE  [Orderly /\ pc["host"].max_buttons_size < 256 => \A m \in Machines :
                \/ pc'[m].guessed > pc[m].guessed
                \/ Len(pc'[m].buttons) > Len(pc[m].buttons)
                \/ pc'[m].heap = "freed twice"
                => pc[m].heap = "live"]_pc
  <2>1. CASE Next
    <3>1. Orderly => \A m \in Machines : Safe(pc[m], pc'[m])
      BY <1>2, <1>4, <2>1, TwoMachines DEF StepSafe
    <3> QED
      BY <3>1 DEF Safe
  <2> QED
    BY <1>4, <2>1
<1>5. Spec => []GameInv
  BY GameInvariant
<1>6. Spec => [](GameInv /\ HeapInv)
  BY <1>1, <1>3, <1>5, PTL DEF Spec
<1> QED
  BY <1>4, <1>6, PTL DEF Spec, MemorySafe
=============================================================================
