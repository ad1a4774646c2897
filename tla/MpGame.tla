------------------------------- MODULE MpGame -------------------------------
(***************************************************************************)
(* The game over a serial line (proj/mp_game.c): two computers, one that   *)
(* hosts and is player 1 and one that connects and is player 2, each with  *)
(* its own copy of the game, kept equal by one-byte messages.              *)
(*                                                                         *)
(* Each computer is a record: the statics of mp_game.c, the handlers its   *)
(* event loop still has to call for the current notification (todo) and    *)
(* the registers of its UART.  A handler is an operator from a record to   *)
(* the next one, or to a set of them where the outcome is not determined.  *)
(* Sending the new button and passing the turn are two steps of one        *)
(* handler, since the UART may move on between the two writes.             *)
(*                                                                         *)
(* Abstracted: what the screen shows lit; holding the mouse button and the *)
(* pointer's position (as in Game: a click is a new press on a button).    *)
(***************************************************************************)
EXTENDS Integers, Sequences, FiniteSets

CONSTANTS
  Colours,       \* the coloured buttons in use, from 0 (GREEN_B) to 4 (RED_B)
  Rounds,        \* the numbers of rounds the host may ask for
  INTERVAL, VS_INTERVAL,
  LowestScore,   \* what getLowestHiScore() returns
  Sessions,      \* bound of the model: games each computer enters
  MaxSequence,   \* bound of the model: longest sequence followed
  AtOnce,        \* bound of the model: interrupts in one notification
  SlowHandshake, \* the clock may tick before both computers have started the game
  SlowLine       \* player and clock may act while a byte is still being sent

ASSUME ColoursAssumption == Colours \subseteq 0..4
ASSUME RoundsAssumption == Rounds \subseteq 1..999
ASSUME IntervalAssumption == INTERVAL \in Nat \ {0} /\ VS_INTERVAL \in Nat \ {0}
ASSUME BoundsAssumption ==
  /\ LowestScore \in Nat /\ Sessions \in Nat /\ MaxSequence \in Nat /\ AtOnce \in Nat
  /\ SlowHandshake \in BOOLEAN /\ SlowLine \in BOOLEAN

VARIABLE pc

Machines == {"host", "client"}
Other(m) == IF m = "host" THEN "client" ELSE "host"

\* button_click_t
VS_B == 5
Buttons == Colours \cup {VS_B}

\* coms: the bytes on the line.  A button is GREEN_REMOTE + click.
ACK == 0
CONNECTED == 2
GREEN_REMOTE == 3
WHITE_REMOTE == 8
IS_VS == 9
IS_NOT_VS == 10
READY == 11
LOSE == 12
TIE_REMOTE == 13

\* Winners
WINNER1 == 0
WINNER2 == 1
TIE == 2

-----------------------------------------------------------------------------
(* The UART of one computer: thr and tsr hold a byte to send, rbr one that *)
(* arrived; thre is the interrupt raised when thr becomes empty.           *)

ThrEmpty(s) == s.thr = << >>

\* serial_write_byte: into thr, at once on to tsr if that is free.  A byte
\* written while thr is full is dropped.
Serial_write_byte(s, byte) ==
  IF ~ThrEmpty(s) THEN s
  ELSE IF s.tsr = << >> THEN [s EXCEPT !.tsr = <<byte>>, !.thre = TRUE]
  ELSE [s EXCEPT !.thr = <<byte>>, !.thre = FALSE]

\* How every message of a game is sent: now, or through the queue of one byte
\* (uart_set_queue) when thr is full.  waited is a history field.
Send(s, byte) ==
  IF ThrEmpty(s) THEN Serial_write_byte(s, byte)
  ELSE [s EXCEPT !.queue = <<byte>>, !.waited = TRUE]

\* uart_ready
Uart_ready(s) == Serial_write_byte([s EXCEPT !.queue = << >>], s.queue[1])

-----------------------------------------------------------------------------
(* Helpers of mp_game.c                                                    *)

\* It is this computer's turn: is_host == is_player_1.
MyTurn(m, s) == (m = "host") = s.is_player_1

\* mp_is_VS_round returns before its coin is thrown: every round is a VS round.
Mp_is_VS_round(s) == [s EXCEPT !.is_vs_round = TRUE, !.VS_was_pressed = FALSE]

\* Mutant: the player to move wins.
Mp_get_winner_swapped(s) == [s EXCEPT !.ws = IF s.is_player_1 THEN WINNER1 ELSE WINNER2]

\* mp_get_winner
Mp_get_winner(s) == [s EXCEPT !.ws = IF s.is_player_1 THEN WINNER2 ELSE WINNER1]

\* mp_end_game
Mp_end_game(s) ==
  [s EXCEPT !.game_end = TRUE, !.alarm = "timed",
            !.heap = CASE s.heap = "live" -> "freed"
                       [] s.heap = "null" -> "null"
                       [] OTHER           -> "freed twice"]

\* Mutant: a loss is not sent.
Mp_send_winner_tieOnly(s) == IF s.ws = TIE THEN Send(s, TIE_REMOTE) ELSE s

\* mp_send_winner
Mp_send_winner(s) == Send(s, IF s.ws = TIE THEN TIE_REMOTE ELSE LOSE)

\* mp_add_button and mp_send_button
Mp_add_button(s, click)  == [s EXCEPT !.buttons = Append(@, click)]
Mp_send_button(s, click) == Send(s, GREEN_REMOTE + click)

\* The turn starts or ends here: the sequence is repeated from its beginning.
PassTurn(s) == [s EXCEPT !.is_player_1 = ~@, !.guessed = 0]

\* Mutant: the player keeps the turn while the other one gets it.
Mp_change_player_keepsTurn(m, s) ==
  LET t == [s EXCEPT !.guessed = 0] IN
  IF m = "host" THEN Send(Mp_is_VS_round(t), IS_VS) ELSE Send(t, READY)

\* Mutant: the client gives up the turn without saying so.
Mp_change_player_silent(m, s) ==
  LET t == PassTurn(s) IN IF m = "host" THEN Send(Mp_is_VS_round(t), IS_VS) ELSE t

\* mp_change_player: the host also decides what the next round is.
Mp_change_player(m, s) ==
  LET t == PassTurn(s) IN
  IF m = "host"
  THEN LET v == Mp_is_VS_round(t) IN Send(v, IF v.is_vs_round THEN IS_VS ELSE IS_NOT_VS)
  ELSE Send(t, READY)

\* The rest of the current handler: change the player before anything else.
ThenChangePlayer(s) == [s EXCEPT !.todo = <<"change_player">> \o @]

\* The way out of a finished game, mp_checkNewHiScore included.
LeaveGame(s) ==
  [s EXCEPT !.mode = IF s.ws # TIE /\ s.player_score > LowestScore
                     THEN "HIGHSCORE" ELSE "LEADERBOARD"]

\* mp_reset_game
Mp_reset_game(s, num_rounds) ==
  Mp_is_VS_round([s EXCEPT !.max_buttons_size = num_rounds, !.buttons = << >>,
                           !.heap = "live", !.player_score = 0, !.guessed = 0,
                           !.is_player_1 = TRUE, !.game_end = FALSE,
                           !.time_left_for_click = -1])

-----------------------------------------------------------------------------
(* Clicks                                                                  *)

Adding(s) == s.guessed = Len(s.buttons) \/ s.VS_was_pressed

SetScore(s) ==
  [s EXCEPT !.player_score = IF s.guessed = Len(s.buttons) THEN Len(s.buttons) ELSE @]

\* The answers buttons[guessed] == click may give: past the reserved entries
\* the array holds whatever else the heap keeps there.
Matches(s, click) ==
  IF s.guessed < s.max_buttons_size THEN {s.buttons[s.guessed + 1] = click} ELSE BOOLEAN

\* A new button in the player's own turn.
AddOwn(s, click) ==
  LET added == Mp_send_button(Mp_add_button(s, click), click) IN
  IF s.is_vs_round /\ s.VS_was_pressed THEN added
  ELSE IF s.is_vs_round /\ click = VS_B
       THEN [added EXCEPT !.VS_was_pressed = TRUE, !.time_left_for_click = VS_INTERVAL,
                          !.opened_VS = TRUE]
       ELSE ThenChangePlayer(added)

\* The next button of the sequence in the player's own turn.
Repeat(s, click) ==
  LET sent == Mp_send_button(s, click) IN
  [sent EXCEPT !.guessed = @ + 1,
               !.time_left_for_click = IF s.guessed + 1 = Len(s.buttons) THEN -1
                                       ELSE INTERVAL]

\* mp_click_button
Mp_click_button(s, click) ==
  IF Adding(s)
  THEN LET t == SetScore(s) IN
       {IF s.guessed = s.max_buttons_size
        THEN Mp_send_winner(Mp_end_game([t EXCEPT !.ws = TIE]))
        ELSE AddOwn(t, click)}
  ELSE {IF right THEN Repeat(s, click)
        ELSE Mp_end_game(Mp_send_winner(Mp_get_winner(s))) : right \in Matches(s, click)}

\* Mutant: the other player's VS is added like any button.
Mp_remote_click_button_noVS(s, click) ==
  IF Adding(s)
  THEN LET t == SetScore(s) IN
       {IF s.guessed = s.max_buttons_size THEN Mp_end_game([t EXCEPT !.ws = TIE])
        ELSE Mp_add_button(t, click)}
  ELSE {IF right THEN [s EXCEPT !.guessed = @ + 1] ELSE s : right \in Matches(s, click)}

\* mp_remote_click_button: what the other computer did, without an answer.
Mp_remote_click_button(s, click) ==
  IF Adding(s)
  THEN LET t == SetScore(s) IN
       {IF s.guessed = s.max_buttons_size THEN Mp_end_game([t EXCEPT !.ws = TIE])
        ELSE Mp_add_button([t EXCEPT !.VS_was_pressed = @ \/ (s.is_vs_round /\ click = VS_B)],
                           click)}
  ELSE {IF right THEN [s EXCEPT !.guessed = @ + 1] ELSE s : right \in Matches(s, click)}

\* mp_buttons_handler, as play_game calls it with a received click
Mp_buttons_handler(m, s, click) ==
  IF MyTurn(m, s) THEN Mp_click_button(s, click) ELSE Mp_remote_click_button(s, click)

-----------------------------------------------------------------------------
(* Handlers                                                                *)

\* Mutant: a click counts after the end of the game too.
TakesClicks_afterEnd(m, s) == s.game_started /\ MyTurn(m, s)

\* A click counts in a running game, in one's own turn.
TakesClicks(m, s) == ~s.game_end /\ s.game_started /\ MyTurn(m, s)

\* mp_game_update_status_mouse with a new press
OnMouse(m, s, click) == IF TakesClicks(m, s) THEN Mp_click_button(s, click) ELSE {s}

\* mp_game_update_status_key with ENTER
OnKey(s) == IF s.game_end THEN LeaveGame(s) ELSE s

\* The clock runs for the player to move; whether the game has started is not
\* looked at.
CountsDown(m, s) == MyTurn(m, s) /\ ~s.game_end

\* mp_game_update_status_rtc.  The player out of time stays on the winner
\* screen until the next alarm.
OnRtc(m, s) ==
  LET counts == CountsDown(m, s)
      timeUp == s.time_left_for_click = 0
      leave(t) == IF t.game_end THEN LeaveGame([t EXCEPT !.alarm = "seconds"]) ELSE t
  IN  CASE counts /\ timeUp /\ ~s.VS_was_pressed ->
             Mp_end_game(Mp_send_winner(Mp_get_winner(s)))
        [] counts /\ timeUp /\ s.VS_was_pressed /\ s.is_vs_round ->
             leave(Mp_change_player(m, s))
        [] counts /\ s.time_left_for_click > 0 ->
             leave([s EXCEPT !.time_left_for_click = @ - 1])
        [] OTHER -> leave(s)

\* Mutant: the second byte is not sent.
MoreBytes_one(s) == s.num_round_sent_bytes < 1

\* Not all of max_buttons_size has been sent.
MoreBytes(s) == s.num_round_sent_bytes < 2

\* Mutant: the first byte is the high one.
RoundsByte_highFirst(s) == (s.max_buttons_size % 256) \div (256 ^ (1 - s.num_round_sent_bytes))

\* ((uint8_t)max_buttons_size) >> (8 * num_round_sent_bytes)
RoundsByte(s) == (s.max_buttons_size % 256) \div (256 ^ s.num_round_sent_bytes)

\* start_game on the host: the number of rounds goes out in two bytes, the
\* first of which is all a uint8_t cast leaves of it.
HostStart(s, data) ==
  LET sends == data = CONNECTED /\ MoreBytes(s) /\ ThrEmpty(s)
      t     == IF sends
               THEN Serial_write_byte([s EXCEPT !.num_round_sent_bytes = @ + 1], RoundsByte(s))
               ELSE s
  IN  [t EXCEPT !.game_started = @ \/ data = ACK]

\* start_game on the client
Acknowledge(s) == [Serial_write_byte(s, ACK) EXCEPT !.game_started = TRUE]

ClientStart(s, data, empty_thr) ==
  IF empty_thr
  THEN IF s.received_no_bytes = 2 THEN Acknowledge(s) ELSE s
  ELSE LET t == [s EXCEPT !.received_no_bytes = @ + 1] IN
       IF s.received_no_bytes = 0 THEN [t EXCEPT !.received_byte = data]
       ELSE LET u == Mp_reset_game(t, data * 256 + s.received_byte)
            IN  IF ThrEmpty(u) THEN Acknowledge(u) ELSE u

\* Mutant: the other player's VS interval goes on.
BeginTurn_keepsVS(s, vs) ==
  [PassTurn(s) EXCEPT !.is_vs_round = vs, !.time_left_for_click = INTERVAL]

\* play_game: the turn comes to this computer.
BeginTurn(s, vs) ==
  [PassTurn(s) EXCEPT !.is_vs_round = vs, !.VS_was_pressed = FALSE,
                      !.time_left_for_click = INTERVAL]

\* play_game
Play_game(m, s, data) ==
  CASE data \in GREEN_REMOTE..WHITE_REMOTE -> Mp_buttons_handler(m, s, data - GREEN_REMOTE)
    [] data = IS_VS     -> {BeginTurn(s, TRUE)}
    [] data = IS_NOT_VS -> {BeginTurn(s, FALSE)}
    [] data = READY     -> {BeginTurn(s, Mp_is_VS_round(s).is_vs_round)}
    [] data = LOSE      -> {Mp_end_game([s EXCEPT !.ws = IF m = "host" THEN WINNER1
                                                         ELSE WINNER2])}
    [] data = TIE       -> {Mp_end_game([s EXCEPT !.ws = TIE])}
    [] OTHER            -> {s}

\* mp_game_update_status_uart with what uart_handler found: a byte or, -1,
\* the empty thr.
OnUart(m, s, data) ==
  CASE data >= 0 /\ ~s.game_started ->
         {IF m = "host" THEN HostStart(s, data) ELSE ClientStart(s, data, FALSE)}
    [] data >= 0 /\ s.game_started -> Play_game(m, s, data)
    [] data < 0 /\ ~s.game_started ->
         {IF m = "host" THEN HostStart(s, CONNECTED) ELSE ClientStart(s, CONNECTED, TRUE)}
    [] OTHER -> {IF s.queue # << >> THEN Uart_ready(s) ELSE s}

-----------------------------------------------------------------------------
(* Steps                                                                   *)

\* host_mp_game, from the number-of-rounds screen
Host_mp_game(num_rounds) ==
  LET s == pc["host"] IN
  /\ s.mode # "MP_GAME" /\ s.todo = << >> /\ s.sessions < Sessions
  /\ pc' = [pc EXCEPT !["host"] =
              [Mp_reset_game(s, num_rounds) EXCEPT
                 !.mode = "MP_GAME", !.game_started = FALSE, !.queue = << >>,
                 !.sessions = @ + 1]]

\* connect_mp_game, from the host-or-connect screen
Connect_mp_game ==
  LET s == pc["client"] IN
  /\ s.mode # "MP_GAME" /\ s.todo = << >> /\ s.sessions < Sessions
  /\ pc' = [pc EXCEPT !["client"] =
              [Serial_write_byte([s EXCEPT !.is_player_1 = FALSE], CONNECTED) EXCEPT
                 !.mode = "MP_GAME", !.game_started = FALSE, !.queue = << >>,
                 !.sessions = @ + 1]]

\* uart_handler as run() calls it: one cause, a received byte first.
UartCause(s) == IF s.rbr # << >> THEN s.rbr[1] ELSE -1
UartRead(s) == IF s.rbr # << >> THEN [s EXCEPT !.rbr = << >>] ELSE [s EXCEPT !.thre = FALSE]
UartInterrupt(s) == s.rbr # << >> \/ s.thre

\* The handlers of a notification, in the order event_handler calls them.
Task(h, hs) == IF h \in hs THEN <<h>> ELSE << >>
Tasks(hs) == Task("key", hs) \o Task("mouse", hs) \o Task("rtc", hs) \o Task("uart", hs)

\* run: a notification while the game is on screen.  In a fast handshake the
\* game has started before the clock ticks; on a fast line the bytes of one
\* handler have left before the next packet of the mouse or the next tick.
Notify(m, hs) ==
  LET s == pc[m] IN
  /\ s.mode = "MP_GAME" /\ s.todo = << >>
  /\ "uart" \in hs => UartInterrupt(s)
  /\ "rtc" \in hs => SlowHandshake \/ s.game_started
  /\ hs \cap {"mouse", "rtc"} # {} => SlowLine \/ (s.tsr = << >> /\ s.thr = << >>)
  /\ pc' = [pc EXCEPT ![m] =
              IF "uart" \in hs
              THEN [UartRead(s) EXCEPT !.todo = Tasks(hs), !.data = UartCause(s)]
              ELSE [s EXCEPT !.todo = Tasks(hs)]]

\* The same on any other screen, where event_handler ignores the UART.
IgnoreUart(m) ==
  LET s == pc[m] IN
  /\ s.mode # "MP_GAME" /\ s.todo = << >> /\ UartInterrupt(s)
  /\ pc' = [pc EXCEPT ![m] = UartRead(s)]

\* One handler of the notification.
Runs(m, task) == pc[m].todo # << >> /\ Head(pc[m].todo) = task
Popped(m) == [pc[m] EXCEPT !.todo = Tail(@)]
Becomes(m, s) == pc' = [pc EXCEPT ![m] = s]

KeyStep(m) == Runs(m, "key") /\ Becomes(m, OnKey(Popped(m)))

\* A packet is a new press on a button, or nothing; MaxSequence leaves out the
\* presses that would make the sequence longer.
MouseStep(m) ==
  /\ Runs(m, "mouse")
  /\ \/ Becomes(m, Popped(m))
     \/ \E click \in Buttons : \E s \in OnMouse(m, Popped(m), click) :
          Len(s.buttons) <= MaxSequence /\ Becomes(m, s)

RtcStep(m) == Runs(m, "rtc") /\ Becomes(m, OnRtc(m, Popped(m)))

UartStep(m) ==
  /\ Runs(m, "uart")
  /\ \E s \in OnUart(m, [Popped(m) EXCEPT !.data = -1], pc[m].data) : Becomes(m, s)

ChangePlayerStep(m) == Runs(m, "change_player") /\ Becomes(m, Mp_change_player(m, Popped(m)))

\* The line: a byte leaves tsr and arrives, and thr moves up.  The receiver has
\* read the byte before.
Deliver(m) ==
  LET s == pc[m] IN
  /\ s.tsr # << >>
  /\ pc[Other(m)].rbr = << >>
  /\ pc' = [pc EXCEPT ![m] = [s EXCEPT !.tsr = s.thr, !.thr = << >>,
                                       !.thre = @ \/ s.thr # << >>],
                      ![Other(m)].rbr = s.tsr]

\* Both computers are on other screens, which do not concern the game.
Idle == (\A m \in Machines : pc[m].mode # "MP_GAME") /\ UNCHANGED pc

\* The statics are zero; the menu is up; run() has set the alarm to seconds and
\* emptied the UART.
Init ==
  pc = [m \in Machines |->
          [mode |-> "MENU", game_started |-> FALSE, game_end |-> FALSE, is_player_1 |-> FALSE,
           buttons |-> << >>, max_buttons_size |-> 0, guessed |-> 0,
           time_left_for_click |-> 0, VS_was_pressed |-> FALSE, is_vs_round |-> FALSE,
           ws |-> WINNER1, player_score |-> 0, heap |-> "null", alarm |-> "seconds",
           received_no_bytes |-> 0, num_round_sent_bytes |-> 0, received_byte |-> 0,
           queue |-> << >>, waited |-> FALSE, opened_VS |-> FALSE,
           data |-> -1, todo |-> << >>, sessions |-> 0,
           thr |-> << >>, tsr |-> << >>, rbr |-> << >>, thre |-> FALSE]]

Notifications ==
  {hs \in SUBSET {"key", "mouse", "rtc", "uart"} : Cardinality(hs) \in 1..AtOnce}
HandlerStep(m) ==
  KeyStep(m) \/ MouseStep(m) \/ RtcStep(m) \/ UartStep(m) \/ ChangePlayerStep(m)
NotifyWith(m, h) == \E hs \in Notifications : h \in hs /\ Notify(m, hs)

Next ==
  \/ \E n \in Rounds : Host_mp_game(n)
  \/ Connect_mp_game
  \/ \E m \in Machines :
       \/ \E hs \in Notifications : Notify(m, hs)
       \/ HandlerStep(m)
       \/ IgnoreUart(m)
       \/ Deliver(m)
  \/ Idle

\* Every handler ends, the line delivers, and an interrupt that stays pending
\* or, for the RTC, keeps coming back is at last notified.
Fairness ==
  \A m \in Machines :
    /\ WF_pc(HandlerStep(m)) /\ WF_pc(Deliver(m)) /\ WF_pc(IgnoreUart(m))
    /\ SF_pc(NotifyWith(m, "uart")) /\ SF_pc(NotifyWith(m, "rtc"))

Spec == Init /\ [][Next]_pc
FairSpec == Spec /\ Fairness

-----------------------------------------------------------------------------
(* Properties                                                              *)

Active(m) == pc[m].mode = "MP_GAME" /\ pc[m].game_started /\ ~pc[m].game_end
BothActive == \A m \in Machines : Active(m)
HasTurn(m) == MyTurn(m, pc[m])

\* No byte is on its way and no handler is due.
Quiet ==
  \A m \in Machines :
    /\ pc[m].todo = << >> /\ pc[m].queue = << >>
    /\ pc[m].thr = << >> /\ pc[m].tsr = << >> /\ pc[m].rbr = << >>

\* Neither array has been written past its end.
Fits == \A m \in Machines : Len(pc[m].buttons) <= pc[m].max_buttons_size

\* No message had to wait in the queue, where the next one can overtake or
\* replace it.
Direct == \A m \in Machines : ~pc[m].waited

\* The game stays within what the protocol can keep equal: the client has not
\* opened a VS interval either.
Orderly == Fits /\ Direct /\ ~pc["client"].opened_VS

\* The two computers never both take it for their own turn, so a click or a
\* timeout counts on one of them only.
TurnExclusion == BothActive => ~(HasTurn("host") /\ HasTurn("client"))

\* What happens on one machine happens on the other: while bytes are still on
\* their way one sequence is a beginning of the other.
SequencesMirror ==
  BothActive /\ Orderly =>
    LET h == pc["host"].buttons
        c == pc["client"].buttons
    IN  \/ Len(c) <= Len(h) /\ c = SubSeq(h, 1, Len(c))
        \/ Len(h) <= Len(c) /\ h = SubSeq(c, 1, Len(h))

\* Once nothing is on its way any more, both computers are in the same game:
\* same sequence, same progress, same turn, same VS interval, same score.
GamesAgree ==
  BothActive /\ Quiet /\ Orderly =>
    LET h == pc["host"]
        c == pc["client"]
    IN  /\ h.buttons = c.buttons /\ h.guessed = c.guessed
        /\ h.is_player_1 = c.is_player_1 /\ h.VS_was_pressed = c.VS_was_pressed
        /\ h.is_vs_round = c.is_vs_round /\ h.player_score = c.player_score

\* Two finished games name the same winner, with the same score.
SameResult ==
  Orderly /\ (\A m \in Machines : pc[m].game_started /\ pc[m].game_end) =>
    pc["host"].ws = pc["client"].ws /\ pc["host"].player_score = pc["client"].player_score

\* play_game does not look at game_end; still, in an orderly game no button arrives
\* for an array that is not allocated or no longer, and no path to mp_end_game frees
\* it once more: as long as the number of rounds fits the byte it is sent in.  Above,
\* the client ends the game by itself and again with the next button of a VS interval;
\* and so may the host, whose sequence is the shorter one after a VS interval of the
\* client.
MemorySafe ==
  [][Orderly /\ pc["host"].max_buttons_size < 256 => \A m \in Machines :
       \/ pc'[m].guessed > pc[m].guessed
       \/ Len(pc'[m].buttons) > Len(pc[m].buttons)
       \/ pc'[m].heap = "freed twice"
       => pc[m].heap = "live"]_pc

\* In the first game of two computers the client's game starts with the
\* number of rounds the host has, as far as the one byte that is really sent can
\* say it, with an empty sequence, memory for it and no result.
StartsAsAtFirst ==
  [][LET s == pc["client"]
         t == pc'["client"]
     IN  ~s.game_started /\ t.game_started =>
           /\ t.max_buttons_size = pc["host"].max_buttons_size % 256
           /\ t.buttons = << >> /\ t.heap = "live" /\ ~t.game_end]_pc

\* The turn is not lost on the line: someone gets it or the game ends.
TurnArrives ==
  (BothActive /\ ~HasTurn("host") /\ ~HasTurn("client")) ~>
    (HasTurn("host") \/ HasTurn("client") \/ ~BothActive)

\* Whoever loses, by a mistake or out of time, the other computer hears of it.
LossReported ==
  \A m \in Machines :
    (pc[m].game_started /\ pc[m].game_end /\ pc[m].ws # TIE) ~> pc[Other(m)].game_end

\* A client that connects while the host waits gets its game, unless it has
\* left the waiting screen.
ConnectionMade ==
  (/\ pc["host"].mode = "MP_GAME" /\ ~pc["host"].game_started
   /\ pc["client"].mode = "MP_GAME" /\ pc["client"].tsr = <<CONNECTED>>) ~>
    (\/ pc["host"].game_started /\ pc["client"].game_started
     \/ pc["client"].mode # "MP_GAME")

-----------------------------------------------------------------------------
(* What the repository says of the program and the code does not do        *)

\* mp_game.h: mp_send_winner tells the other player of a tie.
TieReported ==
  \A m \in Machines :
    (pc[m].game_started /\ pc[m].game_end /\ pc[m].ws = TIE) ~> pc[Other(m)].game_end

\* mp_game.c: when LOSE arrives, each player already has the score.
EachHasTheScore ==
  Fits /\ (\A m \in Machines : pc[m].game_started /\ pc[m].game_end /\ pc[m].ws # TIE) =>
    pc["host"].player_score = pc["client"].player_score
=============================================================================
