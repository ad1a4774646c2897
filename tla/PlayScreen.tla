----------------------------- MODULE PlayScreen -----------------------------
(***************************************************************************)
(* The play screen of a game over the serial line (proj/mp_game.c): the    *)
(* pointer, the button under it, what is a click, what is lit and for how  *)
(* long, and the number of the round.  game.c has the same pointer, buttons *)
(* and number, function by function.                                       *)
(*                                                                         *)
(* Abstracted: the rules of the game, which MpGame has, to what they may   *)
(* do to the turn and to the end; the images, which button is lit included. *)
(***************************************************************************)
EXTENDS Integers, Sequences, FiniteSets, FiniteSetsExt

CONSTANTS
  WIDTH, HEIGHT,               \* of the screen: 800 and 600
  MOUSE_WIDTH, MOUSE_HEIGHT,   \* of the pointer: 42 and 44
  Centre,                      \* the centre of each button
  BUTTON_WIDTH,                \* their radius: 89
  TIMER_BUTTON_MP,             \* timer interrupts a button stays lit: 12
  Moves,                       \* movements a packet may have, as a byte and a sign
  AtOnce                       \* bound of the model: interrupts in one notification

UINT16_MAX == 65535

ASSUME ScreenAssumption ==
  /\ {WIDTH, HEIGHT, MOUSE_WIDTH, MOUSE_HEIGHT} \subseteq Nat
  /\ 2 <= WIDTH /\ WIDTH <= UINT16_MAX /\ 2 * MOUSE_WIDTH <= WIDTH
  /\ 2 <= HEIGHT /\ HEIGHT <= UINT16_MAX /\ 2 * MOUSE_HEIGHT <= HEIGHT
ASSUME TimerAssumption == TIMER_BUTTON_MP \in Nat
ASSUME MovesAssumption == Moves \subseteq (0..255) \X BOOLEAN
ASSUME AtOnceAssumption == AtOnce \in Nat

NO_BUTTON == "NO_BUTTON"

VARIABLES
  on,                      \* game.mode is MP_GAME
  pend,                    \* handlers still to be called for this notification
  game_started, game_end,
  my_turn,                 \* is_host == is_player_1
  mp_mouse,                \* x_pos, y_pos, left_hold, left_click
  ps,                      \* "DEFAULT": dark, or "LIT": a button is lit
  time_left_for_screen,
  shown,                   \* history: timer interrupts since it was lit
  counted                  \* history: clicks since the left button last went up

flags  == <<game_started, game_end, my_turn>>
lights == <<ps, time_left_for_screen, shown>>
vars   == <<on, pend, flags, mp_mouse, lights, counted>>

-----------------------------------------------------------------------------
(* The pointer                                                             *)

\* cpl2_9_to_16: a movement is a byte and a sign.
Cpl2_9_to_16(value, sign_bit) == IF sign_bit THEN value - 256 ELSE value

MaxX == WIDTH - MOUSE_WIDTH
MaxY == HEIGHT - MOUSE_HEIGHT

\* Mutant: a movement beyond the left or upper edge is not looked for.
Moved_oneEdge(pos, delta, max) ==
  IF pos + delta >= max THEN max ELSE (pos + delta) % 65536

\* A coordinate after a movement: at the edges of the screen it stops, at the
\* left and upper ones one short of it.
Moved(pos, delta, max) ==
  CASE pos < -delta -> 1
    [] pos >= -delta /\ pos + delta >= max -> max
    [] OTHER -> pos + delta

\* The order in which mp_get_button_click asks for the buttons.
Asked == <<"RED_B", "GREEN_B", "PURPLE_B", "BLUE_B", "YELLOW_B", "VS_B">>
Buttons == {Asked[i] : i \in DOMAIN Asked}

\* The buttons are discs that do not touch, but for RED_B and VS_B.
ASSUME LayoutAssumption ==
  /\ BUTTON_WIDTH \in Nat /\ Centre \in [Buttons -> [x : Int, y : Int]]
  /\ \A b, c \in Buttons : b # c /\ {b, c} # {"RED_B", "VS_B"} =>
       (Centre[b].x - Centre[c].x) * (Centre[b].x - Centre[c].x)
         + (Centre[b].y - Centre[c].y) * (Centre[b].y - Centre[c].y)
         > 4 * BUTTON_WIDTH * BUTTON_WIDTH

\* mp_get_red_click and the other five
Over(b, x, y) ==
  (x - Centre[b].x) * (x - Centre[b].x) + (y - Centre[b].y) * (y - Centre[b].y)
    <= BUTTON_WIDTH * BUTTON_WIDTH

\* The places in Asked of the buttons the pointer is over.
Hits(x, y) == {i \in DOMAIN Asked : Over(Asked[i], x, y)}

\* Mutant: a button that was asked for before still counts.
Mp_get_button_click_last(x, y) ==
  IF Hits(x, y) = {} THEN NO_BUTTON ELSE Asked[Max(Hits(x, y))]

\* mp_get_button_click: the first one asked for.
Mp_get_button_click(x, y) ==
  IF Hits(x, y) = {} THEN NO_BUTTON ELSE Asked[Min(Hits(x, y))]

-----------------------------------------------------------------------------
(* The number of the round                                                 *)

\* The digits of a number, the last one first.
Backwards(n) ==
  LET size == CHOOSE s \in 0..3 : n < 10 ^ s /\ (s = 0 \/ n >= 10 ^ (s - 1))
  IN  [i \in 1..size |-> (n \div 10 ^ (i - 1)) % 10]

\* Mutant: two digits are not exchanged.
Mp_draw_round_threeOnly(n) ==
  LET chars == Backwards(n) IN
  CASE chars = << >>    -> <<0>>
    [] Len(chars) = 3   -> <<chars[3], chars[2], chars[1]>>
    [] OTHER            -> chars

\* mp_draw_round: the text for n buttons on record, at most 999.
Mp_draw_round(n) ==
  LET chars == Backwards(n) IN
  CASE chars = << >>    -> <<0>>
    [] Len(chars) = 2   -> <<chars[2], chars[1]>>
    [] Len(chars) = 3   -> <<chars[3], chars[2], chars[1]>>
    [] OTHER            -> chars

-----------------------------------------------------------------------------
(* Clicks and lights                                                       *)

\* mp_click_button: a click of the player who has the turn repeats or adds a
\* button, gives up the turn, or ends the game.
Mp_click_button ==
  \/ UNCHANGED flags
  \/ game_end' = TRUE /\ UNCHANGED <<game_started, my_turn>>
  \/ my_turn' = FALSE /\ UNCHANGED <<game_started, game_end>>

\* mp_remote_click_button: one of the other player, as this computer hears of it.
Mp_remote_click_button ==
  \/ UNCHANGED flags
  \/ game_end' = TRUE /\ UNCHANGED <<game_started, my_turn>>

\* Mutant: the time of the last button goes on.
Mp_light_button_keepsTime ==
  /\ ps' = "LIT" /\ shown' = 0
  /\ UNCHANGED time_left_for_screen

\* mp_light_button, and the time mp_buttons_handler gives it.
Mp_light_button ==
  /\ ps' = "LIT" /\ shown' = 0
  /\ time_left_for_screen' = TIMER_BUTTON_MP

\* mp_buttons_handler: a click is handled as one's own in one's own turn.
Mp_buttons_handler(click) ==
  IF click = NO_BUTTON THEN UNCHANGED <<flags, lights>>
  ELSE (IF my_turn THEN Mp_click_button ELSE Mp_remote_click_button) /\ Mp_light_button

\* The handler h is the next one event_handler calls.
Called(h, before) ==
  /\ h \in pend
  /\ pend \cap before = {}
  /\ pend' = pend \ {h}

\* The pointer after a packet.
Point(packet) ==
  [x |-> IF packet.x_ov THEN mp_mouse.x_pos ELSE Moved(mp_mouse.x_pos, packet.delta_x, MaxX),
   y |-> IF packet.y_ov THEN mp_mouse.y_pos ELSE Moved(mp_mouse.y_pos, -packet.delta_y, MaxY)]

\* mp_game_update_status_mouse; mp_click_button takes back left_click when there
\* is no button under the pointer.
Update_status_mouse(packet) ==
  LET at    == Point(packet)
      press == packet.lb /\ ~mp_mouse.left_hold
      click == IF press THEN Mp_get_button_click(at.x, at.y) ELSE NO_BUTTON
  IN  /\ Called("mouse", {"key"})
      /\ IF game_started /\ ~game_end
         THEN /\ mp_mouse' = [x_pos |-> at.x, y_pos |-> at.y, left_hold |-> packet.lb,
                              left_click |-> press /\ (my_turn => click # NO_BUTTON)]
              /\ IF my_turn THEN Mp_buttons_handler(click) ELSE UNCHANGED <<flags, lights>>
              /\ counted' = IF ~packet.lb THEN 0
                            ELSE IF my_turn /\ click # NO_BUTTON THEN counted + 1 ELSE counted
         ELSE UNCHANGED <<flags, lights, mp_mouse, counted>>
      /\ UNCHANGED on

\* Mutant: the press is forgotten with the click.
AfterTick_noHold == [mp_mouse EXCEPT !.left_click = FALSE, !.left_hold = FALSE]

\* A click is over with the next frame, a press is not.
AfterTick == [mp_mouse EXCEPT !.left_click = FALSE]

GoesOut == time_left_for_screen = 0

\* Mutant: the early return of the mouse handler.
Update_status_timer_playing ==
  /\ Called("timer", {"key", "mouse"})
  /\ IF ~game_end
     THEN /\ mp_mouse' = AfterTick
          /\ IF GoesOut
             THEN ps' = "DEFAULT" /\ shown' = 0 /\ UNCHANGED time_left_for_screen
             ELSE /\ time_left_for_screen' = time_left_for_screen - 1
                  /\ shown' = IF ps = "DEFAULT" THEN 0 ELSE shown + 1
                  /\ UNCHANGED ps
     ELSE UNCHANGED <<mp_mouse, lights>>
  /\ UNCHANGED <<on, flags, counted>>

\* mp_game_update_status_timer
Update_status_timer ==
  /\ Called("timer", {"key", "mouse"})
  /\ mp_mouse' = AfterTick
  /\ IF GoesOut
     THEN ps' = "DEFAULT" /\ shown' = 0 /\ UNCHANGED time_left_for_screen
     ELSE /\ time_left_for_screen' = time_left_for_screen - 1
          /\ shown' = IF ps = "DEFAULT" THEN 0 ELSE shown + 1
          /\ UNCHANGED ps
  /\ UNCHANGED <<on, flags, counted>>

\* mp_game_update_status_key and _rtc: a game that is over is left; the clock may
\* end it, or the turn with a VS interval.
Update_status_key ==
  /\ Called("key", {})
  /\ on' \in IF game_end THEN {FALSE, on} ELSE {on}
  /\ UNCHANGED <<flags, mp_mouse, lights, counted>>

Update_status_rtc ==
  /\ Called("rtc", {"key", "mouse", "timer"})
  /\ \/ game_end /\ on' = FALSE /\ UNCHANGED flags
     \/ ~game_end /\ UNCHANGED <<on, flags>>
     \/ ~game_end /\ my_turn /\ game_end' = TRUE /\ UNCHANGED <<on, game_started, my_turn>>
     \/ ~game_end /\ my_turn /\ my_turn' = FALSE /\ UNCHANGED <<on, game_started, game_end>>
  /\ UNCHANGED <<mp_mouse, lights, counted>>

-----------------------------------------------------------------------------
(* The start of a game, and the bytes                                      *)

\* mp_reset_game, as far as this screen goes.
Mp_reset_game ==
  /\ mp_mouse' = [x_pos |-> WIDTH \div 2, y_pos |-> HEIGHT \div 2,
                  left_hold |-> FALSE, left_click |-> FALSE]
  /\ game_end' = FALSE
  /\ ps' = "DEFAULT" /\ time_left_for_screen' = 0
  /\ shown' = 0 /\ counted' = 0

\* host_mp_game and connect_mp_game, which does not reset the game.
Enter ==
  /\ ~on /\ pend = {}
  /\ on' = TRUE /\ game_started' = FALSE
  /\ \/ Mp_reset_game /\ my_turn' = TRUE
     \/ my_turn' = TRUE /\ UNCHANGED <<game_end, mp_mouse, lights, counted>>
  /\ UNCHANGED pend

\* start_game: nothing yet; the game starts; or the client's game is reset, and
\* starts if the THR is empty.
Start_game ==
  \/ UNCHANGED <<flags, mp_mouse, lights, counted>>
  \/ /\ game_started' = TRUE
     /\ UNCHANGED <<game_end, my_turn, mp_mouse, lights, counted>>
  \/ /\ Mp_reset_game /\ my_turn' = FALSE /\ game_started' \in BOOLEAN

\* play_game: a button, the turn, the end, or nothing.
Play_game ==
  \/ \E click \in Buttons : Mp_buttons_handler(click)
  \/ /\ my_turn' = ~my_turn
     /\ UNCHANGED <<game_started, game_end, lights>>
  \/ /\ game_end' = TRUE
     /\ UNCHANGED <<game_started, my_turn, lights>>
  \/ UNCHANGED <<flags, lights>>

\* mp_game_update_status_uart
Update_status_uart ==
  /\ Called("uart", {"key", "mouse", "timer", "rtc"})
  /\ IF game_started THEN Play_game /\ UNCHANGED <<mp_mouse, counted>> ELSE Start_game
  /\ UNCHANGED on

\* run: a notification while the game is on screen.
Handlers == {"key", "mouse", "timer", "rtc", "uart"}
Notify(hs) ==
  /\ on /\ pend = {}
  /\ pend' = hs
  /\ UNCHANGED <<on, flags, mp_mouse, lights, counted>>

\* What a packet may say.
Packets ==
  LET deltas == {Cpl2_9_to_16(move[1], move[2]) : move \in Moves} IN
  [lb : BOOLEAN, x_ov : BOOLEAN, y_ov : BOOLEAN, delta_x : deltas, delta_y : deltas]

Notifications == {hs \in SUBSET Handlers : Cardinality(hs) \in 1..AtOnce}

Init ==
  /\ on = FALSE /\ pend = {}
  /\ game_started = FALSE /\ game_end = FALSE /\ my_turn = TRUE
  /\ mp_mouse = [x_pos |-> 0, y_pos |-> 0, left_hold |-> FALSE, left_click |-> FALSE]
  /\ ps = "DEFAULT" /\ time_left_for_screen = 0
  /\ shown = 0 /\ counted = 0

HandlerStep ==
  \/ Update_status_key \/ Update_status_timer \/ Update_status_rtc \/ Update_status_uart
  \/ \E packet \in Packets : Update_status_mouse(packet)

Next ==
  \/ Enter
  \/ \E hs \in Notifications : Notify(hs)
  \/ HandlerStep

Spec == Init /\ [][Next]_vars

\* event_handler runs to its end, and the timer interrupts all the time.
Tick == \E hs \in Notifications : "timer" \in hs /\ Notify(hs)
FairSpec == Spec /\ WF_vars(HandlerStep) /\ SF_vars(Tick)

-----------------------------------------------------------------------------
(* Properties                                                              *)

\* The coordinates a button extends over.
Across(b, axis) == (Centre[b][axis] - BUTTON_WIDTH)..(Centre[b][axis] + BUTTON_WIDTH)

\* Every variable has a value of its type.
TypeOK ==
  /\ {on, game_started, game_end, my_turn} \subseteq BOOLEAN
  /\ pend \subseteq Handlers
  /\ mp_mouse \in [x_pos : 0..UINT16_MAX, y_pos : 0..UINT16_MAX, left_hold : BOOLEAN,
                   left_click : BOOLEAN]
  /\ ps \in {"DEFAULT", "LIT"}
  /\ time_left_for_screen \in 0..TIMER_BUTTON_MP /\ shown \in 0..TIMER_BUTTON_MP
  /\ counted \in Nat

\* The whole pointer is on the screen, however far a packet moves it: its
\* unsigned coordinates never wrap.
PointerOnScreen == mp_mouse.x_pos \in 0..MaxX /\ mp_mouse.y_pos \in 0..MaxY

\* A press counts as one click at most, whatever turns, bytes and frames come
\* while the button is held.
PressCountsOnce == counted <= 1

\* A button that is lit has been so for as many timer interrupts as its time has
\* lost: a new click gets the full time.
LitForItsTime == ps # "DEFAULT" => shown + time_left_for_screen = TIMER_BUTTON_MP

\* What is lit goes out, unless another click comes or the screen is left.
LitGoesOut ==
  (ps # "DEFAULT" /\ shown > 0) ~> (ps = "DEFAULT" \/ shown = 0 \/ ~on)

\* Before the first game.  The two facts that follow are about functions and
\* need no state: it is enough to look at them once.
Fresh == ~on /\ ~game_end

\* Wherever the pointer is, at most one button is under it, so that the order
\* in which the buttons are asked for does not matter; but for the lower rim of
\* the red one, which covers the upper rim of VS.
ClickIsUnderPointer ==
  Fresh => \A b, c \in Buttons :
    \A x \in (0..MaxX) \cap Across(b, "x") \cap Across(c, "x"),
       y \in (0..MaxY) \cap Across(b, "y") \cap Across(c, "y") :
      Over(b, x, y) /\ Over(c, x, y) /\ b # c =>
        {b, c} = {"RED_B", "VS_B"} /\ Mp_get_button_click(x, y) = "RED_B"

\* The text is the number in decimal, for every number of rounds there may be:
\* no leading zero, and the digits add up.
RoundIsDecimal ==
  Fresh => \A n \in 0..999 :
    LET text == Mp_draw_round(n)
        value[i \in 0..Len(text)] == IF i = 0 THEN 0 ELSE value[i - 1] * 10 + text[i]
    IN  value[Len(text)] = n /\ (Len(text) > 1 => text[1] # 0)
=============================================================================
