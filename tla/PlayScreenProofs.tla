-------------------------- MODULE PlayScreenProofs --------------------------
(***************************************************************************)
(* Proofs about PlayScreen, for every size of the screen and the pointer,  *)
(* every place of the buttons and any movement nine bits can say.          *)
(***************************************************************************)
EXTENDS PlayScreen, TLAPS

(* The nine bits of a movement are a number between -256 and 255. *)
LEMMA DeltaRange ==
  ASSUME NEW move \in Moves
  PROVE  Cpl2_9_to_16(move[1], move[2]) \in -256..255
<1>1. move[1] \in 0..255
  BY MovesAssumption
<1> QED
  BY <1>1 DEF Cpl2_9_to_16

(* A coordinate within its limits stays within them, however far it moves. *)
LEMMA MovedStays ==
  ASSUME NEW max \in Nat, max >= 1, NEW pos \in 0..max, NEW delta \in Int
  PROVE  Moved(pos, delta, max) \in 0..max
BY DEF Moved

(* Both limits leave the pointer at least one place to go. *)
LEMMA Limits ==
  /\ MaxX \in Nat /\ MaxX >= 1 /\ WIDTH \div 2 \in 0..MaxX
  /\ MaxY \in Nat /\ MaxY >= 1 /\ HEIGHT \div 2 \in 0..MaxY
<1>1. ASSUME NEW w \in Nat, w >= 2, NEW k \in Nat, 2 * k <= w
      PROVE  w - k \in Nat /\ w - k >= 1 /\ w \div 2 \in 0..(w - k)
  <2>1. w \div 2 \in Nat /\ 2 * (w \div 2) <= w
    BY <1>1
  <2> QED
    BY <1>1, <2>1
<1> QED
  BY <1>1, ScreenAssumption DEF MaxX, MaxY

(* The state of the mouse, and of the lights and the count, that the steps keep. *)
Mouse == [x_pos : 0..MaxX, y_pos : 0..MaxY, left_hold : BOOLEAN, left_click : BOOLEAN]
MouseInv == mp_mouse \in Mouse
HoldInv ==
  /\ counted \in 0..1
  /\ counted = 1 => mp_mouse.left_hold
LightInv ==
  /\ time_left_for_screen \in 0..TIMER_BUTTON_MP
  /\ shown \in 0..TIMER_BUTTON_MP
  /\ ps \in {"DEFAULT", "LIT"}
  /\ LitForItsTime
ScreenInv == MouseInv /\ HoldInv /\ LightInv

(* A packet leaves the pointer on the screen. *)
LEMMA PacketStays ==
  ASSUME MouseInv, NEW packet \in Packets
  PROVE  Point(packet).x \in 0..MaxX /\ Point(packet).y \in 0..MaxY
<1>1. packet.delta_x \in Int /\ -packet.delta_y \in Int
  BY DeltaRange DEF Packets
<1>2. mp_mouse.x_pos \in 0..MaxX /\ mp_mouse.y_pos \in 0..MaxY
  BY DEF MouseInv, Mouse
<1>3. Moved(mp_mouse.x_pos, packet.delta_x, MaxX) \in 0..MaxX
  BY <1>1, <1>2, Limits, MovedStays
<1>4. Moved(mp_mouse.y_pos, -packet.delta_y, MaxY) \in 0..MaxY
  BY <1>1, <1>2, Limits, MovedStays
<1> QED
  BY <1>2, <1>3, <1>4 DEF Point

(* mp_light_button gives a button the full time. *)
LEMMA LightKeeps == Mp_light_button => LightInv'
BY TimerAssumption DEF Mp_light_button, LightInv, LitForItsTime

(* A click, one's own or the other's, keeps the time of the lights. *)
LEMMA ClickKeeps ==
  ASSUME LightInv, NEW click, Mp_buttons_handler(click)
  PROVE  LightInv'
<1>1. CASE click = NO_BUTTON
  BY <1>1 DEF Mp_buttons_handler, LightInv, LitForItsTime, lights
<1>2. CASE click # NO_BUTTON
  BY <1>2, LightKeeps DEF Mp_buttons_handler
<1> QED
  BY <1>1, <1>2

(* mp_reset_game: the pointer in the middle, nothing held, nothing lit. *)
LEMMA ResetKeeps == Mp_reset_game => ScreenInv'
<1> SUFFICES ASSUME Mp_reset_game PROVE ScreenInv'
  OBVIOUS
<1>1. MouseInv'
  BY Limits DEF Mp_reset_game, MouseInv, Mouse
<1>2. HoldInv' /\ LightInv'
  BY TimerAssumption DEF Mp_reset_game, HoldInv, LightInv, LitForItsTime
<1> QED
  BY <1>1, <1>2 DEF ScreenInv

(* A packet: a press that is held is not counted again. *)
LEMMA MouseKeeps ==
  ASSUME ScreenInv, NEW packet \in Packets, Update_status_mouse(packet)
  PROVE  ScreenInv'
<1> USE DEF ScreenInv
<1>1. CASE ~(game_started /\ ~game_end)
  BY <1>1 DEF Update_status_mouse, MouseInv, HoldInv, LightInv, LitForItsTime, lights
<1>2. CASE game_started /\ ~game_end
  <2> DEFINE at    == Point(packet)
             press == packet.lb /\ ~mp_mouse.left_hold
             click == IF press THEN Mp_get_button_click(at.x, at.y) ELSE NO_BUTTON
  <2>1. packet.lb \in BOOLEAN /\ mp_mouse.left_hold \in BOOLEAN
    BY DEF Packets, MouseInv, Mouse
  <2>2. mp_mouse' = [x_pos |-> at.x, y_pos |-> at.y, left_hold |-> packet.lb,
                     left_click |-> press /\ (my_turn => click # NO_BUTTON)]
    BY <1>2 DEF Update_status_mouse
  <2>3. counted' = IF ~packet.lb THEN 0
                   ELSE IF my_turn /\ click # NO_BUTTON THEN counted + 1 ELSE counted
    BY <1>2 DEF Update_status_mouse
  <2>4. MouseInv'
    <3> HIDE DEF at, press, click
    <3>1. at.x \in 0..MaxX /\ at.y \in 0..MaxY
      BY PacketStays DEF at
    <3>2. (press /\ (my_turn => click # NO_BUTTON)) \in BOOLEAN
      OBVIOUS
    <3> QED
      BY <2>1, <2>2, <3>1, <3>2 DEF MouseInv, Mouse
  <2>5. HoldInv'
    <3>1. click # NO_BUTTON => packet.lb /\ ~mp_mouse.left_hold
      OBVIOUS
    <3>2. mp_mouse'.left_hold = packet.lb
      BY <2>2
    <3> HIDE DEF at, press, click
    <3> QED
      BY <2>1, <2>3, <3>1, <3>2 DEF HoldInv
  <2>6. LightInv'
    <3>1. CASE my_turn
      <4>1. Mp_buttons_handler(click)
        BY <1>2, <3>1 DEF Update_status_mouse
      <4> HIDE DEF click
      <4> QED
        BY <4>1, ClickKeeps
    <3>2. CASE ~my_turn
      BY <1>2, <3>2 DEF Update_status_mouse, LightInv, LitForItsTime, lights
    <3> QED
      BY <3>1, <3>2
  <2> QED
    BY <2>4, <2>5, <2>6
<1> QED
  BY <1>1, <1>2

(* A timer interrupt: the pointer stays, the press is still held, and the light *)
(* loses one of its time or goes out. *)
LEMMA TickKeeps ==
  ASSUME ScreenInv, Update_status_timer
  PROVE  ScreenInv'
<1> USE DEF ScreenInv
<1>1. mp_mouse' = [mp_mouse EXCEPT !.left_click = FALSE] /\ counted' = counted
  BY DEF Update_status_timer, AfterTick
<1>2. MouseInv'
  BY <1>1 DEF MouseInv, Mouse
<1>3. mp_mouse'.left_hold = mp_mouse.left_hold
  BY <1>1 DEF MouseInv, Mouse
<1>4. HoldInv'
  BY <1>1, <1>3 DEF HoldInv
<1>5. LightInv'
  <2>1. CASE GoesOut
    BY <2>1, TimerAssumption DEF Update_status_timer, LightInv, LitForItsTime
  <2>2. CASE ~GoesOut
    BY <2>2, TimerAssumption DEF Update_status_timer, GoesOut, LightInv, LitForItsTime
  <2> QED
    BY <2>1, <2>2
<1> QED
  BY <1>2, <1>4, <1>5

(* A step that leaves the mouse, the lights and the count alone. *)
LEMMA IdleKeeps ==
  ASSUME ScreenInv, UNCHANGED <<mp_mouse, lights, counted>>
  PROVE  ScreenInv'
BY DEF ScreenInv, MouseInv, HoldInv, LightInv, LitForItsTime, lights

(* A byte starts the game, resets it, or is a move of the other player. *)
LEMMA UartKeeps ==
  ASSUME ScreenInv, Update_status_uart
  PROVE  ScreenInv'
<1>1. CASE game_started
  <2>1. Play_game /\ UNCHANGED <<mp_mouse, counted>>
    BY <1>1 DEF Update_status_uart
  <2>2. CASE \E click \in Buttons : Mp_buttons_handler(click)
    <3>1. LightInv'
      BY <2>2, ClickKeeps DEF ScreenInv
    <3> QED
      BY <2>1, <3>1 DEF ScreenInv, MouseInv, HoldInv
  <2>3. CASE UNCHANGED lights
    BY <2>1, <2>3, IdleKeeps
  <2> QED
    BY <2>1, <2>2, <2>3 DEF Play_game
<1>2. CASE ~game_started
  <2>1. Start_game
    BY <1>2 DEF Update_status_uart
  <2> QED
    BY <2>1, IdleKeeps, ResetKeeps DEF Start_game
<1> QED
  BY <1>1, <1>2

(* The invariant holds before the first game, and every step keeps it. *)
LEMMA ScreenInvInductive ==
  /\ Init => ScreenInv
  /\ ScreenInv /\ [Next]_vars => ScreenInv'
<1>1. Init => ScreenInv
  BY Limits, TimerAssumption
     DEF Init, ScreenInv, MouseInv, Mouse, HoldInv, LightInv, LitForItsTime
<1>2. ScreenInv /\ [Next]_vars => ScreenInv'
  <2> SUFFICES ASSUME ScreenInv, [Next]_vars PROVE ScreenInv'
    OBVIOUS
  <2>1. CASE Enter
    BY <2>1, ResetKeeps, IdleKeeps DEF Enter
  <2>2. ASSUME NEW hs, Notify(hs) PROVE ScreenInv'
    BY <2>2, IdleKeeps DEF Notify
  <2>3. CASE Update_status_key
    BY <2>3, IdleKeeps DEF Update_status_key
  <2>4. CASE Update_status_timer
    BY <2>4, TickKeeps
  <2>5. CASE Update_status_rtc
    BY <2>5, IdleKeeps DEF Update_status_rtc
  <2>6. CASE Update_status_uart
    BY <2>6, UartKeeps
  <2>7. ASSUME NEW packet \in Packets, Update_status_mouse(packet) PROVE ScreenInv'
    BY <2>7, MouseKeeps
  <2>8. CASE UNCHANGED vars
    BY <2>8, IdleKeeps DEF vars
  <2> QED
    BY <2>1, <2>2, <2>3, <2>4, <2>5, <2>6, <2>7, <2>8 DEF Next, HandlerStep
<1> QED
  BY <1>1, <1>2

(* The flags keep their type: what the rules of the game do to them is no more *)
(* than to set or to clear them. *)
FlagsOK ==
  /\ on \in BOOLEAN /\ game_started \in BOOLEAN /\ game_end \in BOOLEAN /\ my_turn \in BOOLEAN
  /\ pend \subseteq Handlers

LEMMA FlagsInductive ==
  /\ Init => FlagsOK
  /\ FlagsOK /\ [Next]_vars => FlagsOK'
<1> USE DEF FlagsOK, flags
<1>1. Init => FlagsOK
  BY DEF Init
<1>2. FlagsOK /\ [Next]_vars => FlagsOK'
  <2> SUFFICES ASSUME FlagsOK, [Next]_vars PROVE FlagsOK'
    OBVIOUS
  <2>1. CASE Enter
    BY <2>1 DEF Enter, Mp_reset_game
  <2>2. ASSUME NEW hs \in Notifications, Notify(hs) PROVE FlagsOK'
    BY <2>2 DEF Notify, Notifications
  <2>3. CASE Update_status_key
    BY <2>3 DEF Update_status_key, Called
  <2>4. CASE Update_status_timer
    BY <2>4 DEF Update_status_timer, Called
  <2>5. CASE Update_status_rtc
    BY <2>5 DEF Update_status_rtc, Called
  <2>6. ASSUME NEW click, Mp_buttons_handler(click)
        PROVE  game_started' \in BOOLEAN /\ game_end' \in BOOLEAN /\ my_turn' \in BOOLEAN
    BY <2>6 DEF Mp_buttons_handler, Mp_click_button, Mp_remote_click_button
  <2>7. CASE Update_status_uart
    <3>1. pend' \subseteq Handlers /\ on' = on
      BY <2>7 DEF Update_status_uart, Called
    <3>2. CASE game_started
      BY <2>6, <2>7, <3>1, <3>2 DEF Update_status_uart, Play_game
    <3>3. CASE ~game_started
      BY <2>7, <3>1, <3>3 DEF Update_status_uart, Start_game, Mp_reset_game
    <3> QED
      BY <3>2, <3>3
  <2>8. ASSUME NEW packet \in Packets, Update_status_mouse(packet) PROVE FlagsOK'
    <3>1. pend' \subseteq Handlers /\ on' = on
      BY <2>8 DEF Update_status_mouse, Called
    <3>2. UNCHANGED flags \/ \E click : Mp_buttons_handler(click)
      BY <2>8 DEF Update_status_mouse
    <3> QED
      BY <2>6, <3>1, <3>2
  <2>9. CASE UNCHANGED vars
    BY <2>9 DEF vars
  <2> QED
    BY <2>1, <2>2, <2>3, <2>4, <2>5, <2>7, <2>8, <2>9 DEF Next, HandlerStep
<1> QED
  BY <1>1, <1>2

(* Every variable keeps its type; the coordinates fit their 16 bits because the *)
(* pointer is on the screen, and the time of a light is never below 0. *)
THEOREM TypeCorrect == Spec => []TypeOK
<1>1. ScreenInv /\ FlagsOK => TypeOK
  <2> SUFFICES ASSUME ScreenInv, FlagsOK PROVE TypeOK
    OBVIOUS
  <2>1. MaxX <= UINT16_MAX /\ MaxY <= UINT16_MAX /\ MaxX \in Nat /\ MaxY \in Nat
    BY ScreenAssumption, Limits DEF MaxX, MaxY, UINT16_MAX
  <2>2. mp_mouse \in [x_pos : 0..UINT16_MAX, y_pos : 0..UINT16_MAX, left_hold : BOOLEAN,
                      left_click : BOOLEAN]
    <3>1. 0..MaxX \subseteq 0..UINT16_MAX /\ 0..MaxY \subseteq 0..UINT16_MAX
      <4>1. ASSUME NEW n \in Nat, NEW max \in Nat, max <= n PROVE 0..max \subseteq 0..n
        BY <4>1
      <4>2. UINT16_MAX \in Nat
        BY DEF UINT16_MAX
      <4> QED
        BY <2>1, <4>1, <4>2, Zenon
    <3>2. mp_mouse \in Mouse
      BY DEF ScreenInv, MouseInv
    <3> QED
      BY <3>1, <3>2, Zenon DEF Mouse
  <2>3. {on, game_started, game_end, my_turn} \subseteq BOOLEAN
    BY Zenon DEF FlagsOK
  <2>4. counted \in Nat
    BY DEF ScreenInv, HoldInv
  <2> QED
    BY <2>2, <2>3, <2>4, Zenon DEF ScreenInv, LightInv, FlagsOK, TypeOK
<1> QED
  BY <1>1, ScreenInvInductive, FlagsInductive, PTL DEF Spec

(* The pointer is always wholly on the screen: no movement of nine bits, of any *)
(* number of packets, makes an unsigned coordinate wrap or pass its limit. *)
THEOREM PointerStaysOnScreen == Spec => []PointerOnScreen
<1>1. ScreenInv => PointerOnScreen
  BY DEF ScreenInv, MouseInv, Mouse, PointerOnScreen
<1> QED
  BY <1>1, ScreenInvInductive, PTL DEF Spec

(* A press counts as one click at most, because as long as it is held left_hold *)
(* is set: turns, bytes and frames do not take it back. *)
THEOREM PressIsOneClick == Spec => []PressCountsOnce
<1>1. ScreenInv => PressCountsOnce
  BY DEF ScreenInv, HoldInv, PressCountsOnce
<1> QED
  BY <1>1, ScreenInvInductive, PTL DEF Spec

(* A lit button has been lit for exactly the time it has lost, whichever player *)
(* clicked and however clicks overlap. *)
THEOREM LightHasItsTime == Spec => []LitForItsTime
<1>1. ScreenInv => LitForItsTime
  BY DEF ScreenInv, LightInv
<1> QED
  BY <1>1, ScreenInvInductive, PTL DEF Spec

-----------------------------------------------------------------------------
(* The button under the pointer, and the number of the round               *)

(* A point of two discs of radius r: their centres are no further apart than *)
(* a diameter. *)
LEMMA DiscsTouch ==
  ASSUME NEW u \in Int, NEW v \in Int, NEW w \in Int, NEW z \in Int, NEW r \in Int,
         u * u + v * v <= r * r, w * w + z * z <= r * r
  PROVE  (w - u) * (w - u) + (z - v) * (z - v) <= 4 * r * r
<1>1. ASSUME NEW k \in Int PROVE k * k >= 0 /\ k * k \in Int
  OBVIOUS
<1>2. ASSUME NEW p \in Int, NEW q \in Int
      PROVE  (q - p) * (q - p) + (q + p) * (q + p) = 2 * (p * p) + 2 * (q * q)
  OBVIOUS
<1> DEFINE A == (w - u) * (w - u)
           B == (w + u) * (w + u)
           C == (z - v) * (z - v)
           D == (z + v) * (z + v)
           U == u * u
           V == v * v
           W == w * w
           Z == z * z
           R == r * r
<1>3. A + B = 2 * U + 2 * W /\ C + D = 2 * V + 2 * Z
  BY <1>2
<1>4. B >= 0 /\ D >= 0
  BY <1>1
<1>5. {A, B, C, D, U, V, W, Z, R} \subseteq Int
  BY <1>1
<1>6. U + V <= R /\ W + Z <= R
  OBVIOUS
<1>7. 4 * r * r = 4 * R
  OBVIOUS
<1> HIDE DEF A, B, C, D, U, V, W, Z, R
<1>8. A + C <= 4 * R
  BY <1>3, <1>4, <1>5, <1>6
<1> QED
  BY <1>7, <1>8 DEF A, C

(* The first of the buttons asked for is the red one. *)
LEMMA RedIsFirst ==
  ASSUME NEW x, NEW y, Over("RED_B", x, y)
  PROVE  Mp_get_button_click(x, y) = "RED_B"
<1> DEFINE H == Hits(x, y)
<1>1. DOMAIN Asked = 1..6 /\ Asked[1] = "RED_B"
  BY DEF Asked
<1>2. 1 \in H /\ H \subseteq 1..6
  BY <1>1 DEF Hits
<1> HIDE DEF H
<1>3. Min(H) = 1
  <2>1. \A j \in H : 1 <= j
    BY <1>2
  <2>2. \A i \in H : (\A j \in H : i <= j) => i = 1
    BY <1>2
  <2> QED
    BY <1>2, <2>1, <2>2 DEF Min
<1> QED
  BY <1>1, <1>2, <1>3 DEF Mp_get_button_click, H

(* In every layout of discs that do not touch but for red and VS, no two others *)
(* are under one point, and red goes before VS. *)
LEMMA OneButton ==
  ASSUME NEW b \in Buttons, NEW c \in Buttons, b # c, NEW x \in Int, NEW y \in Int,
         Over(b, x, y), Over(c, x, y)
  PROVE  {b, c} = {"RED_B", "VS_B"} /\ Mp_get_button_click(x, y) = "RED_B"
<1> DEFINE p == Centre[b].x
           q == Centre[b].y
           s == Centre[c].x
           t == Centre[c].y
           r == BUTTON_WIDTH
<1>1. p \in Int /\ q \in Int /\ s \in Int /\ t \in Int /\ r \in Int
  BY LayoutAssumption
<1>2. /\ (x - p) * (x - p) + (y - q) * (y - q) <= r * r
      /\ (x - s) * (x - s) + (y - t) * (y - t) <= r * r
  BY DEF Over
<1>3. {b, c} # {"RED_B", "VS_B"} => (p - s) * (p - s) + (q - t) * (q - t) > 4 * r * r
  BY LayoutAssumption
<1> HIDE DEF p, q, s, t, r
<1>4. (p - s) * (p - s) + (q - t) * (q - t) <= 4 * r * r
  <2> DEFINE u == x - p
             v == y - q
             w == x - s
             z == y - t
  <2>1. u \in Int /\ v \in Int /\ w \in Int /\ z \in Int /\ w - u = p - s /\ z - v = q - t
    BY <1>1
  <2>2. u * u + v * v <= r * r /\ w * w + z * z <= r * r
    BY <1>2
  <2> HIDE DEF u, v, w, z
  <2>3. (w - u) * (w - u) + (z - v) * (z - v) <= 4 * r * r
    BY <1>1, <2>1, <2>2, DiscsTouch
  <2> QED
    BY <2>1, <2>3
<1>5. {b, c} = {"RED_B", "VS_B"}
  <2> DEFINE D == (p - s) * (p - s) + (q - t) * (q - t)
             E == 4 * r * r
  <2>1. D \in Int /\ E \in Int
    BY <1>1
  <2> HIDE DEF D, E
  <2>2. D <= E /\ ({b, c} # {"RED_B", "VS_B"} => D > E)
    BY <1>3, <1>4 DEF D, E
  <2> QED
    BY <2>1, <2>2
<1>6. b = "RED_B" \/ c = "RED_B"
  BY <1>5
<1> QED
  BY <1>5, <1>6, RedIsFirst

(* mp_get_button_click finds the button under the pointer whatever the order in *)
(* which it asks, in every layout like the real one: only the red button and VS *)
(* overlap, and there it is the red one. *)
THEOREM ClickAlwaysUnderPointer == Spec => []ClickIsUnderPointer
<1>1. ClickIsUnderPointer
  <2> SUFFICES ASSUME NEW b \in Buttons, NEW c \in Buttons,
                      NEW x \in 0..MaxX, NEW y \in 0..MaxY,
                      Over(b, x, y), Over(c, x, y), b # c
               PROVE  {b, c} = {"RED_B", "VS_B"} /\ Mp_get_button_click(x, y) = "RED_B"
    BY DEF ClickIsUnderPointer
  <2> QED
    BY OneButton
<1> QED
  BY <1>1, PTL

(* The number a text of digits stands for. *)
ValueOf(text) ==
  LET value[i \in 0..Len(text)] == IF i = 0 THEN 0 ELSE value[i - 1] * 10 + text[i]
  IN  value[Len(text)]

(* The recursion ends: a function with these values exists, one digit at a time. *)
LEMMA ValueOfDigits ==
  ASSUME NEW text, Len(text) \in 1..3, \A i \in 1..Len(text) : text[i] \in Nat
  PROVE  /\ Len(text) = 1 => ValueOf(text) = text[1]
         /\ Len(text) = 2 => ValueOf(text) = text[1] * 10 + text[2]
         /\ Len(text) = 3 => ValueOf(text) = text[1] * 100 + text[2] * 10 + text[3]
<1> DEFINE L == Len(text)
           Step(g) == [i \in 0..L |-> IF i = 0 THEN 0 ELSE g[i - 1] * 10 + text[i]]
           value[i \in 0..L] == IF i = 0 THEN 0 ELSE value[i - 1] * 10 + text[i]
           g == [i \in 0..L |-> CASE i = 0 -> 0
                                  [] i = 1 -> text[1]
                                  [] i = 2 -> text[1] * 10 + text[2]
                                  [] OTHER -> (text[1] * 10 + text[2]) * 10 + text[3]]
<1>1. ASSUME NEW i \in 0..L PROVE g[i] = Step(g)[i]
  <2>1. i = 0 \/ i = 1 \/ i = 2 \/ i = 3
    OBVIOUS
  <2>2. CASE i = 0
    BY <2>2
  <2>3. CASE i = 1
    BY <2>3
  <2>4. CASE i = 2
    BY <2>4
  <2>5. CASE i = 3
    BY <2>5
  <2> QED
    BY <2>1, <2>2, <2>3, <2>4, <2>5
<1>2. g = Step(g)
  BY <1>1
<1>3. value = CHOOSE f : f = [i \in 0..L |-> IF i = 0 THEN 0 ELSE f[i - 1] * 10 + text[i]]
  BY DEF value
<1> HIDE DEF g, value
<1>4. value = Step(value)
  BY <1>2, <1>3
<1>5. ASSUME NEW i \in 0..L PROVE value[i] = IF i = 0 THEN 0 ELSE value[i - 1] * 10 + text[i]
  BY <1>4
<1>6. value[0] = 0 /\ value[1] = text[1]
  BY <1>5
<1>7. L >= 2 => value[2] = text[1] * 10 + text[2]
  BY <1>5, <1>6
<1>8. L >= 3 => value[3] = text[1] * 100 + text[2] * 10 + text[3]
  BY <1>5, <1>7
<1>9. ValueOf(text) = value[L]
  BY DEF ValueOf, value
<1>10. L = 1 => ValueOf(text) = text[1]
  BY <1>6, <1>9
<1>11. L = 2 => ValueOf(text) = text[1] * 10 + text[2]
  BY <1>7, <1>9
<1>12. L = 3 => ValueOf(text) = text[1] * 100 + text[2] * 10 + text[3]
  BY <1>8, <1>9
<1> QED
  BY <1>10, <1>11, <1>12

(* As many digits as the number has. *)
LEMMA DigitsOf ==
  ASSUME NEW n \in 0..999
  PROVE  /\ n = 0 => Backwards(n) = << >>
         /\ n \in 1..9 => Backwards(n) = <<n>>
         /\ n \in 10..99 => Backwards(n) = <<n % 10, n \div 10>>
         /\ n \in 100..999 => Backwards(n) = <<n % 10, (n \div 10) % 10, n \div 100>>
<1> DEFINE Size(s) == n < 10 ^ s /\ (s = 0 \/ n >= 10 ^ (s - 1))
           size == CHOOSE s \in 0..3 : Size(s)
           d(i) == (n \div 10 ^ (i - 1)) % 10
<1>1. 10 ^ 0 = 1 /\ 10 ^ 1 = 10 /\ 10 ^ 2 = 100 /\ 10 ^ 3 = 1000
  OBVIOUS
<1>2. /\ Size(0) <=> n = 0
      /\ Size(1) <=> n \in 1..9
      /\ Size(2) <=> n \in 10..99
      /\ Size(3) <=> n \in 100..999
  BY <1>1
<1>3. Backwards(n) = [i \in 1..size |-> d(i)]
  BY DEF Backwards
<1>4. d(1) = n % 10 /\ d(2) = (n \div 10) % 10 /\ d(3) = (n \div 100) % 10
  BY <1>1
<1> HIDE DEF Size, d
<1>5. ASSUME NEW k \in 0..3, Size(k) PROVE size = k
  <2> DEFINE e == IF n = 0 THEN 0 ELSE IF n <= 9 THEN 1 ELSE IF n <= 99 THEN 2 ELSE 3
  <2>0. ASSUME NEW s \in 0..3, Size(s) PROVE s = e
    <3>1. s = 0 \/ s = 1 \/ s = 2 \/ s = 3
      OBVIOUS
    <3>2. CASE s = 0
      BY <1>2, <2>0, <3>2
    <3>3. CASE s = 1
      BY <1>2, <2>0, <3>3
    <3>4. CASE s = 2
      BY <1>2, <2>0, <3>4
    <3>5. CASE s = 3
      BY <1>2, <2>0, <3>5
    <3> QED
      BY <3>1, <3>2, <3>3, <3>4, <3>5
  <2> HIDE DEF e
  <2>1. \A s \in 0..3 : Size(s) => s = k
    BY <1>5, <2>0
  <2> QED
    BY <1>5, <2>1
<1> HIDE DEF size
<1>6. CASE n = 0
  BY <1>2, <1>3, <1>5, <1>6
<1>7. CASE n \in 1..9
  <2>1. size = 1 /\ n % 10 = n
    BY <1>2, <1>5, <1>7
  <2> QED
    BY <1>3, <1>4, <1>7, <2>1
<1>8. CASE n \in 10..99
  <2>1. size = 2 /\ (n \div 10) % 10 = n \div 10
    BY <1>2, <1>5, <1>8
  <2> QED
    BY <1>3, <1>4, <1>8, <2>1
<1>9. CASE n \in 100..999
  <2>1. size = 3 /\ (n \div 100) % 10 = n \div 100
    BY <1>2, <1>5, <1>9
  <2> QED
    BY <1>3, <1>4, <1>9, <2>1
<1> QED
  BY <1>6, <1>7, <1>8, <1>9

(* The text of the round is the number in decimal, its digits in the right order: *)
(* mp_draw_round turns back what the division by ten has put the wrong way round. *)
THEOREM RoundAlwaysDecimal == Spec => []RoundIsDecimal
<1>1. ASSUME NEW n \in 0..999
      PROVE  LET text == Mp_draw_round(n) IN
             ValueOf(text) = n /\ (Len(text) > 1 => text[1] # 0)
  <2> DEFINE text  == Mp_draw_round(n)
             chars == Backwards(n)
  <2>0. text = CASE chars = << >>  -> <<0>>
                 [] Len(chars) = 2 -> <<chars[2], chars[1]>>
                 [] Len(chars) = 3 -> <<chars[3], chars[2], chars[1]>>
                 [] OTHER          -> chars
    BY DEF Mp_draw_round
  <2>1. CASE n = 0
    <3>1. text = <<0>>
      <4>1. chars = << >>
        BY <2>1, DigitsOf
      <4> HIDE DEF chars
      <4>2. Len(chars) = 0
        BY <4>1
      <4> QED
        BY <2>0, <4>1, <4>2
    <3> HIDE DEF text
    <3>2. Len(text) = 1 /\ text[1] = 0
      BY <3>1
    <3>3. ValueOf(text) = text[1]
      BY <3>2, ValueOfDigits
    <3> QED
      BY <2>1, <3>2, <3>3 DEF text
  <2>2. CASE n \in 1..9
    <3>1. text = <<n>>
      <4>1. chars = <<n>>
        BY <2>2, DigitsOf
      <4> HIDE DEF chars
      <4>2. Len(chars) = 1 /\ chars # << >>
        BY <4>1
      <4> QED
        BY <2>0, <4>1, <4>2
    <3> HIDE DEF text
    <3>2. Len(text) = 1 /\ text[1] = n
      BY <3>1
    <3>3. ValueOf(text) = text[1]
      BY <3>2, ValueOfDigits
    <3> QED
      BY <3>2, <3>3 DEF text
  <2>3. CASE n \in 10..99
    <3>1. text = <<n \div 10, n % 10>>
      <4>1. chars = <<n % 10, n \div 10>>
        BY <2>3, DigitsOf
      <4> HIDE DEF chars
      <4>2. Len(chars) = 2 /\ chars # << >>
        BY <4>1
      <4> QED
        BY <2>0, <4>1, <4>2
    <3> HIDE DEF text
    <3>2. Len(text) = 2 /\ text[1] = n \div 10 /\ text[2] = n % 10
      BY <3>1
    <3>3. n \div 10 \in Nat /\ n % 10 \in Nat /\ n \div 10 # 0 /\ (n \div 10) * 10 + (n % 10) = n
      BY <2>3
    <3>4. ValueOf(text) = text[1] * 10 + text[2]
      <4>1. \A i \in 1..2 : text[i] \in Nat
        BY <3>2, <3>3
      <4> QED
        BY <3>2, <4>1, ValueOfDigits
    <3> QED
      BY <3>2, <3>3, <3>4 DEF text
  <2>4. CASE n \in 100..999
    <3>1. text = <<n \div 100, (n \div 10) % 10, n % 10>>
      <4>1. chars = <<n % 10, (n \div 10) % 10, n \div 100>>
        BY <2>4, DigitsOf
      <4> HIDE DEF chars
      <4>2. Len(chars) = 3 /\ chars # << >>
        BY <4>1
      <4> QED
        BY <2>0, <4>1, <4>2
    <3> HIDE DEF text
    <3>2. Len(text) = 3 /\ text[1] = n \div 100 /\ text[2] = (n \div 10) % 10 /\ text[3] = n % 10
      BY <3>1
    <3>3. /\ n \div 100 \in Nat /\ (n \div 10) % 10 \in Nat /\ n % 10 \in Nat /\ n \div 100 # 0
          /\ (n \div 100) * 100 + ((n \div 10) % 10) * 10 + (n % 10) = n
      BY <2>4
    <3>4. ValueOf(text) = text[1] * 100 + text[2] * 10 + text[3]
      <4>1. text[1] \in Nat /\ text[2] \in Nat /\ text[3] \in Nat
        BY <3>2, <3>3
      <4>2. Len(text) \in 1..3 /\ \A i \in 1..Len(text) : i = 1 \/ i = 2 \/ i = 3
        BY <3>2
      <4>3. \A i \in 1..Len(text) : text[i] \in Nat
        BY <4>1, <4>2
      <4>4. Len(text) = 3 => ValueOf(text) = text[1] * 100 + text[2] * 10 + text[3]
        <5>1. Len(text) \in 1..3
          BY <4>2
        <5> QED
          BY <5>1, <4>3, ValueOfDigits
      <4> QED
        BY <3>2, <4>4
    <3> QED
      BY <3>2, <3>3, <3>4 DEF text
  <2> QED
    BY <2>1, <2>2, <2>3, <2>4
<1>2. RoundIsDecimal
  BY <1>1 DEF RoundIsDecimal, ValueOf
<1> QED
  BY <1>2, PTL
=============================================================================
