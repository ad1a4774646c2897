------------------------------ MODULE Screens ------------------------------
(***************************************************************************)
(* The screens and the keys that move between them: event_handler of       *)
(* proj/simon.c with proj/menu.c, proj/host.c, proj/how_to_play.c,          *)
(* proj/number_of_rounds.c and the keys of the other screens.              *)
(*                                                                         *)
(* The keyboard is that of Input with nothing but its result: a break code *)
(* of one byte names its key, a make code names none, a code of two bytes  *)
(* that is not known leaves the key as it is in memory, and the first of   *)
(* two bytes has the press of before handled again.                        *)
(*                                                                         *)
(* Abstracted: a game, of which Game and MpGame tell more, to whether it   *)
(* is over; the board; the characters of a name to how many there are.     *)
(***************************************************************************)
EXTENDS TextBox

CONSTANTS
  Digit,        \* the value of each key that is a digit
  Letters,      \* the other keys is_alpha_numberical accepts
  NAME_MAX,     \* characters the box of a name takes: 10
  MaxName       \* bound of the model: characters in player; a string of more, in the
                \* end too long for its array, is not followed

ASSUME ScreensAssumption ==
  /\ \A k \in DOMAIN Digit : Digit[k] \in 0..9
  /\ NAME_MAX \in Nat /\ MaxName \in Nat
  /\ (DOMAIN Digit \cup Letters) \cap {"enter", "backspace", "esc", "up", "down", "none"} = {}

Digits == DOMAIN Digit
Plain  == Digits \cup Letters \cup {"enter", "backspace", "esc"}
Arrows == {"up", "down"}
NONE   == "none"   \* 0

ROUNDS_MAX == 3
MENU_NUM_SELECTIONS == 5
HOST_NUM_SELECTIONS == 2

VARIABLES
  mode, running,                        \* game.mode; whether the loop of run() goes on
  due,                                  \* event_handler has still to be called
  got_key_press, keyboard_packet,
  word,                                 \* bytes and assemblied_word: "start"; "first" of
                                        \* two bytes; "whole"
  esc,                                  \* kbc_ih_output is the break code of ESC
  count, position, host_position,
  num_rounds, num_rounds_value, is_mp,
  max_buttons_size,                     \* the rounds of the last game begun here
  game_end,                             \* of the game on each of the two screens
  new_hiscore, player,                  \* the box of the name; the length of the string
  chosen,                               \* history: the game the player asked for
  again                                 \* history: this press was handled before

keyboard == <<got_key_press, keyboard_packet, word, esc, again>>
selection == <<count, position, host_position>>
rounds   == <<num_rounds, num_rounds_value, is_mp, max_buttons_size, chosen>>
name     == <<new_hiscore, player>>
vars     == <<mode, running, due, keyboard, selection, rounds, game_end, name>>

-----------------------------------------------------------------------------
(* A notification                                                          *)

Keys    == Plain \cup Arrows \cup {NONE}
ESC_BREAK_CODE == [key |-> "esc", down |-> FALSE]

\* The keys assemble_key_press may give for the last byte of a scancode.
KeyOf(byte) ==
  CASE word # "first" -> {IF byte.down \/ byte.key \notin Plain THEN NONE ELSE byte.key}
    [] word = "first" /\ byte.key \in Arrows /\ ~byte.down -> {byte.key}
    [] OTHER -> Keys

\* The last byte of a scancode; after a prefix it may also be that of a key whose
\* code has only one byte, when the byte in between was lost.
LastByte(byte) ==
  /\ byte.key \in Arrows => word = "first"
  /\ got_key_press' = TRUE /\ word' = "whole" /\ again' = FALSE
  /\ \E k \in KeyOf(byte) : keyboard_packet' = [key |-> k, down |-> byte.down]
  /\ esc' = (byte = ESC_BREAK_CODE)

\* The first of two bytes: keyboard_handler returns true all the same.  The very
\* first byte is taken for a whole code, whose second byte is 0.
PrefixByte ==
  /\ word # "first"
  /\ got_key_press' = TRUE /\ esc' = FALSE
  /\ IF word = "whole"
     THEN word' = "first" /\ again' = TRUE /\ UNCHANGED keyboard_packet
     ELSE word' = "whole" /\ again' = FALSE /\ keyboard_packet' \in [key : Keys, down : {TRUE}]

\* A byte with an error, of which only kbc_ih_output is left.
LostByte ==
  /\ got_key_press' = FALSE /\ again' = TRUE
  /\ esc' \in BOOLEAN
  /\ UNCHANGED <<keyboard_packet, word>>

\* An interrupt, but none of the keyboard.
NoByte ==
  /\ got_key_press' = FALSE /\ again' = FALSE
  /\ keyboard_packet' = [keyboard_packet EXCEPT !.key = NONE]
  /\ UNCHANGED <<word, esc>>

\* run: a notification and the handler of the keyboard.
Notify ==
  /\ running /\ ~due /\ player <= MaxName
  /\ due' = TRUE
  /\ \/ \E key \in Keys, down \in BOOLEAN : LastByte([key |-> key, down |-> down])
     \/ PrefixByte \/ LostByte \/ NoByte
  /\ UNCHANGED <<mode, running, selection, rounds, game_end, name>>

\* scancode_is_esc_break
EscBreak == esc

\* The end of a notification, after event_handler: the condition of the loop.
Loop ==
  /\ due' = FALSE
  /\ running' = (~EscBreak /\ mode' # "EXIT")
  /\ UNCHANGED keyboard

\* event_handler is called for the screen m.
Event(m) == running /\ due /\ mode = m

Released(k) == got_key_press /\ ~keyboard_packet.down /\ keyboard_packet.key = k
Reported(k) == got_key_press /\ keyboard_packet.key = k

-----------------------------------------------------------------------------
(* number_of_rounds.c                                                      *)

\* create_num_box
Create_num_box ==
  /\ num_rounds' = Create_text_box(400, ROUNDS_MAX)
  /\ num_rounds_value' = 0

\* Mutant: the kind of game stays as it was.
Reset_number_of_rounds_keepsKind(mp) == UNCHANGED is_mp /\ Create_num_box

\* reset_number_of_rounds
Reset_number_of_rounds(mp) == is_mp' = mp /\ Create_num_box

\* Mutant: a digit counts although there is no place for it.
TypeDigit_always(k) ==
  /\ num_rounds' = Add(num_rounds, k)
  /\ num_rounds_value' = num_rounds_value * 10 + Digit[k]

\* A digit counts if the box takes it.
TypeDigit(k) ==
  /\ num_rounds' = Add(num_rounds, k)
  /\ num_rounds_value' = IF Takes(num_rounds) THEN num_rounds_value * 10 + Digit[k]
                         ELSE num_rounds_value

Ready == num_rounds_value # 0

\* number_of_rounds_update_status, ENTER: reset_game or host_mp_game.
StartGame ==
  /\ Released("enter") /\ Ready
  /\ mode' = IF is_mp THEN "MP_GAME" ELSE "GAME"
  /\ game_end' = [game_end EXCEPT ![mode'] = FALSE]
  /\ max_buttons_size' = num_rounds_value
  /\ UNCHANGED <<num_rounds, num_rounds_value, is_mp, chosen>>

\* number_of_rounds_update_status, a digit or BACKSPACE
EditRounds ==
  /\ \/ \E k \in Digits : Released(k) /\ TypeDigit(k)
     \/ /\ Released("backspace")
        /\ num_rounds' = Remove(num_rounds)
        /\ num_rounds_value' = num_rounds_value \div 10
  /\ UNCHANGED <<mode, is_mp, max_buttons_size, chosen, game_end>>

Number_of_rounds_update_status ==
  /\ Event("NUM_ROUNDS")
  /\ \/ StartGame \/ EditRounds
     \/ /\ \A k \in Digits \cup {"backspace"} : ~Released(k)
        /\ ~(Released("enter") /\ Ready)
        /\ UNCHANGED <<mode, rounds, game_end>>
  /\ UNCHANGED <<selection, name>>
  /\ Loop

-----------------------------------------------------------------------------
(* menu.c, host.c, how_to_play.c                                           *)

Up   == Released("up") \/ Released("w")
Down == Released("down") \/ Released("s")

\* The selection after ENTER
AfterMenu == 0

MenuEnter ==
  /\ Released("enter")
  /\ mode' = <<"NUM_ROUNDS", "HOST", "HOW_TO_PLAY", "LEADERBOARD", "EXIT">>[position + 1]
  /\ position' = AfterMenu
  /\ IF mode' = "NUM_ROUNDS"
     THEN Reset_number_of_rounds(FALSE) /\ chosen' = "GAME" /\ UNCHANGED max_buttons_size
     ELSE UNCHANGED rounds

\* menu_update_status
Menu_update_status ==
  \/ Up /\ position' = (position + 4) % MENU_NUM_SELECTIONS /\ UNCHANGED <<mode, rounds>>
  \/ Down /\ position' = (position + 1) % MENU_NUM_SELECTIONS /\ UNCHANGED <<mode, rounds>>
  \/ MenuEnter
  \/ ~Up /\ ~Down /\ ~Released("enter") /\ UNCHANGED <<mode, position, rounds>>

\* event_handler, MENU: the first call only counts.
MenuEvent ==
  /\ Event("MENU")
  /\ count' = 1   \* or more
  /\ IF count # 0 THEN Menu_update_status ELSE UNCHANGED <<mode, position, rounds>>
  /\ UNCHANGED <<host_position, game_end, name>>
  /\ Loop

\* One up.  The enumeration is unsigned, and 2^32 - 1 is odd as -1 is.
HostUp == (host_position - 1) % HOST_NUM_SELECTIONS

\* connect_mp_game does not reset the last game.
HostEnter ==
  /\ Released("enter")
  /\ host_position' = 0
  /\ IF host_position = 0
     THEN /\ mode' = "NUM_ROUNDS" /\ Reset_number_of_rounds(TRUE) /\ chosen' = "MP_GAME"
          /\ UNCHANGED max_buttons_size
     ELSE mode' = "MP_GAME" /\ UNCHANGED rounds

\* host_update_status
Host_update_status ==
  /\ Event("HOST")
  /\ \/ Up /\ host_position' = HostUp /\ UNCHANGED <<mode, rounds>>
     \/ Down /\ host_position' = (host_position + 1) % HOST_NUM_SELECTIONS
        /\ UNCHANGED <<mode, rounds>>
     \/ HostEnter
     \/ ~Up /\ ~Down /\ ~Released("enter") /\ UNCHANGED <<mode, host_position, rounds>>
  /\ UNCHANGED <<count, position, game_end, name>>
  /\ Loop

\* Mutant: any key leaves the screen.
BackKey_any == \E k \in Plain : Reported(k)

\* BACKSPACE, without a look at whether it goes down.
BackKey == Reported("backspace")

\* how_to_play_update_status and leaderboard_update_status
BackToMenu ==
  /\ Event("HOW_TO_PLAY") \/ Event("LEADERBOARD")
  /\ mode' = IF BackKey THEN "MENU" ELSE mode
  /\ UNCHANGED <<selection, rounds, game_end, name>>
  /\ Loop

-----------------------------------------------------------------------------
(* The games and the name of a winner                                      *)

\* create_name_box
Create_name_box == new_hiscore' = Create_text_box(400, NAME_MAX)

\* game_update_status_key and what the alarm does to a game that is over: the
\* high score screen with reset_hiscore, or the leaderboard.
LeaveGame ==
  \/ mode' = "HIGHSCORE" /\ Create_name_box /\ UNCHANGED player
  \/ mode' = "LEADERBOARD" /\ UNCHANGED name

\* event_handler, GAME and MP_GAME: ENTER leaves a game that is over; the other
\* handlers may end it, leave it when the alarm came, or, on a computer that
\* connects, reset it when the host answers (start_game).
GameEvent(g) ==
  /\ Event(g)
  /\ \/ game_end[g] /\ UNCHANGED game_end /\ LeaveGame
     \/ game_end[g] /\ ~Reported("enter") /\ UNCHANGED <<mode, game_end, name>>
     \/ ~game_end[g] /\ game_end' = [game_end EXCEPT ![g] = TRUE] /\ LeaveGame
     \/ ~game_end[g] /\ game_end' \in {game_end, [game_end EXCEPT ![g] = TRUE]}
        /\ UNCHANGED <<mode, name>>
     \/ g = "MP_GAME" /\ game_end' = [game_end EXCEPT ![g] = FALSE]
        /\ UNCHANGED <<mode, name>>
  /\ UNCHANGED <<selection, rounds>>
  /\ Loop

\* highscore_update_status: the string is not emptied for the next winner.
Highscore_update_status ==
  /\ Event("HIGHSCORE")
  /\ \/ /\ Released("enter") /\ player # 0
        /\ mode' = "LEADERBOARD" /\ UNCHANGED name
     \/ /\ \E k \in Digits \cup Letters : Released(k) /\ new_hiscore' = Add(new_hiscore, k)
        /\ player' = IF Takes(new_hiscore) THEN player + 1 ELSE player
        /\ UNCHANGED mode
     \/ /\ Released("backspace")
        /\ new_hiscore' = Remove(new_hiscore)
        /\ player' = IF player = 0 THEN 0 ELSE player - 1
        /\ UNCHANGED mode
     \/ /\ \A k \in Digits \cup Letters \cup {"backspace"} : ~Released(k)
        /\ ~(Released("enter") /\ player # 0)
        /\ UNCHANGED <<mode, name>>
  /\ UNCHANGED <<selection, rounds, game_end>>
  /\ Loop

-----------------------------------------------------------------------------

NoBox == [char_prop |-> << >>, char_max_size |-> 0, cursor_x |-> 0, xi |-> 0]

Init ==
  /\ mode = "MENU" /\ running = TRUE /\ due = FALSE
  /\ got_key_press = FALSE /\ keyboard_packet = [key |-> NONE, down |-> FALSE]
  /\ word = "start" /\ esc = FALSE
  /\ count = 0 /\ position = 0 /\ host_position = 0
  /\ num_rounds = NoBox /\ num_rounds_value = 0 /\ is_mp = FALSE /\ max_buttons_size = 0
  /\ game_end = [g \in {"GAME", "MP_GAME"} |-> FALSE]
  /\ new_hiscore = NoBox /\ player = 0
  /\ chosen = NONE /\ again = FALSE

\* run() has returned, or is not followed any more.
Over == (~running \/ (~due /\ player > MaxName)) /\ UNCHANGED vars

Next ==
  \/ Notify
  \/ MenuEvent \/ Host_update_status \/ BackToMenu \/ Number_of_rounds_update_status
  \/ GameEvent("GAME") \/ GameEvent("MP_GAME") \/ Highscore_update_status
  \/ Over

Spec == Init /\ [][Next]_vars

-----------------------------------------------------------------------------
(* Properties                                                              *)

\* What a text box is made of.
BoxType(keys) == [char_prop : Seq(keys), char_max_size : Nat, cursor_x : Int, xi : Int]

\* Every variable has a value of its type; the selections stay on their screens.
TypeOK ==
  /\ mode \in {"MENU", "HOW_TO_PLAY", "LEADERBOARD", "NUM_ROUNDS", "GAME", "HIGHSCORE",
               "HOST", "MP_GAME", "EXIT"}
  /\ {running, due, got_key_press, esc, is_mp, again} \subseteq BOOLEAN
  /\ keyboard_packet \in [key : Keys, down : BOOLEAN] /\ word \in {"start", "first", "whole"}
  /\ count \in 0..1
  /\ position \in 0..(MENU_NUM_SELECTIONS - 1) /\ host_position \in 0..(HOST_NUM_SELECTIONS - 1)
  /\ num_rounds \in BoxType(Digits) /\ num_rounds_value \in Nat
  /\ max_buttons_size \in Nat
  /\ game_end \in [{"GAME", "MP_GAME"} -> BOOLEAN]
  /\ new_hiscore \in BoxType(Digits \cup Letters) /\ player \in 0..(MaxName + 1)
  /\ chosen \in {"GAME", "MP_GAME", NONE}

\* The number a text of digits stands for.
Number(text) ==
  LET upTo[n \in 0..Len(text)] == IF n = 0 THEN 0 ELSE upTo[n - 1] * 10 + Digit[text[n]]
  IN  upTo[Len(text)]

\* The number of rounds that will be played is the one in the box, though box
\* and number are edited apart: past the third digit, by BACKSPACE on an empty
\* box, with leading zeros, and by keys that are reported twice.
RoundsShown == num_rounds_value = Number(num_rounds.char_prop)

\* Both boxes keep their text around the middle of the screen, however often it
\* is typed and erased.
BoxesCentred ==
  /\ mode = "NUM_ROUNDS" => Centred(num_rounds, 400)
  /\ mode = "HIGHSCORE" => Centred(new_hiscore, 400)

\* A game begins with at least one round and at most 999, and on the screen of
\* the kind the player chose two or three screens before.
StartsAsChosen ==
  [][mode = "NUM_ROUNDS" /\ mode' # mode =>
       mode' = chosen /\ max_buttons_size' \in 1..999 /\ ~game_end'[mode']]_vars

\* A key that is handled a second time, because the first byte of an arrow came
\* right after it, may go one screen further: through the two menus on the way
\* to the number of rounds, out of a game that ended in the same notification or
\* the leaderboard after it, past the name of a winner if the last one has left
\* theirs, and out of the menu if the menu did not look at it before (count).  It
\* never begins a game and never chooses EXIT.
HandledAgain ==
  [][again /\ mode' # mode =>
       \/ <<mode, mode'>> \in {<<"MENU", "NUM_ROUNDS">>, <<"HOST", "NUM_ROUNDS">>,
                              <<"HIGHSCORE", "LEADERBOARD">>, <<"LEADERBOARD", "MENU">>}
       \/ mode \in {"GAME", "MP_GAME"}]_vars
=============================================================================
