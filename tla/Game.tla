-------------------------------- MODULE Game --------------------------------
(***************************************************************************)
(* The game two people play on one computer (proj/game.c), driven by the   *)
(* event loop of proj/simon.c.                                             *)
(*                                                                         *)
(* One interrupt notification may carry several interrupts.  simon.c turns *)
(* it into the set pend of handlers that event_handler then calls, always  *)
(* in the order key, mouse, timer, rtc, and without looking at game.mode   *)
(* again: a handler may run after an earlier one has left the game.        *)
(*                                                                         *)
(* Abstracted: the pointer's position is the button under it, any button   *)
(* or none; rand() is a free choice; a score is compared with a lowest     *)
(* high score chosen when the game starts.                                 *)
(***************************************************************************)
EXTENDS Integers, Sequences, FiniteSets

CONSTANTS
  Colours,          \* the coloured buttons (button_click_t without VS_B)
  VS_B,             \* the VS button
  NO_BUTTON,        \* no button under the pointer, or no new press
  Rounds,           \* the numbers of rounds a player may ask for
  INTERVAL,         \* ticks to press the next button
  VS_INTERVAL,      \* ticks to add buttons once VS was pressed
  LowestScores,     \* values getLowestHiScore() may return
  MaxSequence       \* bound of the model: longest sequence followed

Buttons == Colours \cup {VS_B}

ASSUME ButtonsAssumption ==
  /\ VS_B \notin Colours
  /\ NO_BUTTON \notin Buttons
ASSUME LightsAssumption == Colours \cap {"DEFAULT", "VS", "WHITE"} = {}
ASSUME RoundsAssumption == Rounds \subseteq Nat \ {0}
ASSUME IntervalAssumption == INTERVAL \in Nat \ {0} /\ VS_INTERVAL \in Nat \ {0}
ASSUME ScoresAssumption == LowestScores \subseteq Nat
ASSUME MaxSequenceAssumption == MaxSequence \in Nat

VARIABLES
  mode,                 \* game.mode; "OTHER" is any screen outside the game
  buttons,              \* the sequence; Len(buttons) is buttons_size
  max_buttons_size,     \* the entries malloc reserved
  guessed,              \* how many of them the player has repeated
  is_player_1,
  time_left_for_click,  \* -1: no limit
  game_end,
  VS_was_pressed,
  is_vs_round,
  ws,                   \* the winner screen
  player_score,
  mouse,                \* left_hold and left_click
  ps,                   \* what the play screen shows lit
  freed,                \* calls of free(buttons) since the last malloc
  alarm,                \* the RTC alarm: every "seconds", or "timed" once a minute
  lowest,               \* what getLowestHiScore() returns
  pend,                 \* handlers still to be called for this notification
  scorer                \* history: is_player_1 when player_score was last set

screen == <<mode, ws, player_score, lowest, scorer>>
turn   == <<is_player_1, VS_was_pressed, is_vs_round>>
memory == <<buttons, max_buttons_size, freed>>
vars   == <<screen, turn, memory, guessed, time_left_for_click, game_end,
            mouse, ps, alarm, pend>>

Handlers == {"key", "mouse", "timer", "rtc"}

-----------------------------------------------------------------------------
(* Helpers of game.c                                                       *)

\* Mutant: the VS interval is not closed.
Is_VS_round_keepsVS == is_vs_round' \in BOOLEAN /\ UNCHANGED VS_was_pressed

\* is_VS_round: a coin decides whether the round is a VS round.
Is_VS_round ==
  /\ is_vs_round' \in BOOLEAN
  /\ VS_was_pressed' = FALSE

\* The turn goes to the other player.
ChangePlayer == is_player_1' = ~is_player_1

\* Mutant: the player to move wins.
Get_winner_swapped == ws' = IF is_player_1 THEN "WINNER1" ELSE "WINNER2"

\* get_winner: the player whose turn it is has lost.
Get_winner == ws' = IF is_player_1 THEN "WINNER2" ELSE "WINNER1"

\* end_game, without the alarm: every caller says which alarm is left set.
\* free() is counted up to 2: what a second free() does is undefined.
End_game ==
  /\ game_end' = TRUE
  /\ freed' = IF freed < 2 THEN freed + 1 ELSE 2

\* The screen that follows a finished game, by checkNewHiScore unless it is a
\* tie; w is the value of ws the handler has by now.
NextScreen(w) ==
  mode' = IF w # "TIE" /\ player_score > lowest THEN "HIGHSCORE" ELSE "LEADERBOARD"

\* light_button, called after click_button.
Light_button(click) ==
  ps' = CASE click \in Colours -> click
          [] click = VS_B      -> IF VS_was_pressed' /\ time_left_for_click' = VS_INTERVAL
                                  THEN "VS" ELSE "WHITE"
          [] OTHER             -> "DEFAULT"

\* buttons[guessed] == click.  Past the reserved entries the array holds
\* whatever else the heap keeps there, so both answers are possible.
IsNext(click)    == guessed >= max_buttons_size \/ buttons[guessed + 1] = click
IsNotNext(click) == guessed >= max_buttons_size \/ buttons[guessed + 1] # click

-----------------------------------------------------------------------------
(* click_button, one action per outcome                                    *)

Adding == guessed = Len(buttons) \/ VS_was_pressed

\* Mutant: the buttons on record are counted instead of the repeated ones.
AllRounds_onLength == Len(buttons) = max_buttons_size

\* Mutant: one more button than there are rounds.
AllRounds_oneMore == guessed > max_buttons_size

\* As many buttons as there are rounds were repeated.
AllRounds == guessed = max_buttons_size

\* A click in the adding branch counts the repeated sequence as the score.
SetScore ==
  IF guessed = Len(buttons)
  THEN player_score' = Len(buttons) /\ scorer' = is_player_1
  ELSE UNCHANGED <<player_score, scorer>>

\* The sequence has all its buttons: nobody lost.
Tie(click) ==
  /\ click # NO_BUTTON
  /\ Adding
  /\ AllRounds
  /\ SetScore
  /\ ws' = "TIE"
  /\ End_game
  /\ alarm' = "timed"
  /\ UNCHANGED <<mode, lowest, turn, buttons, max_buttons_size, guessed, time_left_for_click>>

\* VS in a VS round: the player keeps adding until VS_INTERVAL is over.
StartVS(click) ==
  /\ click = VS_B
  /\ Adding
  /\ ~AllRounds
  /\ is_vs_round /\ ~VS_was_pressed
  /\ Len(buttons) < MaxSequence
  /\ SetScore
  /\ VS_was_pressed' = TRUE
  /\ buttons' = Append(buttons, click)
  /\ time_left_for_click' = VS_INTERVAL
  /\ UNCHANGED <<mode, ws, lowest, is_player_1, is_vs_round, max_buttons_size, freed,
                 guessed, game_end, alarm>>

\* Any other new button; outside a VS interval it also ends the turn.
AddButton(click) ==
  /\ click # NO_BUTTON
  /\ Adding
  /\ ~AllRounds
  /\ ~(is_vs_round /\ click = VS_B /\ ~VS_was_pressed)
  /\ Len(buttons) < MaxSequence
  /\ SetScore
  /\ buttons' = Append(buttons, click)
  /\ guessed' = 0
  /\ IF VS_was_pressed
     THEN UNCHANGED <<turn, time_left_for_click>>
     ELSE /\ ChangePlayer
          /\ Is_VS_round
          /\ time_left_for_click' = INTERVAL
  /\ UNCHANGED <<mode, ws, lowest, max_buttons_size, freed, game_end, alarm>>

\* Mutant: the countdown is not stopped by the last button.
ClockAfterGuess_runs == INTERVAL

\* No limit once the last button was repeated.
ClockAfterGuess == IF guessed + 1 = Len(buttons) THEN -1 ELSE INTERVAL

\* The next button of the sequence.
GuessRight(click) ==
  /\ click # NO_BUTTON
  /\ ~Adding
  /\ IsNext(click)
  /\ guessed' = guessed + 1
  /\ time_left_for_click' = ClockAfterGuess
  /\ UNCHANGED <<screen, turn, memory, game_end, alarm>>

\* A mistake ends the game.
GuessWrong(click) ==
  /\ click # NO_BUTTON
  /\ ~Adding
  /\ IsNotNext(click)
  /\ Get_winner
  /\ End_game
  /\ alarm' = "timed"
  /\ UNCHANGED <<mode, lowest, player_score, scorer, turn, buttons, max_buttons_size,
                 guessed, time_left_for_click>>

NoClick(click) ==
  /\ click = NO_BUTTON
  /\ UNCHANGED <<screen, turn, memory, guessed, time_left_for_click, game_end, alarm>>

Click_button(click) ==
  \/ Tie(click)
  \/ StartVS(click)
  \/ AddButton(click)
  \/ GuessRight(click)
  \/ GuessWrong(click)
  \/ NoClick(click)

-----------------------------------------------------------------------------
(* The handlers                                                            *)

\* The handler h is the next one event_handler calls.
Called(h, before) ==
  /\ h \in pend
  /\ pend \cap before = {}
  /\ pend' = pend \ {h}

\* game_update_status_key: ENTER leaves the winner screen.  The alarm
\* end_game set is not reset here.
Update_status_key(key) ==
  /\ Called("key", {})
  /\ IF game_end /\ key = "ENTER" THEN NextScreen(ws) ELSE UNCHANGED mode
  /\ UNCHANGED <<ws, player_score, lowest, scorer, turn, memory, guessed,
                 time_left_for_click, game_end, mouse, ps, alarm>>

\* A press counts once, when the left button goes down; target is the button
\* under the pointer.
ButtonClick(lb, target) ==
  IF lb /\ ~mouse.left_hold THEN target ELSE NO_BUTTON

\* Mutant: clicks are handled after the end of the game.
IgnoresMouse_never == FALSE

\* The early return of game_update_status_mouse.
IgnoresMouse == game_end

\* game_update_status_mouse for a packet with left button lb.
Update_status_mouse(lb, target) ==
  /\ Called("mouse", {"key"})
  /\ IF IgnoresMouse
     THEN UNCHANGED <<screen, turn, memory, guessed, time_left_for_click, game_end,
                      mouse, ps, alarm>>
     ELSE LET click == ButtonClick(lb, target) IN
          /\ mouse' = [left_hold |-> lb, left_click |-> click # NO_BUTTON]
          /\ Click_button(click)
          /\ Light_button(click)

\* game_update_status_timer
Update_status_timer ==
  /\ Called("timer", {"key", "mouse"})
  /\ mouse' = [mouse EXCEPT !.left_click = FALSE]
  /\ UNCHANGED <<screen, turn, memory, guessed, time_left_for_click, game_end, ps, alarm>>

\* Mutant: no limit counts as no time left.
OutOfTime_noLimit == time_left_for_click <= 0

\* The player's time is over.
OutOfTime == time_left_for_click = 0

\* Mutant: the countdown does not stop at no limit.
Ticked_always == time_left_for_click - 1

\* One tick less, if there is a limit.
Ticked == IF time_left_for_click > 0 THEN time_left_for_click - 1 ELSE time_left_for_click

\* The countdown in game_update_status_rtc: a player out of time loses, a VS
\* interval that is over passes the turn, otherwise one tick less.
TimeOut ==
  /\ OutOfTime /\ ~VS_was_pressed
  /\ Get_winner
  /\ End_game
  /\ UNCHANGED <<turn, time_left_for_click>>

VSTimeOut ==
  /\ OutOfTime /\ VS_was_pressed /\ is_vs_round
  /\ ChangePlayer
  /\ time_left_for_click' = INTERVAL
  /\ Is_VS_round
  /\ UNCHANGED <<ws, game_end, freed>>

CountDown ==
  /\ ~(OutOfTime /\ (VS_was_pressed => is_vs_round))
  /\ time_left_for_click' = Ticked
  /\ UNCHANGED <<ws, game_end, freed, turn>>

\* Mutant: only a game with a winner is left.
LeaveFinished_notTie ==
  IF game_end' /\ ws' # "TIE" THEN alarm' = "seconds" /\ NextScreen(ws')
                              ELSE UNCHANGED <<alarm, mode>>

\* Mutant: the way out is the else branch of the countdown.
LeaveFinished_nextAlarm ==
  IF game_end' /\ ~OutOfTime THEN alarm' = "seconds" /\ NextScreen(ws')
                             ELSE UNCHANGED <<alarm, mode>>

\* A finished game goes on to the next screen, with the alarm back to seconds.
LeaveFinished ==
  IF game_end' THEN alarm' = "seconds" /\ NextScreen(ws')
               ELSE UNCHANGED <<alarm, mode>>

\* game_update_status_rtc: the countdown, then the way out of a finished game.
Update_status_rtc ==
  /\ Called("rtc", {"key", "mouse", "timer"})
  /\ TimeOut \/ VSTimeOut \/ CountDown
  /\ LeaveFinished
  /\ UNCHANGED <<player_score, lowest, scorer, buttons, max_buttons_size, guessed, mouse, ps>>

-----------------------------------------------------------------------------
(* The event loop around the game                                          *)

\* reset_game, called by the number-of-rounds screen.
Reset_game(num_rounds) ==
  /\ mouse' = [left_hold |-> FALSE, left_click |-> FALSE]
  /\ max_buttons_size' = num_rounds
  /\ buttons' = << >>
  /\ freed' = 0
  /\ player_score' = 0
  /\ guessed' = 0
  /\ is_player_1' = TRUE
  /\ game_end' = FALSE
  /\ ps' = "DEFAULT"
  /\ time_left_for_click' = -1
  /\ Is_VS_round

\* ENTER on the number-of-rounds screen.  The screens between two games may
\* have changed the leaderboard.
StartGame(num_rounds) ==
  /\ pend = {}
  /\ mode # "GAME"
  /\ mode' = "GAME"
  /\ Reset_game(num_rounds)
  /\ lowest' \in LowestScores
  /\ scorer' = TRUE
  /\ UNCHANGED <<ws, alarm, pend>>

\* run: a notification arrives while the game is on screen.
Notify(hs) ==
  /\ pend = {}
  /\ mode = "GAME"
  /\ pend' = hs
  /\ UNCHANGED <<screen, turn, memory, guessed, time_left_for_click, game_end, mouse, ps,
                 alarm>>

Notifications == SUBSET Handlers \ {{}}

\* The statics of game.c are zero, run() has set the alarm to every second.
Init ==
  /\ mode = "OTHER"
  /\ buttons = << >>
  /\ max_buttons_size = 0
  /\ guessed = 0
  /\ is_player_1 = FALSE
  /\ time_left_for_click = 0
  /\ game_end = FALSE
  /\ VS_was_pressed = FALSE
  /\ is_vs_round = FALSE
  /\ ws = "WINNER1"
  /\ player_score = 0
  /\ mouse = [left_hold |-> FALSE, left_click |-> FALSE]
  /\ ps = "DEFAULT"
  /\ freed = 0
  /\ alarm = "seconds"
  /\ lowest \in LowestScores
  /\ pend = {}
  /\ scorer = FALSE

MouseStep == \E lb \in BOOLEAN, target \in Buttons \cup {NO_BUTTON} :
               Update_status_mouse(lb, target)
KeyStep == \E key \in {"ENTER", "other"} : Update_status_key(key)
HandlerStep == KeyStep \/ MouseStep \/ Update_status_timer \/ Update_status_rtc
Tick == \E hs \in Notifications : "rtc" \in hs /\ Notify(hs)

Next ==
  \/ \E n \in Rounds : StartGame(n)
  \/ \E hs \in Notifications : Notify(hs)
  \/ HandlerStep

\* event_handler always runs to its end, and the RTC alarm, whichever it is,
\* keeps coming back.
Fairness == WF_vars(HandlerStep) /\ SF_vars(Tick)

Spec == Init /\ [][Next]_vars
FairSpec == Spec /\ Fairness

-----------------------------------------------------------------------------
(* Properties                                                              *)

\* The types of the flags and of the rest of the state.
FlagsOK ==
  /\ is_player_1 \in BOOLEAN
  /\ game_end \in BOOLEAN
  /\ VS_was_pressed \in BOOLEAN
  /\ is_vs_round \in BOOLEAN
  /\ scorer \in BOOLEAN

DataOK ==
  /\ mode \in {"OTHER", "GAME", "HIGHSCORE", "LEADERBOARD"}
  /\ buttons \in Seq(Buttons)
  /\ max_buttons_size \in Nat
  /\ guessed \in Nat
  /\ time_left_for_click \in Nat \cup {-1}
  /\ ws \in {"WINNER1", "WINNER2", "TIE"}
  /\ player_score \in Nat
  /\ mouse \in [left_hold : BOOLEAN, left_click : BOOLEAN]
  /\ ps \in Colours \cup {"DEFAULT", "VS", "WHITE"}
  /\ freed \in 0..2
  /\ alarm \in {"seconds", "timed"}
  /\ lowest \in Nat
  /\ pend \subseteq Handlers

\* Every variable of game.c has a value of its type.
TypeOK == FlagsOK /\ DataOK

\* A game is being played: the winner screen is not up yet.
Playing == mode = "GAME" /\ ~game_end

\* is_player_1 of the player the winner screen names.
Winner == ws = "WINNER1"

\* The countdown runs exactly while the player owes a button (a repetition
\* that is not finished, or a VS interval): only a player who has repeated
\* everything and has to think of a new button has no limit.
ClockMatchesDuty ==
  Playing => (time_left_for_click = -1 <=> guessed = Len(buttons) /\ ~VS_was_pressed)

\* The high score goes to whoever the winner screen names: the player who last
\* completed the sequence is the winner, and the loser failed at a longer one.
WinnerEarnedScore ==
  game_end /\ ws # "TIE" =>
    /\ player_score < Len(buttons)
    /\ player_score > 0 => scorer = Winner

\* A tie is declared only when a sequence of exactly the agreed number of
\* rounds was repeated in full.
TieIsComplete ==
  game_end /\ ws = "TIE" =>
    /\ Len(buttons) = max_buttons_size
    /\ guessed = max_buttons_size
    /\ player_score = max_buttons_size

\* What the play screen shows lit is a button on record: the one the player
\* just repeated or the one just added.
LitIsOnRecord ==
  Playing /\ ps # "DEFAULT" /\ Len(buttons) <= max_buttons_size =>
    LET lit == IF ps \in Colours THEN ps ELSE VS_B IN
    /\ buttons # << >>
    /\ \/ lit = buttons[Len(buttons)]
       \/ guessed > 0 /\ lit = buttons[guessed]

\* However the handlers of one or several notifications interleave, the result
\* of a finished game stands, and the screen chosen for it is chosen once.
ResultFinal ==
  [][game_end /\ game_end' =>
       /\ UNCHANGED <<ws, player_score, is_player_1>>
       /\ mode # "GAME" => mode' = mode]_vars

\* A button held down counts as one press, however many packets report it.
HoldClicksOnce ==
  [][guessed' > guessed \/ Len(buttons') > Len(buttons) =>
       ~mouse.left_hold /\ mouse'.left_hold]_vars

\* The sequence is neither read for a guess nor written after end_game freed it.
NoUseAfterFree ==
  [][mode = "GAME" /\ (guessed' # guessed \/ buttons' # buttons) => freed = 0]_vars

\* The array malloc reserved is first written past its end in a VS interval,
\* where the number of rounds is not looked at: every other turn adds one
\* button, and only while fewer than the agreed number were repeated.
OnlyVSOverflows ==
  [][Len(buttons) <= max_buttons_size /\ Len(buttons') > max_buttons_size' =>
       VS_was_pressed]_vars

\* end_game may run a second time for the same game, in an RTC handler that
\* finds no time left after a mistake (or after ENTER) ended it; that handler
\* is the last one of the game, so the memory is not freed a third time.
SecondFreeIsLast == freed = 2 => mode # "GAME" /\ pend = {}

\* Someone on the clock is not on it for ever: the sequence gets repeated, the
\* VS interval ends, or the game does.
ClockRunsOut ==
  (Playing /\ time_left_for_click >= 0) ~> (time_left_for_click = -1 \/ game_end)

\* The winner screen is always left, even if no key is ever pressed.
WinnerScreenLeft == (mode = "GAME" /\ game_end) ~> (mode # "GAME")

-----------------------------------------------------------------------------
(* The inductive invariant                                                 *)

\* While a game is on, the array is allocated, and a VS interval only follows
\* VS in a VS round, before the agreed number of rounds was repeated.
TurnInv ==
  mode = "GAME" /\ ~game_end =>
    /\ max_buttons_size > 0
    /\ freed = 0
    /\ guessed <= Len(buttons)
    /\ VS_was_pressed => is_vs_round /\ guessed < Len(buttons) /\ guessed # max_buttons_size

\* The score is of a shorter sequence than the one on record, earned by the
\* player who is not repeating it: in a VS interval that is the one to move.
ScoreInv ==
  mode = "GAME" /\ ~game_end =>
    /\ player_score < Len(buttons) \/ (player_score = 0 /\ buttons = << >>)
    /\ player_score > 0 => (scorer = is_player_1 <=> VS_was_pressed)

\* After the end nothing the RTC handler may still do changes the result.
OverInv ==
  game_end =>
    /\ ~VS_was_pressed
    /\ ws = "TIE" => time_left_for_click = -1
    /\ ws # "TIE" => ws = IF is_player_1 THEN "WINNER2" ELSE "WINNER1"

\* Handlers run outside the game only in the pass that ended it, and the next
\* screen is the one the result calls for.
ModeInv ==
  /\ mode = "OTHER" => pend = {} /\ ~game_end
  /\ mode \in {"HIGHSCORE", "LEADERBOARD"} =>
       /\ game_end
       /\ mode = "HIGHSCORE" <=> ws # "TIE" /\ player_score > lowest

\* Together with the three invariants on the clock, the winner and the tie,
\* this is preserved by every step.
GameInv ==
  /\ TypeOK /\ TurnInv /\ ScoreInv /\ OverInv /\ ModeInv
  /\ ClockMatchesDuty /\ WinnerEarnedScore /\ TieIsComplete

-----------------------------------------------------------------------------
(* What the repository says of the program and the code does not do        *)

\* consts.h: the intervals are counted in seconds, so a running game has the
\* alarm at every second.
PlayedInSeconds == Playing => alarm = "seconds"
=============================================================================
