----------------------------- MODULE GameProofs -----------------------------
(***************************************************************************)
(* Proofs about Game, for any set of buttons, any numbers of rounds, any   *)
(* intervals and any length of the sequence.                               *)
(***************************************************************************)
EXTENDS Game, TLAPS

-----------------------------------------------------------------------------
(* Type correctness                                                        *)

(* The initial state of game.c is type correct. *)
LEMMA TypeInit == Init => TypeOK
<1>1. Init => FlagsOK
  BY Zenon DEF Init, FlagsOK
<1>2. Init => DataOK
  BY ScoresAssumption DEF Init, DataOK
<1> QED
  BY <1>1, <1>2 DEF TypeOK

(* No step gives one of the flags another value than TRUE or FALSE. *)
LEMMA FlagsStep == TypeOK /\ [Next]_vars => FlagsOK'
<1> SUFFICES ASSUME TypeOK, [Next]_vars PROVE FlagsOK'
  OBVIOUS
<1> USE DEF TypeOK, FlagsOK, screen, turn
<1>1. ASSUME NEW n \in Rounds, StartGame(n) PROVE FlagsOK'
  BY <1>1 DEF StartGame, Reset_game, Is_VS_round
<1>2. ASSUME NEW hs \in Notifications, Notify(hs) PROVE FlagsOK'
  BY <1>2 DEF Notify
<1>3. ASSUME NEW key, Update_status_key(key) PROVE FlagsOK'
  BY <1>3 DEF Update_status_key
<1>4. ASSUME NEW lb, NEW target, Update_status_mouse(lb, target) PROVE FlagsOK'
  <2>1. CASE game_end
    BY <1>4, <2>1 DEF Update_status_mouse, IgnoresMouse
  <2>2. ASSUME NEW click, Click_button(click) PROVE FlagsOK'
    BY <2>2, Zenon
    DEF Click_button, Tie, StartVS, AddButton, GuessRight, GuessWrong, NoClick,
        SetScore, End_game, ChangePlayer, Is_VS_round
  <2> QED
    BY <1>4, <2>1, <2>2 DEF Update_status_mouse, IgnoresMouse
<1>5. CASE Update_status_timer
  BY <1>5 DEF Update_status_timer
<1>6. CASE Update_status_rtc
  BY <1>6, Zenon
  DEF Update_status_rtc, TimeOut, VSTimeOut, CountDown, OutOfTime, Ticked, End_game, ChangePlayer, Is_VS_round
<1>7. CASE UNCHANGED vars
  BY <1>7 DEF vars
<1> QED
  BY <1>1, <1>2, <1>3, <1>4, <1>5, <1>6, <1>7
  DEF Next, HandlerStep, KeyStep, MouseStep

(* No step takes the rest of the state outside its type. *)
LEMMA DataStep == TypeOK /\ [Next]_vars => DataOK'
<1> SUFFICES ASSUME TypeOK, [Next]_vars PROVE DataOK'
  OBVIOUS
<1> USE DEF TypeOK, DataOK, screen, memory
<1>1. ASSUME NEW n \in Rounds, StartGame(n) PROVE DataOK'
  BY <1>1, RoundsAssumption, ScoresAssumption DEF StartGame, Reset_game
<1>2. ASSUME NEW hs \in Notifications, Notify(hs) PROVE DataOK'
  BY <1>2 DEF Notify, Notifications
<1>3. ASSUME NEW key, Update_status_key(key) PROVE DataOK'
  BY <1>3 DEF Update_status_key, Called, NextScreen
<1>4. ASSUME NEW lb \in BOOLEAN, NEW target \in Buttons \cup {NO_BUTTON},
             Update_status_mouse(lb, target)
      PROVE  DataOK'
  <2>1. CASE game_end
    BY <1>4, <2>1 DEF Update_status_mouse, IgnoresMouse, Called
  <2>2. CASE ~game_end
    <3> DEFINE click == ButtonClick(lb, target)
    <3>1. /\ click \in Buttons \cup {NO_BUTTON}
          /\ Click_button(click) /\ Light_button(click)
          /\ mouse' = [left_hold |-> lb, left_click |-> click # NO_BUTTON]
          /\ pend' = pend \ {"mouse"}
      BY <1>4, <2>2 DEF Update_status_mouse, IgnoresMouse, Called, ButtonClick
    <3> HIDE DEF click
    <3>2. ps' \in Colours \cup {"DEFAULT", "VS", "WHITE"}
      BY <3>1 DEF Light_button, Buttons
    <3>3. mouse' \in [left_hold : BOOLEAN, left_click : BOOLEAN] /\ pend' \subseteq Handlers
      BY <3>1
    <3>4. CASE Tie(click)
      BY <3>2, <3>3, <3>4 DEF Tie, SetScore, End_game
    <3>5. CASE StartVS(click)
      BY <3>2, <3>3, <3>5, IntervalAssumption DEF StartVS, SetScore, Buttons
    <3>6. CASE AddButton(click)
      BY <3>1, <3>2, <3>3, <3>6, IntervalAssumption DEF AddButton, SetScore
    <3>7. CASE GuessRight(click)
      BY <3>2, <3>3, <3>7, IntervalAssumption DEF GuessRight, ClockAfterGuess
    <3>8. CASE GuessWrong(click)
      BY <3>2, <3>3, <3>8 DEF GuessWrong, Get_winner, End_game
    <3>9. CASE NoClick(click)
      BY <3>2, <3>3, <3>9 DEF NoClick
    <3> QED
      BY <3>1, <3>4, <3>5, <3>6, <3>7, <3>8, <3>9 DEF Click_button
  <2> QED
    BY <2>1, <2>2
<1>5. CASE Update_status_timer
  BY <1>5 DEF Update_status_timer, Called
<1>6. CASE Update_status_rtc
  BY <1>6, IntervalAssumption
  DEF Update_status_rtc, Called, TimeOut, VSTimeOut, CountDown, OutOfTime, Ticked, Get_winner, End_game,
      LeaveFinished, NextScreen
<1>7. CASE UNCHANGED vars
  BY <1>7 DEF vars
<1> QED
  BY <1>1, <1>2, <1>3, <1>4, <1>5, <1>6, <1>7
  DEF Next, HandlerStep, KeyStep, MouseStep

(* Every step of the event loop and of the handlers keeps the types. *)
LEMMA TypeStep == TypeOK /\ [Next]_vars => TypeOK'
BY FlagsStep, DataStep DEF TypeOK

(* Every variable keeps its type: no handler leaves a value of game.c's state
   outside what the other handlers expect. *)
THEOREM TypeCorrect == Spec => []TypeOK
BY TypeInit, TypeStep, PTL DEF Spec

-----------------------------------------------------------------------------
(* The inductive invariant                                                 *)

(* The initial state satisfies the inductive invariant. *)
LEMMA InvInit == Init => GameInv
BY TypeInit
DEF Init, GameInv, TurnInv, ScoreInv, OverInv, ModeInv, ClockMatchesDuty,
    WinnerEarnedScore, TieIsComplete, Playing

(* Starting a game establishes the invariant, whatever the last game left. *)
LEMMA StartGameInv ==
  ASSUME GameInv, NEW n \in Rounds, StartGame(n), TypeOK'
  PROVE  GameInv'
BY RoundsAssumption
DEF StartGame, Reset_game, Is_VS_round, GameInv, TurnInv, ScoreInv, OverInv, ModeInv,
    ClockMatchesDuty, WinnerEarnedScore, TieIsComplete, Playing

(* A key may only leave the winner screen. *)
LEMMA KeyInv ==
  ASSUME GameInv, NEW key, Update_status_key(key), TypeOK'
  PROVE  GameInv'
BY DEF Update_status_key, Called, NextScreen, screen, turn, memory, GameInv, TypeOK, DataOK,
       TurnInv, ScoreInv, OverInv, ModeInv, ClockMatchesDuty, WinnerEarnedScore,
       TieIsComplete, Playing, Winner

(* A click, by the outcomes of click_button. *)
LEMMA ClickInv ==
  ASSUME GameInv, TypeOK', mode = "GAME", ~game_end,
         NEW click \in Buttons \cup {NO_BUTTON}, Click_button(click)
  PROVE  GameInv'
<1> USE DEF GameInv, TypeOK, DataOK, FlagsOK, TurnInv, ScoreInv, OverInv, ModeInv, ClockMatchesDuty,
            WinnerEarnedScore, TieIsComplete, Playing, Winner, Adding, AllRounds, screen, turn, memory
<1>1. CASE Tie(click)
  BY <1>1 DEF Tie, SetScore, End_game
<1>2. CASE StartVS(click)
  BY <1>2, IntervalAssumption DEF StartVS, SetScore
<1>3. CASE AddButton(click)
  BY <1>3, IntervalAssumption DEF AddButton, SetScore, ChangePlayer, Is_VS_round
<1>4. CASE GuessRight(click)
  BY <1>4, IntervalAssumption DEF GuessRight, ClockAfterGuess
<1>5. CASE GuessWrong(click)
  BY <1>5 DEF GuessWrong, Get_winner, End_game
<1>6. CASE NoClick(click)
  BY <1>6 DEF NoClick
<1> QED
  BY <1>1, <1>2, <1>3, <1>4, <1>5, <1>6 DEF Click_button

(* A tick, by the outcomes of the countdown. *)
LEMMA RtcInv ==
  ASSUME GameInv, TypeOK', Update_status_rtc
  PROVE  GameInv'
<1> USE DEF GameInv, TypeOK, DataOK, FlagsOK, TurnInv, ScoreInv, OverInv, ModeInv, ClockMatchesDuty,
            WinnerEarnedScore, TieIsComplete, Playing, Winner, turn, Update_status_rtc,
            Called, LeaveFinished, NextScreen
<1>1. CASE TimeOut
  BY <1>1 DEF TimeOut, OutOfTime, Get_winner, End_game
<1>2. CASE VSTimeOut
  BY <1>2, IntervalAssumption DEF VSTimeOut, OutOfTime, ChangePlayer, Is_VS_round
<1>3. CASE CountDown
  BY <1>3 DEF CountDown, OutOfTime, Ticked
<1> QED
  BY <1>1, <1>2, <1>3

(* Every step preserves the inductive invariant. *)
LEMMA InvStep == GameInv /\ [Next]_vars => GameInv'
<1> SUFFICES ASSUME GameInv, [Next]_vars PROVE GameInv'
  OBVIOUS
<1>1. TypeOK'
  BY TypeStep DEF GameInv
<1>2. ASSUME NEW n \in Rounds, StartGame(n) PROVE GameInv'
  BY <1>1, <1>2, StartGameInv
<1>3. ASSUME NEW hs \in Notifications, Notify(hs) PROVE GameInv'
  BY <1>1, <1>3
  DEF Notify, screen, turn, memory, GameInv, TurnInv, ScoreInv, OverInv, ModeInv,
      ClockMatchesDuty, WinnerEarnedScore, TieIsComplete, Playing, Winner
<1>4. ASSUME NEW key, Update_status_key(key) PROVE GameInv'
  BY <1>1, <1>4, KeyInv
<1>5. ASSUME NEW lb \in BOOLEAN, NEW target \in Buttons \cup {NO_BUTTON},
             Update_status_mouse(lb, target)
      PROVE  GameInv'
  <2>1. CASE game_end
    BY <1>1, <1>5, <2>1
    DEF Update_status_mouse, IgnoresMouse, Called, screen, turn, memory, GameInv, TurnInv, ScoreInv,
        OverInv, ModeInv, ClockMatchesDuty, WinnerEarnedScore, TieIsComplete, Playing, Winner
  <2>2. CASE ~game_end
    <3>1. mode = "GAME"
      BY <1>5, <2>2 DEF Update_status_mouse, IgnoresMouse, Called, GameInv, ModeInv, TypeOK, DataOK
    <3>2. ButtonClick(lb, target) \in Buttons \cup {NO_BUTTON}
      BY DEF ButtonClick
    <3> QED
      BY <1>1, <1>5, <2>2, <3>1, <3>2, ClickInv DEF Update_status_mouse, IgnoresMouse
  <2> QED
    BY <2>1, <2>2
<1>6. CASE Update_status_timer
  BY <1>1, <1>6
  DEF Update_status_timer, Called, screen, turn, memory, GameInv, TurnInv, ScoreInv,
      OverInv, ModeInv, ClockMatchesDuty, WinnerEarnedScore, TieIsComplete, Playing, Winner
<1>7. CASE Update_status_rtc
  BY <1>1, <1>7, RtcInv
<1>8. CASE UNCHANGED vars
  BY <1>1, <1>8
  DEF vars, screen, turn, memory, GameInv, TurnInv, ScoreInv, OverInv, ModeInv,
      ClockMatchesDuty, WinnerEarnedScore, TieIsComplete, Playing, Winner
<1> QED
  BY <1>2, <1>3, <1>4, <1>5, <1>6, <1>7, <1>8 DEF Next, HandlerStep, KeyStep, MouseStep

(* The inductive invariant holds in every reachable state of game.c. *)
THEOREM Invariant == Spec => []GameInv
BY InvInit, InvStep, PTL DEF Spec

(* The countdown of game.c runs exactly while the player owes a button. *)
THEOREM ClockCorrect == Spec => []ClockMatchesDuty
<1>1. GameInv => ClockMatchesDuty
  BY DEF GameInv
<1> QED
  BY <1>1, Invariant, PTL

(* The score that goes to the leaderboard is the winner's, and the loser
   failed at a longer sequence. *)
THEOREM ScoreCorrect == Spec => []WinnerEarnedScore
<1>1. GameInv => WinnerEarnedScore
  BY DEF GameInv
<1> QED
  BY <1>1, Invariant, PTL

(* A tie means the agreed number of rounds was repeated in full. *)
THEOREM TieCorrect == Spec => []TieIsComplete
<1>1. GameInv => TieIsComplete
  BY DEF GameInv
<1> QED
  BY <1>1, Invariant, PTL

-----------------------------------------------------------------------------
(* Action properties                                                       *)

(* No handler changes the result of a finished game or the screen chosen for
   it, in whatever combination one notification calls them. *)
THEOREM ResultIsFinal == Spec => ResultFinal
<1>1. GameInv /\ [Next]_vars =>
        [game_end /\ game_end' =>
           /\ UNCHANGED <<ws, player_score, is_player_1>>
           /\ mode # "GAME" => mode' = mode]_vars
  <2> SUFFICES ASSUME GameInv, Next, game_end, game_end'
               PROVE  /\ UNCHANGED <<ws, player_score, is_player_1>>
                      /\ mode # "GAME" => mode' = mode
    OBVIOUS
  <2> USE DEF screen, turn, memory
  <2>1. ASSUME NEW n \in Rounds PROVE ~StartGame(n)
    BY DEF StartGame, Reset_game
  <2>2. ASSUME NEW hs \in Notifications, Notify(hs)
        PROVE  UNCHANGED <<ws, player_score, is_player_1, mode>>
    BY <2>2 DEF Notify
  <2>3. ASSUME NEW key, Update_status_key(key)
        PROVE  UNCHANGED <<ws, player_score, is_player_1>> /\ (mode # "GAME" => mode' = mode)
    BY <2>3 DEF Update_status_key, NextScreen, GameInv, ModeInv, TypeOK, DataOK
  <2>4. ASSUME NEW lb, NEW target, Update_status_mouse(lb, target)
        PROVE  UNCHANGED <<ws, player_score, is_player_1, mode>>
    BY <2>4 DEF Update_status_mouse, IgnoresMouse
  <2>5. CASE Update_status_timer
    BY <2>5 DEF Update_status_timer
  <2>6. CASE Update_status_rtc
    BY <2>6
    DEF Update_status_rtc, TimeOut, VSTimeOut, CountDown, OutOfTime, Ticked, Get_winner, LeaveFinished, NextScreen, GameInv,
        ModeInv, OverInv, TypeOK, DataOK
  <2> QED
    BY <2>1, <2>2, <2>3, <2>4, <2>5, <2>6 DEF Next, HandlerStep, KeyStep, MouseStep
<1> QED
  BY <1>1, Invariant, PTL DEF Spec, ResultFinal

(* The array of buttons is not touched between free and the next malloc. *)
THEOREM ArrayLive == Spec => NoUseAfterFree
<1>1. GameInv /\ [Next]_vars =>
        [mode = "GAME" /\ (guessed' # guessed \/ buttons' # buttons) => freed = 0]_vars
  <2> SUFFICES ASSUME GameInv, Next, mode = "GAME", guessed' # guessed \/ buttons' # buttons
               PROVE  freed = 0
    OBVIOUS
  <2>1. ~game_end
    BY DEF Next, StartGame, Notify, HandlerStep, KeyStep, MouseStep, Update_status_key,
           Update_status_mouse, IgnoresMouse, Update_status_timer, Update_status_rtc, memory
  <2> QED
    BY <2>1 DEF GameInv, TurnInv
<1> QED
  BY <1>1, Invariant, PTL DEF Spec, NoUseAfterFree

(* One press of the mouse button is one click, whatever the packets. *)
THEOREM OneClickPerPress == Spec => HoldClicksOnce
<1>1. GameInv /\ [Next]_vars =>
        [guessed' > guessed \/ Len(buttons') > Len(buttons) =>
           ~mouse.left_hold /\ mouse'.left_hold]_vars
  <2> SUFFICES ASSUME GameInv, Next, guessed' > guessed \/ Len(buttons') > Len(buttons)
               PROVE  ~mouse.left_hold /\ mouse'.left_hold
    OBVIOUS
  <2> USE DEF GameInv, TypeOK, DataOK, memory
  <2>1. ASSUME NEW n \in Rounds, StartGame(n) PROVE FALSE
    BY <2>1 DEF StartGame, Reset_game
  <2>2. PICK lb \in BOOLEAN, target \in Buttons \cup {NO_BUTTON} :
          Update_status_mouse(lb, target)
    BY <2>1 DEF Next, Notify, HandlerStep, KeyStep, MouseStep, Update_status_key,
                Update_status_timer, Update_status_rtc
  <2>3. ~game_end
    BY <2>2 DEF Update_status_mouse, IgnoresMouse
  <2>4. ButtonClick(lb, target) # NO_BUTTON
    BY <2>2, <2>3, ButtonsAssumption
    DEF Update_status_mouse, IgnoresMouse, Click_button, Tie, StartVS, AddButton, GuessRight, GuessWrong,
        NoClick, Buttons
  <2> QED
    BY <2>2, <2>3, <2>4 DEF Update_status_mouse, IgnoresMouse, ButtonClick
<1> QED
  BY <1>1, Invariant, PTL DEF Spec, HoldClicksOnce

(* Outside a VS interval no turn takes the sequence past the entries malloc
   reserved for it. *)
THEOREM OverflowNeedsVS == Spec => OnlyVSOverflows
<1>1. GameInv /\ [Next]_vars =>
        [Len(buttons) <= max_buttons_size /\ Len(buttons') > max_buttons_size' =>
           VS_was_pressed]_vars
  <2> SUFFICES ASSUME GameInv, Next, ~VS_was_pressed, Len(buttons) <= max_buttons_size
               PROVE  ~(Len(buttons') > max_buttons_size')
    OBVIOUS
  <2> USE DEF GameInv, TypeOK, DataOK, memory
  <2>1. ASSUME NEW n \in Rounds, StartGame(n) PROVE ~(Len(buttons') > max_buttons_size')
    BY <2>1, RoundsAssumption DEF StartGame, Reset_game
  <2>2. ASSUME NEW lb, NEW target, Update_status_mouse(lb, target)
        PROVE  ~(Len(buttons') > max_buttons_size')
    <3>1. CASE game_end
      BY <2>2, <3>1 DEF Update_status_mouse, IgnoresMouse
    <3>2. ASSUME NEW click, Click_button(click) PROVE ~(Len(buttons') > max_buttons_size')
      BY <3>2
      DEF Click_button, Tie, StartVS, AddButton, GuessRight, GuessWrong, NoClick, Adding, AllRounds
    <3> QED
      BY <2>2, <3>1, <3>2 DEF Update_status_mouse, IgnoresMouse
  <2> QED
    BY <2>1, <2>2 DEF Next, Notify, HandlerStep, KeyStep, MouseStep, Update_status_key,
                      Update_status_timer, Update_status_rtc
<1> QED
  BY <1>1, Invariant, PTL DEF Spec, OnlyVSOverflows

(* The handler that frees the memory a second time is the last one to run for
   the game. *)
LEMMA FreeStep == GameInv /\ SecondFreeIsLast /\ [Next]_vars => SecondFreeIsLast'
<1> SUFFICES ASSUME GameInv, SecondFreeIsLast, [Next]_vars PROVE SecondFreeIsLast'
  OBVIOUS
<1> USE DEF SecondFreeIsLast, GameInv, TypeOK, DataOK, screen, memory
<1>1. ASSUME NEW n \in Rounds, StartGame(n) PROVE SecondFreeIsLast'
  BY <1>1 DEF StartGame, Reset_game
<1>2. ASSUME NEW hs \in Notifications, Notify(hs) PROVE SecondFreeIsLast'
  BY <1>2 DEF Notify
<1>3. ASSUME NEW key, Update_status_key(key) PROVE SecondFreeIsLast'
  BY <1>3 DEF Update_status_key, Called
<1>4. ASSUME NEW lb, NEW target, Update_status_mouse(lb, target) PROVE SecondFreeIsLast'
  <2>1. CASE game_end
    BY <1>4, <2>1 DEF Update_status_mouse, IgnoresMouse, Called
  <2>2. CASE ~game_end
    <3>1. mode = "GAME" /\ freed = 0
      BY <1>4, <2>2 DEF Update_status_mouse, Called, ModeInv, TurnInv
    <3>2. ASSUME NEW click, Click_button(click) PROVE freed' <= 1
      BY <3>1, <3>2
      DEF Click_button, Tie, StartVS, AddButton, GuessRight, GuessWrong, NoClick, End_game
    <3> QED
      BY <1>4, <2>2, <3>2 DEF Update_status_mouse, IgnoresMouse
  <2> QED
    BY <2>1, <2>2
<1>5. CASE Update_status_timer
  BY <1>5 DEF Update_status_timer, Called
<1>6. CASE Update_status_rtc
  <2>1. pend' = {}
    BY <1>6 DEF Update_status_rtc, Called, Handlers
  <2>2. CASE TimeOut
    BY <1>6, <2>1, <2>2 DEF Update_status_rtc, TimeOut, End_game, LeaveFinished, NextScreen
  <2>3. CASE VSTimeOut \/ CountDown
    BY <1>6, <2>3 DEF Update_status_rtc, Called, VSTimeOut, CountDown
  <2> QED
    BY <1>6, <2>2, <2>3 DEF Update_status_rtc
<1>7. CASE UNCHANGED vars
  BY <1>7 DEF vars
<1> QED
  BY <1>1, <1>2, <1>3, <1>4, <1>5, <1>6, <1>7 DEF Next, HandlerStep, KeyStep, MouseStep

(* However the handlers interleave, end_game frees the memory of a game at most
   twice, and nothing of the game runs after the second time. *)
THEOREM FreedTwiceAtMost == Spec => []SecondFreeIsLast
<1>1. Init => SecondFreeIsLast
  BY DEF Init, SecondFreeIsLast
<1> QED
  BY <1>1, FreeStep, Invariant, PTL DEF Spec

-----------------------------------------------------------------------------
(* What the play screen shows                                              *)

(* A click that leaves the game running lights the button it put on record or
   repeated, a packet without a click lights nothing. *)
LEMMA ClickLit ==
  ASSUME GameInv, Playing, LitIsOnRecord, NEW click \in Buttons \cup {NO_BUTTON},
         Click_button(click), Light_button(click), ~game_end'
  PROVE  LitIsOnRecord'
<1> USE DEF LitIsOnRecord, Playing, GameInv, TypeOK, DataOK, TurnInv, screen, memory
<1>1. SUFFICES ASSUME ps' # "DEFAULT", Len(buttons') <= max_buttons_size'
               PROVE  LET lit == IF ps' \in Colours THEN ps' ELSE VS_B IN
                      /\ buttons' # << >>
                      /\ \/ lit = buttons'[Len(buttons')]
                         \/ guessed' > 0 /\ lit = buttons'[guessed']
  OBVIOUS
<1>2. /\ click \in Buttons
      /\ (IF ps' \in Colours THEN ps' ELSE VS_B) = click
  BY <1>1, ButtonsAssumption, LightsAssumption DEF Light_button, Buttons
<1>3. CASE Tie(click) \/ GuessWrong(click)
  BY <1>3 DEF Tie, GuessWrong, End_game
<1>4. CASE StartVS(click) \/ AddButton(click)
  <2>1. buttons' = Append(buttons, click)
    BY <1>4 DEF StartVS, AddButton
  <2>2. buttons' # << >> /\ buttons'[Len(buttons')] = click
    BY <1>2, <2>1
  <2> QED
    BY <1>2, <2>2
<1>5. CASE GuessRight(click)
  <2>1. buttons' = buttons /\ max_buttons_size' = max_buttons_size /\ guessed' = guessed + 1
    BY <1>5 DEF GuessRight
  <2>2. guessed < Len(buttons)
    BY <1>5 DEF GuessRight, Adding
  <2>3. buttons[guessed + 1] = click
    BY <1>1, <1>5, <2>1, <2>2 DEF GuessRight, IsNext
  <2> QED
    BY <1>2, <2>1, <2>2, <2>3
<1>6. CASE NoClick(click)
  BY <1>2, <1>6, ButtonsAssumption DEF NoClick
<1> QED
  BY <1>3, <1>4, <1>5, <1>6 DEF Click_button

(* No step leaves a button lit that is not on record. *)
LEMMA LitStep == GameInv /\ LitIsOnRecord /\ [Next]_vars => LitIsOnRecord'
<1> SUFFICES ASSUME GameInv, LitIsOnRecord, [Next]_vars PROVE LitIsOnRecord'
  OBVIOUS
<1>1. ASSUME NEW n \in Rounds, StartGame(n) PROVE LitIsOnRecord'
  BY <1>1 DEF StartGame, Reset_game, LitIsOnRecord
<1>2. ASSUME UNCHANGED <<buttons, max_buttons_size, guessed, ps>>, Playing' => Playing
      PROVE  LitIsOnRecord'
  BY <1>2 DEF LitIsOnRecord
<1>3. ASSUME NEW lb, NEW target \in Buttons \cup {NO_BUTTON}, Update_status_mouse(lb, target)
      PROVE  LitIsOnRecord'
  <2>1. CASE game_end
    BY <1>2, <1>3, <2>1 DEF Update_status_mouse, IgnoresMouse, screen, memory, Playing
  <2>2. CASE ~game_end
    <3>1. Playing
      BY <1>3, <2>2 DEF Update_status_mouse, Called, GameInv, ModeInv, TypeOK, DataOK, Playing
    <3>2. CASE game_end'
      BY <3>2 DEF LitIsOnRecord, Playing
    <3>3. CASE ~game_end'
      BY <1>3, <2>2, <3>1, <3>3, ClickLit
      DEF Update_status_mouse, IgnoresMouse, ButtonClick
    <3> QED
      BY <3>2, <3>3
  <2> QED
    BY <2>1, <2>2
<1>4. ASSUME NEW key, Update_status_key(key) PROVE LitIsOnRecord'
  BY <1>2, <1>4 DEF Update_status_key, NextScreen, memory, Playing
<1>5. CASE Update_status_rtc
  BY <1>2, <1>5
  DEF Update_status_rtc, TimeOut, VSTimeOut, CountDown, End_game, LeaveFinished, NextScreen, Playing
<1> QED
  BY <1>1, <1>2, <1>3, <1>4, <1>5
  DEF Next, Notify, HandlerStep, KeyStep, MouseStep, Update_status_timer, vars, screen, memory,
      Playing

(* As long as the sequence fits the array, what the players see lit is the
   button just added or just repeated, never one of an earlier game. *)
THEOREM LitCorrect == Spec => []LitIsOnRecord
<1>1. Init => LitIsOnRecord
  BY DEF Init, LitIsOnRecord
<1> QED
  BY <1>1, LitStep, Invariant, PTL DEF Spec
=============================================================================
