--------------------------- MODULE ScreensProofs ---------------------------
(***************************************************************************)
(* Proofs about TextBox and Screens, for every width of the characters,    *)
(* every set of digits and letters and every length of a name.             *)
(***************************************************************************)
EXTENDS Screens, SequenceTheorems, WellFoundedInduction, TLAPS

-----------------------------------------------------------------------------
(* Text boxes                                                              *)

\* A new box is centred.
LEMMA CreateCentred ==
  ASSUME NEW keys, NEW x \in 0..MAX_X, NEW max \in Nat
  PROVE  /\ Create_text_box(x, max) \in BoxType(keys)
         /\ Centred(Create_text_box(x, max), x)
<1>1. << >> \in Seq(keys) /\ Len(<< >>) = 0
  OBVIOUS
<1>2. Create_text_box(x, max) \in BoxType(keys)
  BY <1>1 DEF Create_text_box, BoxType, MAX_X
<1>3. Centred(Create_text_box(x, max), x)
  BY <1>1, WidthAssumption DEF Create_text_box, Centred, MAX_X, MIN_X
<1> QED
  BY <1>2, <1>3

\* Adding a character keeps a box centred, whether it takes it or not.
LEMMA AddCentred ==
  ASSUME NEW keys, NEW x \in 0..MAX_X, NEW box \in BoxType(keys), NEW byte \in keys
  PROVE  /\ Add(box, byte) \in BoxType(keys)
         /\ Centred(box, x) => Centred(Add(box, byte), x)
<1> DEFINE h == WIDTH \div 2
           g == (WIDTH + 1) \div 2
           n == Len(box.char_prop)
<1>1. h \in Nat /\ g \in Nat /\ g <= WIDTH
  BY WidthAssumption
<1>2. n \in Nat /\ Append(box.char_prop, byte) \in Seq(keys)
      /\ Len(Append(box.char_prop, byte)) = n + 1
  BY DEF BoxType
<1>3. CASE ~Takes(box)
  BY <1>3 DEF Add
<1>4. CASE Takes(box)
  <2>1. box.cursor_x \in Int /\ box.xi \in Int /\ box.char_max_size \in Nat
    BY DEF BoxType
  <2>2. Add(box, byte) \in BoxType(keys)
    BY <1>1, <1>2, <1>4, <2>1 DEF BoxType, Add
  <2>3. /\ Add(box, byte).char_prop = Append(box.char_prop, byte)
        /\ Add(box, byte).char_max_size = box.char_max_size
        /\ Add(box, byte).cursor_x = box.cursor_x + h
        /\ Add(box, byte).xi = box.xi - g
    BY <1>4 DEF Add
  <2>4. ASSUME Centred(box, x) PROVE Centred(Add(box, byte), x)
    <3>1. (n + 1) * h = n * h + h /\ (n + 1) * g = n * g + g
      <4> HIDE DEF n, h, g
      <4> QED
        BY <1>1, <1>2
    <3>2. n * h \in Nat /\ n * g \in Nat
      <4> HIDE DEF n, h, g
      <4> QED
        BY <1>1, <1>2
    <3>3. /\ n <= box.char_max_size
          /\ box.cursor_x = x + n * h /\ box.xi = x - n * g
      BY <2>4 DEF Centred
    <3>4. n # box.char_max_size /\ box.cursor_x + h <= MAX_X /\ box.xi - WIDTH >= MIN_X
      BY <1>4 DEF Takes
    <3>6. /\ n + 1 <= box.char_max_size
          /\ box.cursor_x + h = x + (n + 1) * h /\ box.cursor_x + h <= MAX_X
          /\ box.xi - g = x - (n + 1) * g /\ box.xi - g >= MIN_X
      <4> DEFINE nh == n * h
                 ng == n * g
      <4> HIDE DEF n, h, g
      <4>1. nh \in Nat /\ ng \in Nat
        BY <3>2
      <4>2. (n + 1) * h = nh + h /\ (n + 1) * g = ng + g
        BY <3>1
      <4>3. box.cursor_x = x + nh /\ box.xi = x - ng
        BY <3>3
      <4> HIDE DEF nh, ng
      <4>4. box.cursor_x + h = x + (nh + h) /\ box.xi - g = x - (ng + g)
        BY <1>1, <4>1, <4>3, <2>1
      <4>5. n + 1 <= box.char_max_size /\ box.xi - g >= MIN_X
        BY <1>1, <1>2, <2>1, <3>3, <3>4, WidthAssumption DEF MIN_X
      <4> QED
        BY <3>4, <4>2, <4>4, <4>5
    <3> QED
      BY <1>2, <2>3, <3>6 DEF Centred
  <2> QED
    BY <2>2, <2>4
<1> QED
  BY <1>3, <1>4

\* Removing one keeps it centred too, on an empty box as well.
LEMMA RemoveCentred ==
  ASSUME NEW keys, NEW x \in 0..MAX_X, NEW box \in BoxType(keys)
  PROVE  /\ Remove(box) \in BoxType(keys)
         /\ Centred(box, x) => Centred(Remove(box), x)
<1> DEFINE h == WIDTH \div 2
           g == (WIDTH + 1) \div 2
           n == Len(box.char_prop)
           s == SubSeq(box.char_prop, 1, n - 1)
<1>1. h \in Nat /\ g \in Nat
  BY WidthAssumption
<1>2. CASE box.char_prop = << >>
  BY <1>2 DEF Remove
<1>3. CASE box.char_prop # << >>
  <2>1. box.char_prop \in Seq(keys) /\ n \in Nat \ {0}
    BY <1>3, EmptySeq DEF BoxType
  <2>2. s \in Seq(keys) /\ Len(s) = n - 1
    BY <2>1, SubSeqProperties
  <2>3. box.cursor_x \in Int /\ box.xi \in Int /\ box.char_max_size \in Nat
    BY DEF BoxType
  <2>4. /\ Remove(box) \in BoxType(keys)
        /\ Remove(box).char_prop = s
        /\ Remove(box).char_max_size = box.char_max_size
        /\ Remove(box).cursor_x = box.cursor_x - h
        /\ Remove(box).xi = box.xi + g
    <3>1. Remove(box) = [char_prop |-> s, char_max_size |-> box.char_max_size,
                         cursor_x |-> box.cursor_x - h, xi |-> box.xi + g]
      BY <1>3 DEF Remove
    <3> HIDE DEF s, h, g
    <3> QED
      BY <1>1, <2>2, <2>3, <3>1 DEF BoxType
  <2>5. ASSUME Centred(box, x) PROVE Centred(Remove(box), x)
    <3>1. (n - 1) * h = n * h - h /\ (n - 1) * g = n * g - g
      <4> HIDE DEF n, h, g
      <4> QED
        BY <1>1, <2>1
    <3>2. /\ n <= box.char_max_size
          /\ box.cursor_x = x + n * h /\ box.cursor_x <= MAX_X
          /\ box.xi = x - n * g /\ box.xi >= MIN_X
      BY <2>5 DEF Centred
    <3>4. n * h \in Nat /\ n * g \in Nat
      <4> HIDE DEF n, h, g
      <4> QED
        BY <1>1, <2>1
    <3>5. /\ n - 1 <= box.char_max_size
          /\ box.cursor_x - h = x + (n - 1) * h /\ box.cursor_x - h <= MAX_X
          /\ box.xi + g = x - (n - 1) * g /\ box.xi + g >= MIN_X
      <4> DEFINE nh == n * h
                 ng == n * g
      <4> HIDE DEF n, h, g
      <4>1. nh \in Nat /\ ng \in Nat
        BY <3>4
      <4>2. (n - 1) * h = nh - h /\ (n - 1) * g = ng - g
        BY <3>1
      <4>3. box.cursor_x = x + nh /\ box.xi = x - ng
        BY <3>2
      <4> HIDE DEF nh, ng
      <4>4. box.cursor_x - h = x + (nh - h) /\ box.xi + g = x - (ng - g)
        BY <1>1, <4>1, <4>3, <2>3
      <4>5. /\ n - 1 <= box.char_max_size
            /\ box.cursor_x - h <= MAX_X /\ box.xi + g >= MIN_X
        BY <1>1, <2>1, <2>3, <3>2 DEF MIN_X, MAX_X
      <4> QED
        BY <4>2, <4>4, <4>5
    <3> QED
      BY <2>2, <2>4, <3>5 DEF Centred
  <2> QED
    BY <2>4, <2>5
<1> QED
  BY <1>2, <1>3

-----------------------------------------------------------------------------
(* The boxes of the two screens                                            *)

\* BoxesCentred with the types of the boxes, which outlive their screens, and the
\* selection of the menu, which keeps ENTER from going anywhere else.
BoxInv ==
  /\ position \in 0..4
  /\ num_rounds \in BoxType(Digits) /\ new_hiscore \in BoxType(Digits \cup Letters)
  /\ BoxesCentred

LEMMA BoxInvInit == Init => BoxInv
BY EmptySeq DEF Init, BoxInv, BoxType, BoxesCentred, NoBox

\* Of all actions two create the box of the number, one that of the name.
LEMMA BoxInvStep == BoxInv /\ [Next]_vars => BoxInv'
<1> SUFFICES ASSUME BoxInv, [Next]_vars PROVE BoxInv'
  OBVIOUS
<1> USE DEF BoxInv, BoxesCentred, selection
<1> DEFINE Typed == Digits \cup Letters
<1>0. 400 \in 0..MAX_X /\ ROUNDS_MAX \in Nat /\ NAME_MAX \in Nat
  BY ScreensAssumption DEF MAX_X, ROUNDS_MAX
<1>1. /\ Create_text_box(400, ROUNDS_MAX) \in BoxType(Digits)
      /\ Centred(Create_text_box(400, ROUNDS_MAX), 400)
  BY <1>0, CreateCentred
<1>2. /\ Create_text_box(400, NAME_MAX) \in BoxType(Typed)
      /\ Centred(Create_text_box(400, NAME_MAX), 400)
  BY <1>0, CreateCentred
<1>3. CASE Notify
  BY <1>3 DEF Notify, rounds, name
<1>4. CASE MenuEvent
  <2>1. UNCHANGED new_hiscore /\ mode = "MENU"
    BY <1>4 DEF MenuEvent, Event, name
  <2>2. CASE MenuEnter
    <3>1. mode' # "HIGHSCORE"
      BY <2>2 DEF MenuEnter
    <3>2. CASE mode' = "NUM_ROUNDS"
      BY <1>1, <2>1, <2>2, <3>2 DEF MenuEnter, AfterMenu, Reset_number_of_rounds, Create_num_box
    <3>3. CASE mode' # "NUM_ROUNDS"
      BY <2>1, <2>2, <3>1, <3>3 DEF MenuEnter, AfterMenu, rounds
    <3> QED
      BY <3>2, <3>3
  <2>3. CASE ~MenuEnter
    BY <1>4, <2>1, <2>3 DEF MenuEvent, Menu_update_status, MENU_NUM_SELECTIONS, rounds
  <2> QED
    BY <2>2, <2>3
<1>5. CASE Host_update_status
  <2>1. UNCHANGED <<new_hiscore, position>> /\ mode = "HOST"
    BY <1>5 DEF Host_update_status, Event, name
  <2>2. CASE HostEnter
    BY <1>1, <2>1, <2>2 DEF HostEnter, Reset_number_of_rounds, Create_num_box, rounds
  <2>3. CASE ~HostEnter
    BY <1>5, <2>1, <2>3 DEF Host_update_status, rounds
  <2> QED
    BY <2>2, <2>3
<1>6. CASE BackToMenu
  BY <1>6 DEF BackToMenu, Event, rounds, name
<1>7. CASE Number_of_rounds_update_status
  <2>1. UNCHANGED <<new_hiscore, position>> /\ mode = "NUM_ROUNDS"
    BY <1>7 DEF Number_of_rounds_update_status, Event, name
  <2>2. CASE StartGame
    BY <2>1, <2>2 DEF StartGame
  <2>3. CASE EditRounds
    <3>1. CASE \E k \in Digits : TypeDigit(k)
      BY <1>0, <2>1, <2>3, <3>1, AddCentred DEF EditRounds, TypeDigit
    <3>2. CASE num_rounds' = Remove(num_rounds)
      BY <1>0, <2>1, <2>3, <3>2, RemoveCentred DEF EditRounds
    <3> QED
      BY <2>3, <3>1, <3>2 DEF EditRounds
  <2>4. CASE UNCHANGED <<mode, rounds>>
    BY <2>1, <2>4 DEF rounds
  <2> QED
    BY <1>7, <2>2, <2>3, <2>4 DEF Number_of_rounds_update_status
<1>8. CASE GameEvent("GAME") \/ GameEvent("MP_GAME")
  <2>1. UNCHANGED <<num_rounds, position>> /\ mode \in {"GAME", "MP_GAME"}
    BY <1>8 DEF GameEvent, Event, rounds
  <2>2. CASE LeaveGame
    BY <1>2, <2>1, <2>2 DEF LeaveGame, Create_name_box, name
  <2>3. CASE ~LeaveGame
    BY <1>8, <2>1, <2>3 DEF GameEvent, name
  <2> QED
    BY <2>2, <2>3
<1>9. CASE Highscore_update_status
  <2>1. UNCHANGED <<num_rounds, position>> /\ mode = "HIGHSCORE"
    BY <1>9 DEF Highscore_update_status, Event, rounds
  <2>2. CASE \E k \in Typed : new_hiscore' = Add(new_hiscore, k) /\ UNCHANGED mode
    BY <1>0, <2>1, <2>2, AddCentred
  <2>3. CASE new_hiscore' = Remove(new_hiscore) /\ UNCHANGED mode
    BY <1>0, <2>1, <2>3, RemoveCentred
  <2>4. CASE UNCHANGED new_hiscore /\ mode' \in {"HIGHSCORE", "LEADERBOARD"}
    BY <2>1, <2>4
  <2> QED
    BY <1>9, <2>1, <2>2, <2>3, <2>4 DEF Highscore_update_status, name
<1>10. CASE Over \/ UNCHANGED vars
  BY <1>10 DEF Over, vars, rounds, name
<1> QED
  BY <1>3, <1>4, <1>5, <1>6, <1>7, <1>8, <1>9, <1>10 DEF Next

\* However often number and name are typed and erased, the text stays around the
\* middle, inside its array and inside 16 bits.
THEOREM TextStaysCentred == Spec => []BoxesCentred
<1>1. BoxInv => BoxesCentred
  BY DEF BoxInv
<1> QED
  BY BoxInvInit, BoxInvStep, <1>1, PTL DEF Spec

-----------------------------------------------------------------------------
(* The number of rounds                                                    *)

\* The number has no more digits than the box, and the box no more than three;
\* is_mp is what the player chose, for as long as the number is asked for.
RoundsInv ==
  /\ num_rounds \in BoxType(Digits)
  /\ num_rounds.char_max_size \in {0, 3} /\ Len(num_rounds.char_prop) <= num_rounds.char_max_size
  /\ num_rounds_value \in Nat
  /\ Len(num_rounds.char_prop) = 0 => num_rounds_value = 0
  /\ Len(num_rounds.char_prop) = 1 => num_rounds_value <= 9
  /\ Len(num_rounds.char_prop) = 2 => num_rounds_value <= 99
  /\ num_rounds_value <= 999
  /\ game_end \in [{"GAME", "MP_GAME"} -> BOOLEAN]
  /\ mode = "NUM_ROUNDS" => chosen = IF is_mp THEN "MP_GAME" ELSE "GAME"

LEMMA RoundsInvInit == Init => RoundsInv
BY EmptySeq DEF Init, RoundsInv, BoxType, NoBox

\* A digit keeps the number within the digits of the box.
LEMMA TypeDigitBound ==
  ASSUME RoundsInv, NEW k \in Digits, TypeDigit(k), UNCHANGED <<mode, is_mp, chosen, game_end>>
  PROVE  RoundsInv'
<1> DEFINE n == Len(num_rounds.char_prop)
<1>1. num_rounds' = Add(num_rounds, k)
  BY DEF TypeDigit
<1>2. Digit[k] \in 0..9
  BY ScreensAssumption DEF Digits
<1>3. CASE ~Takes(num_rounds)
  BY <1>3 DEF TypeDigit, Add, RoundsInv
<1>4. CASE Takes(num_rounds)
  <2>0. /\ num_rounds.char_max_size \in {0, 3} /\ n <= num_rounds.char_max_size
        /\ num_rounds_value \in Nat /\ num_rounds_value <= 999
        /\ n = 0 => num_rounds_value = 0
        /\ n = 1 => num_rounds_value <= 9
        /\ n = 2 => num_rounds_value <= 99
    BY DEF RoundsInv
  <2>1. num_rounds' \in BoxType(Digits)
    <3>1. 400 \in 0..MAX_X
      BY DEF MAX_X
    <3> QED
      BY <1>1, <3>1, AddCentred DEF RoundsInv
  <2>2. num_rounds.char_prop \in Seq(Digits)
    BY DEF RoundsInv, BoxType
  <2>3. /\ num_rounds'.char_max_size = num_rounds.char_max_size
        /\ num_rounds'.char_prop = Append(num_rounds.char_prop, k)
    BY <1>1, <1>4 DEF Add
  <2>4. n \in Nat /\ Len(num_rounds'.char_prop) = n + 1
    BY <2>2, <2>3
  <2>5. n # num_rounds.char_max_size
    BY <1>4 DEF Takes
  <2>6. num_rounds_value' = num_rounds_value * 10 + Digit[k]
    BY <1>4 DEF TypeDigit
  <2> HIDE DEF n
  <2>7. n \in 0..2 /\ num_rounds.char_max_size = 3
    BY <2>0, <2>4, <2>5
  <2>8. /\ num_rounds_value' \in Nat /\ num_rounds_value' <= 999
        /\ n + 1 = 1 => num_rounds_value' <= 9
        /\ n + 1 = 2 => num_rounds_value' <= 99
    BY <1>2, <2>0, <2>6, <2>7
  <2> QED
    BY <2>1, <2>3, <2>4, <2>7, <2>8 DEF RoundsInv
<1> QED
  BY <1>3, <1>4

\* So does BACKSPACE, which divides by ten whether or not there is a digit.
LEMMA BackspaceBound ==
  ASSUME RoundsInv, num_rounds' = Remove(num_rounds), num_rounds_value' = num_rounds_value \div 10,
         UNCHANGED <<mode, is_mp, chosen, game_end>>
  PROVE  RoundsInv'
<1> DEFINE n == Len(num_rounds.char_prop)
<1>1. num_rounds.char_prop \in Seq(Digits)
  BY DEF RoundsInv, BoxType
<1>2. num_rounds' \in BoxType(Digits)
  <2>1. 400 \in 0..MAX_X
    BY DEF MAX_X
  <2> QED
    BY <2>1, RemoveCentred DEF RoundsInv
<1>3. CASE num_rounds.char_prop = << >>
  <2>1. n = 0 /\ num_rounds_value = 0 /\ num_rounds' = num_rounds
    BY <1>3, EmptySeq DEF Remove, RoundsInv
  <2> QED
    BY <2>1 DEF RoundsInv
<1>4. CASE num_rounds.char_prop # << >>
  <2>0. /\ num_rounds.char_max_size \in {0, 3} /\ n <= num_rounds.char_max_size
        /\ num_rounds_value \in Nat /\ num_rounds_value <= 999
        /\ n = 1 => num_rounds_value <= 9
        /\ n = 2 => num_rounds_value <= 99
    BY DEF RoundsInv
  <2>1. n \in Nat \ {0}
    BY <1>1, <1>4, EmptySeq
  <2>2. /\ num_rounds'.char_prop = SubSeq(num_rounds.char_prop, 1, n - 1)
        /\ num_rounds'.char_max_size = num_rounds.char_max_size
    BY <1>4 DEF Remove
  <2>3. Len(num_rounds'.char_prop) = n - 1
    BY <1>1, <2>1, <2>2, SubSeqProperties
  <2> HIDE DEF n
  <2>4. n \in 1..3
    BY <2>0, <2>1
  <2>5. /\ num_rounds_value' \in Nat /\ num_rounds_value' <= 99
        /\ n - 1 = 0 => num_rounds_value' = 0
        /\ n - 1 = 1 => num_rounds_value' <= 9
    BY <2>0, <2>4
  <2> QED
    BY <1>2, <2>0, <2>2, <2>3, <2>4, <2>5 DEF RoundsInv
<1> QED
  BY <1>3, <1>4

LEMMA RoundsInvStep == RoundsInv /\ [Next]_vars => RoundsInv'
<1> SUFFICES ASSUME RoundsInv, [Next]_vars PROVE RoundsInv'
  OBVIOUS
<1>1. ASSUME NEW mp \in BOOLEAN, Reset_number_of_rounds(mp), UNCHANGED game_end,
             chosen' = IF mp THEN "MP_GAME" ELSE "GAME"
      PROVE  RoundsInv'
  <2>1. Create_text_box(400, ROUNDS_MAX) \in BoxType(Digits)
    <3>1. 400 \in 0..MAX_X /\ ROUNDS_MAX \in Nat
      BY DEF MAX_X, ROUNDS_MAX
    <3> QED
      BY <3>1, CreateCentred
  <2> QED
    BY <1>1, <2>1, EmptySeq DEF Reset_number_of_rounds, Create_num_box, Create_text_box,
       ROUNDS_MAX, RoundsInv
<1>2. ASSUME UNCHANGED <<rounds, game_end>>, mode' # "NUM_ROUNDS" \/ mode' = mode
      PROVE  RoundsInv'
  BY <1>2 DEF RoundsInv, rounds
<1>3. CASE Notify
  BY <1>2, <1>3 DEF Notify
<1>4. CASE MenuEvent
  BY <1>1, <1>2, <1>4 DEF MenuEvent, Event, Menu_update_status, MenuEnter
<1>5. CASE Host_update_status
  BY <1>1, <1>2, <1>5 DEF Host_update_status, Event, HostEnter
<1>6. CASE BackToMenu
  BY <1>2, <1>6 DEF BackToMenu
<1>7. CASE Number_of_rounds_update_status
  <2>1. CASE StartGame
    BY <2>1 DEF StartGame, RoundsInv
  <2>2. CASE EditRounds
    BY <2>2, TypeDigitBound, BackspaceBound DEF EditRounds
  <2> QED
    BY <1>2, <1>7, <2>1, <2>2 DEF Number_of_rounds_update_status
<1>8. CASE GameEvent("GAME") \/ GameEvent("MP_GAME")
  <2>1. UNCHANGED rounds /\ game_end' \in [{"GAME", "MP_GAME"} -> BOOLEAN]
    BY <1>8 DEF GameEvent, RoundsInv
  <2>2. mode' # "NUM_ROUNDS"
    BY <1>8 DEF GameEvent, Event, LeaveGame
  <2> QED
    BY <2>1, <2>2 DEF RoundsInv, rounds
<1>9. CASE Highscore_update_status
  BY <1>2, <1>9 DEF Highscore_update_status
<1>10. CASE Over \/ UNCHANGED vars
  BY <1>2, <1>10 DEF Over, vars
<1> QED
  BY <1>3, <1>4, <1>5, <1>6, <1>7, <1>8, <1>9, <1>10 DEF Next

\* A game begins with 1 to 999 rounds, as the kind of game that was chosen, and not
\* over: for every way through the screens, keys reported twice included.
THEOREM GamesStartAsChosen == Spec => StartsAsChosen
<1>1. Spec => []RoundsInv
  BY RoundsInvInit, RoundsInvStep, PTL DEF Spec
<1>2. ASSUME RoundsInv, [Next]_vars
      PROVE  [mode = "NUM_ROUNDS" /\ mode' # mode =>
                mode' = chosen /\ max_buttons_size' \in 1..999 /\ ~game_end'[mode']]_vars
  <2> SUFFICES ASSUME mode = "NUM_ROUNDS", mode' # mode
               PROVE  mode' = chosen /\ max_buttons_size' \in 1..999 /\ ~game_end'[mode']
    OBVIOUS
  <2>1. Number_of_rounds_update_status
    BY <1>2 DEF Next, Notify, MenuEvent, Host_update_status, BackToMenu, GameEvent,
       Highscore_update_status, Event, Over, vars
  <2>2. StartGame
    BY <2>1 DEF Number_of_rounds_update_status, EditRounds
  <2>3. mode' = chosen /\ mode' \in {"GAME", "MP_GAME"}
    BY <1>2, <2>2 DEF StartGame, RoundsInv
  <2>4. max_buttons_size' \in 1..999
    BY <1>2, <2>2 DEF StartGame, Ready, RoundsInv
  <2>5. ~game_end'[mode']
    BY <1>2, <2>2, <2>3 DEF StartGame, RoundsInv
  <2> QED
    BY <2>3, <2>4, <2>5
<1> QED
  BY <1>1, <1>2, PTL DEF Spec, StartsAsChosen

-----------------------------------------------------------------------------
(* The number in the box                                                   *)

\* Every set of naturals that is not empty has a least member: what an
\* induction over a recursive function rests on.
LEMMA LeastNat ==
  ASSUME NEW T \in SUBSET Nat, T # {}
  PROVE  \E m \in T : \A k \in T : m <= k
<1> DEFINE R == OpToRel(<, Nat)
<1>1. IsWellFoundedOn(R, Nat)
  BY NatLessThanWellFounded
<1>2. \A a, b \in Nat : a < b => <<a, b>> \in R
  BY DEF OpToRel
<1> HIDE DEF R
<1>3. \E x \in T : \A y \in T : ~(<<y, x>> \in R)
  BY <1>1, WFMin
<1>4. PICK x \in T : \A y \in T : ~(<<y, x>> \in R)
  BY <1>3
<1>5. ASSUME NEW k \in T PROVE x <= k
  <2>1. x \in Nat /\ k \in Nat
    OBVIOUS
  <2>2. ~(k < x)
    BY <1>2, <1>4, <2>1, Zenon
  <2> QED
    BY <2>1, <2>2
<1> QED
  BY <1>5

\* The recursion of Number over the first n digits of a text.
Reading(text, n, f) ==
  [i \in 0..n |-> IF i = 0 THEN 0 ELSE f[i - 1] * 10 + Digit[text[i]]]

\* The recursion has a solution over every number of digits.
LEMMA ReadingExists ==
  ASSUME NEW text, NEW n \in Nat
  PROVE  \E f : f = Reading(text, n, f)
<1> DEFINE bad == {k \in Nat : ~\E f : f = Reading(text, k, f)}
<1> SUFFICES ASSUME bad # {} PROVE FALSE
  OBVIOUS
<1>1. PICK m \in bad : \A k \in bad : m <= k
  <2>1. bad \in SUBSET Nat
    OBVIOUS
  <2> HIDE DEF bad
  <2> QED
    BY <2>1, LeastNat
<1>2. m \in Nat /\ ~\E f : f = Reading(text, m, f)
  OBVIOUS
<1>3. CASE m = 0
  <2> DEFINE f == [i \in 0..0 |-> 0]
  <2>1. f = Reading(text, 0, f)
    BY DEF Reading
  <2> QED
    BY <1>2, <1>3, <2>1
<1>4. CASE m # 0
  <2>1. m - 1 \in Nat /\ m - 1 \notin bad
    BY <1>1, <1>2, <1>4
  <2>2. PICK f : f = Reading(text, m - 1, f)
    BY <2>1
  <2> DEFINE g == [i \in 0..m |-> IF i = m THEN f[m - 1] * 10 + Digit[text[m]] ELSE f[i]]
  <2>3. ASSUME NEW i \in 0..m
        PROVE  g[i] = Reading(text, m, g)[i]
    <3>1. CASE i = m
      <4>1. m - 1 \in 0..m /\ m - 1 # m /\ g[m - 1] = f[m - 1]
        BY <2>1
      <4> QED
        BY <1>4, <3>1, <4>1 DEF Reading
    <3>2. CASE i # m /\ i # 0
      <4>1. i \in 0..(m - 1) /\ i - 1 \in 0..m /\ i - 1 # m
        BY <2>1, <3>2
      <4>2. g[i] = f[i] /\ g[i - 1] = f[i - 1]
        BY <3>2, <4>1
      <4>3. f[i] = f[i - 1] * 10 + Digit[text[i]]
        BY <2>2, <3>2, <4>1 DEF Reading
      <4>4. Reading(text, m, g)[i] = g[i - 1] * 10 + Digit[text[i]]
        BY <3>2 DEF Reading
      <4> QED
        BY <4>2, <4>3, <4>4
    <3>3. CASE i = 0 /\ i # m
      <4>1. 0 \in 0..(m - 1)
        BY <2>1
      <4>2. f[0] = 0
        BY <2>2, <4>1 DEF Reading
      <4> QED
        BY <3>3, <4>2 DEF Reading
    <3> QED
      BY <3>1, <3>2, <3>3
  <2>4. DOMAIN g = 0..m /\ DOMAIN Reading(text, m, g) = 0..m
    BY DEF Reading
  <2>5. g = Reading(text, m, g)
    <3> DEFINE h == Reading(text, m, g)
    <3>1. h = [i \in 0..m |-> h[i]] /\ g = [i \in 0..m |-> g[i]]
      BY DEF Reading
    <3> HIDE DEF g, h
    <3> QED
      BY <2>3, <3>1 DEF h
  <2> HIDE DEF g
  <2> QED
    BY <1>2, <2>5
<1> QED
  BY <1>3, <1>4

\* ... and texts that begin alike read alike.
LEMMA ReadingsAgree ==
  ASSUME NEW s, NEW t, NEW m \in Nat, NEW n \in Nat, NEW f, NEW g, NEW k \in Nat,
         f = Reading(s, m, f), g = Reading(t, n, g), k <= m, k <= n,
         \A i \in 1..k : s[i] = t[i]
  PROVE  f[k] = g[k]
<1> DEFINE bad == {i \in 0..k : f[i] # g[i]}
<1> SUFFICES ASSUME bad # {} PROVE FALSE
  OBVIOUS
<1>1. PICK j \in bad : \A i \in bad : j <= i
  <2>1. bad \in SUBSET Nat
    OBVIOUS
  <2> HIDE DEF bad
  <2> QED
    BY <2>1, LeastNat
<1>2. j \in 0..k /\ f[j] # g[j] /\ j \in 0..m /\ j \in 0..n
  OBVIOUS
<1>3. CASE j = 0
  BY <1>2, <1>3 DEF Reading
<1>4. CASE j # 0
  <2>1. j - 1 \notin bad /\ j - 1 \in 0..k /\ j \in 1..k
    BY <1>1, <1>2, <1>4
  <2>2. f[j - 1] = g[j - 1] /\ s[j] = t[j]
    BY <2>1
  <2>3. /\ f[j] = f[j - 1] * 10 + Digit[s[j]]
        /\ g[j] = g[j - 1] * 10 + Digit[t[j]]
    BY <1>2, <1>4 DEF Reading
  <2> QED
    BY <1>2, <2>2, <2>3
<1> QED
  BY <1>3, <1>4

\* Number is the value of a solution at the last digit.
LEMMA NumberReads ==
  ASSUME NEW text \in Seq(Digits)
  PROVE  \E f : f = Reading(text, Len(text), f) /\ Number(text) = f[Len(text)]
<1> DEFINE upTo[n \in 0..Len(text)] ==
             IF n = 0 THEN 0 ELSE upTo[n - 1] * 10 + Digit[text[n]]
<1>1. Number(text) = upTo[Len(text)]
  BY Zenon DEF Number
<1>2. upTo = CHOOSE f : f = Reading(text, Len(text), f)
  BY Zenon DEF Reading
<1> HIDE DEF upTo
<1>3. \E f : f = Reading(text, Len(text), f)
  <2>1. Len(text) \in Nat
    OBVIOUS
  <2> QED
    BY <2>1, ReadingExists, Zenon
<1>4. upTo = Reading(text, Len(text), upTo)
  BY <1>2, <1>3, Zenon
<1> QED
  BY <1>1, <1>4

\* A digit more: ten times the number and the digit.
LEMMA NumberOfLonger ==
  ASSUME NEW s \in Seq(Digits), NEW t \in Seq(Digits), Len(t) = Len(s) + 1,
         \A i \in 1..Len(s) : s[i] = t[i]
  PROVE  Number(t) = Number(s) * 10 + Digit[t[Len(t)]]
<1>1. PICK f : f = Reading(s, Len(s), f) /\ Number(s) = f[Len(s)]
  BY NumberReads
<1>2. PICK g : g = Reading(t, Len(t), g) /\ Number(t) = g[Len(t)]
  BY NumberReads
<1>3. Len(s) \in Nat /\ Len(t) \in Nat /\ Len(s) <= Len(t) /\ Len(t) # 0
      /\ Len(t) \in 0..Len(t) /\ Len(t) - 1 = Len(s) /\ Len(s) <= Len(s)
  OBVIOUS
<1>4. f[Len(s)] = g[Len(s)]
  <2> DEFINE m == Len(s)
             n == Len(t)
  <2>1. m \in Nat /\ n \in Nat /\ m <= m /\ m <= n
    BY <1>3
  <2>2. f = Reading(s, m, f) /\ g = Reading(t, n, g) /\ \A i \in 1..m : s[i] = t[i]
    BY <1>1, <1>2
  <2> HIDE DEF m, n
  <2>3. f[m] = g[m]
    BY <2>1, <2>2, ReadingsAgree
  <2> QED
    BY <2>3 DEF m
<1>5. g[Len(t)] = g[Len(t) - 1] * 10 + Digit[t[Len(t)]]
  BY <1>2, <1>3 DEF Reading
<1> QED
  BY <1>1, <1>2, <1>3, <1>4, <1>5

LEMMA NumberOfNothing == Number(<< >>) = 0
<1>1. << >> \in Seq(Digits) /\ Len(<< >>) = 0
  OBVIOUS
<1>2. PICK f : f = Reading(<< >>, Len(<< >>), f) /\ Number(<< >>) = f[Len(<< >>)]
  BY <1>1, NumberReads
<1> QED
  BY <1>1, <1>2 DEF Reading


\* A text of digits is a natural number.
LEMMA NumberIsNat ==
  ASSUME NEW text \in Seq(Digits)
  PROVE  Number(text) \in Nat
<1>1. PICK f : f = Reading(text, Len(text), f) /\ Number(text) = f[Len(text)]
  BY NumberReads
<1> DEFINE bad == {i \in 0..Len(text) : f[i] \notin Nat}
<1>2. Len(text) \in Nat
  OBVIOUS
<1>3. CASE bad = {}
  BY <1>1, <1>2, <1>3
<1>4. CASE bad # {}
  <2>1. PICK m \in bad : \A k \in bad : m <= k
    <3>1. bad \in SUBSET Nat
      OBVIOUS
    <3> HIDE DEF bad
    <3> QED
      BY <1>4, <3>1, LeastNat
  <2>2. m \in 0..Len(text) /\ f[m] \notin Nat
    OBVIOUS
  <2>3. m # 0 /\ f[m] = f[m - 1] * 10 + Digit[text[m]]
    BY <1>1, <2>2 DEF Reading
  <2>4. m \in 1..Len(text) /\ m - 1 \in 0..Len(text) /\ ~(m <= m - 1)
    BY <1>2, <2>2, <2>3
  <2>5. f[m - 1] \in Nat
    BY <2>1, <2>4
  <2>6. Digit[text[m]] \in 0..9
    BY <2>4, ScreensAssumption DEF Digits
  <2> QED
    BY <2>2, <2>3, <2>5, <2>6
<1> QED
  BY <1>3, <1>4

\* A number with a digit less is the number divided by ten.
LEMMA DropDigit ==
  ASSUME NEW n \in Nat, NEW d \in 0..9
  PROVE  (n * 10 + d) \div 10 = n
OBVIOUS

ShownInv == BoxInv /\ RoundsInv /\ RoundsShown

\* A digit that the box takes, and one it does not.
LEMMA TypeDigitShown ==
  ASSUME ShownInv, NEW k \in Digits, TypeDigit(k)
  PROVE  RoundsShown'
<1> DEFINE s == num_rounds.char_prop
<1>1. s \in Seq(Digits)
  BY DEF ShownInv, BoxInv, BoxType
<1>2. CASE ~Takes(num_rounds)
  BY <1>2 DEF TypeDigit, Add, ShownInv, RoundsShown
<1>3. CASE Takes(num_rounds)
  <2> DEFINE t == Append(s, k)
  <2>1. num_rounds'.char_prop = t /\ num_rounds_value' = num_rounds_value * 10 + Digit[k]
    BY <1>3 DEF TypeDigit, Add
  <2>2. /\ t \in Seq(Digits) /\ Len(t) = Len(s) + 1 /\ t[Len(t)] = k
        /\ \A i \in 1..Len(s) : s[i] = t[i]
    BY <1>1
  <2> HIDE DEF s, t
  <2>3. Number(t) = Number(s) * 10 + Digit[t[Len(t)]]
    BY <1>1, <2>2, NumberOfLonger
  <2>4. num_rounds_value = Number(s)
    BY DEF ShownInv, RoundsShown, s
  <2> QED
    BY <2>1, <2>2, <2>3, <2>4 DEF RoundsShown
<1> QED
  BY <1>2, <1>3

\* BACKSPACE, on an empty box too.
LEMMA BackspaceShown ==
  ASSUME ShownInv, num_rounds' = Remove(num_rounds), num_rounds_value' = num_rounds_value \div 10
  PROVE  RoundsShown'
<1> DEFINE t == num_rounds.char_prop
<1>1. t \in Seq(Digits)
  BY DEF ShownInv, BoxInv, BoxType
<1>2. CASE t = << >>
  <2>1. num_rounds_value = 0 /\ num_rounds' = num_rounds
    BY <1>2, NumberOfNothing DEF ShownInv, RoundsShown, Remove
  <2>2. num_rounds_value' = 0
    BY <2>1
  <2> QED
    BY <2>1, <2>2 DEF ShownInv, RoundsShown
<1>3. CASE t # << >>
  <2> DEFINE s == SubSeq(t, 1, Len(t) - 1)
             n == Len(t)
  <2>1. num_rounds'.char_prop = s
    BY <1>3 DEF Remove
  <2>2. n \in Nat /\ n # 0
    BY <1>1, <1>3, EmptySeq
  <2>3. \A i \in 1..(n - 1) : t[i] \in Digits
    BY <1>1, <2>2
  <2>4. t[n] \in Digits
    BY <1>1, <2>2
  <2>5. /\ s \in Seq(Digits)
        /\ Len(s) = IF 1 <= n - 1 THEN (n - 1) - 1 + 1 ELSE 0
        /\ \A i \in 1..((n - 1) - 1 + 1) : s[i] = t[1 + i - 1]
    <3>1. 1 \in Int /\ n - 1 \in Int
      BY <2>2
    <3> HIDE DEF t
    <3> QED
      BY <2>3, <3>1, SubSeqProperties
  <2> HIDE DEF s, t
  <2>6. n = Len(s) + 1
    <3> HIDE DEF n
    <3> QED
      BY <2>2, <2>5
  <2>7. ASSUME NEW i \in 1..Len(s)
        PROVE  s[i] = t[i]
    <3> HIDE DEF n
    <3>1. i \in 1..((n - 1) - 1 + 1) /\ 1 + i - 1 = i
      BY <2>2, <2>6
    <3> QED
      BY <2>5, <3>1
  <2>8. Number(t) = Number(s) * 10 + Digit[t[n]]
    BY <1>1, <2>5, <2>6, <2>7, NumberOfLonger
  <2>9. Digit[t[n]] \in 0..9
    BY <2>4, ScreensAssumption DEF Digits
  <2>10. num_rounds_value = Number(t)
    BY DEF ShownInv, RoundsShown, t
  <2>11. Number(s) \in Nat
    BY <2>5, NumberIsNat
  <2>12. num_rounds_value' = Number(s)
    BY <2>8, <2>9, <2>10, <2>11, DropDigit
  <2> QED
    BY <2>1, <2>12 DEF RoundsShown
<1> QED
  BY <1>2, <1>3

LEMMA ShownStep == ShownInv /\ [Next]_vars => ShownInv'
<1> SUFFICES ASSUME ShownInv, [Next]_vars PROVE RoundsShown'
  BY BoxInvStep, RoundsInvStep DEF ShownInv
<1>1. ASSUME NEW mp \in BOOLEAN, Reset_number_of_rounds(mp)
      PROVE  RoundsShown'
  BY <1>1, NumberOfNothing DEF Reset_number_of_rounds, Create_num_box, Create_text_box, RoundsShown
<1>2. ASSUME UNCHANGED <<num_rounds, num_rounds_value>>
      PROVE  RoundsShown'
  BY <1>2 DEF ShownInv, RoundsShown
<1>3. CASE Notify
  BY <1>2, <1>3 DEF Notify, rounds
<1>4. CASE MenuEvent
  BY <1>1, <1>2, <1>4 DEF MenuEvent, Menu_update_status, MenuEnter, rounds
<1>5. CASE Host_update_status
  BY <1>1, <1>2, <1>5 DEF Host_update_status, HostEnter, rounds
<1>6. CASE BackToMenu
  BY <1>2, <1>6 DEF BackToMenu, rounds
<1>7. CASE Number_of_rounds_update_status
  <2>1. CASE StartGame
    BY <1>2, <2>1 DEF StartGame
  <2>2. CASE EditRounds
    BY <2>2, TypeDigitShown, BackspaceShown DEF EditRounds
  <2> QED
    BY <1>2, <1>7, <2>1, <2>2 DEF Number_of_rounds_update_status, rounds
<1>8. CASE GameEvent("GAME") \/ GameEvent("MP_GAME")
  BY <1>2, <1>8 DEF GameEvent, rounds
<1>9. CASE Highscore_update_status
  BY <1>2, <1>9 DEF Highscore_update_status, rounds
<1>10. CASE Over \/ UNCHANGED vars
  BY <1>2, <1>10 DEF Over, vars, rounds
<1> QED
  BY <1>3, <1>4, <1>5, <1>6, <1>7, <1>8, <1>9, <1>10 DEF Next

\* number_of_rounds_update_status: the number that will be played is the one in
\* the box, for every set of digits and every order of keys, those that the box
\* does not take, BACKSPACE on an empty box and leading zeros included.
THEOREM RoundsAlwaysShown == Spec => []RoundsShown
<1>1. Init => ShownInv
  <2>1. Init => RoundsShown
    BY NumberOfNothing DEF Init, RoundsShown, NoBox
  <2> QED
    BY <2>1, BoxInvInit, RoundsInvInit DEF ShownInv
<1>2. ShownInv => RoundsShown
  BY DEF ShownInv
<1> QED
  BY <1>1, <1>2, ShownStep, PTL DEF Spec

-----------------------------------------------------------------------------
(* Types                                                                   *)

Modes == {"MENU", "HOW_TO_PLAY", "LEADERBOARD", "NUM_ROUNDS", "GAME", "HIGHSCORE", "HOST",
          "MP_GAME", "EXIT"}

\* The types BoxInv and RoundsInv say nothing of, and why a name ends at the bound:
\* a notification is taken only below it.
OtherTypes ==
  /\ mode \in Modes
  /\ {running, due, got_key_press, esc, is_mp, again} \subseteq BOOLEAN
  /\ keyboard_packet \in [key : Keys, down : BOOLEAN] /\ word \in {"start", "first", "whole"}
  /\ count \in 0..1 /\ host_position \in 0..1
  /\ max_buttons_size \in Nat /\ player \in 0..(MaxName + 1)
  /\ chosen \in {"GAME", "MP_GAME", NONE}
  /\ due => player <= MaxName

\* The end of a notification keeps the keyboard.
LEMMA LoopTypes ==
  ASSUME OtherTypes, Loop
  PROVE  /\ {running', due', got_key_press', esc', again'} \subseteq BOOLEAN
         /\ keyboard_packet' \in [key : Keys, down : BOOLEAN]
         /\ word' \in {"start", "first", "whole"}
         /\ ~due'
<1>1. running' \in BOOLEAN /\ due' \in BOOLEAN /\ ~due'
  BY Zenon DEF Loop
<1>2. UNCHANGED <<got_key_press, keyboard_packet, word, esc, again>>
  BY DEF Loop, keyboard
<1> QED
  BY <1>1, <1>2 DEF OtherTypes

\* A notification names a key of the keyboard.
LEMMA NotifyTypes == ASSUME OtherTypes, Notify PROVE OtherTypes'
<1>1. NONE \in Keys
  BY DEF Keys
<1>2. /\ UNCHANGED <<mode, running, count, host_position, is_mp, max_buttons_size, player, chosen>>
      /\ due' = TRUE /\ player <= MaxName
  BY DEF Notify, selection, rounds, name
<1>3. ASSUME NEW key \in Keys, NEW down \in BOOLEAN, LastByte([key |-> key, down |-> down])
      PROVE  /\ {got_key_press', esc', again'} \subseteq BOOLEAN
             /\ keyboard_packet' \in [key : Keys, down : BOOLEAN]
             /\ word' \in {"start", "first", "whole"}
  <2> DEFINE byte == [key |-> key, down |-> down]
  <2>1. KeyOf(byte) \subseteq Keys
    BY <1>1, <1>3 DEF KeyOf, Keys
  <2>2. PICK k \in KeyOf(byte) : keyboard_packet' = [key |-> k, down |-> byte.down]
    BY <1>3 DEF LastByte
  <2>3. esc' \in BOOLEAN
    BY <1>3, Zenon DEF LastByte
  <2> QED
    BY <1>3, <2>1, <2>2, <2>3 DEF LastByte
<1>4. ASSUME PrefixByte \/ LostByte \/ NoByte
      PROVE  /\ {got_key_press', esc', again'} \subseteq BOOLEAN
             /\ keyboard_packet' \in [key : Keys, down : BOOLEAN]
             /\ word' \in {"start", "first", "whole"}
  <2>1. CASE PrefixByte
    BY <2>1 DEF PrefixByte, OtherTypes
  <2>2. CASE LostByte
    BY <2>2 DEF LostByte, OtherTypes
  <2>3. CASE NoByte
    BY <1>1, <2>3 DEF NoByte, OtherTypes
  <2> QED
    BY <1>4, <2>1, <2>2, <2>3
<1>5. /\ {got_key_press', esc', again'} \subseteq BOOLEAN
      /\ keyboard_packet' \in [key : Keys, down : BOOLEAN]
      /\ word' \in {"start", "first", "whole"}
  BY <1>3, <1>4 DEF Notify
<1> QED
  BY <1>2, <1>5 DEF OtherTypes

LEMMA OtherTypesStep ==
  ASSUME BoxInv, RoundsInv, OtherTypes, [Next]_vars
  PROVE  OtherTypes'
<1>0. ASSUME Loop, mode' \in Modes, count' \in 0..1, host_position' \in 0..1,
             is_mp' \in BOOLEAN, max_buttons_size' \in Nat, player' \in 0..(MaxName + 1),
             chosen' \in {"GAME", "MP_GAME", NONE}
      PROVE  OtherTypes'
  BY <1>0, LoopTypes DEF OtherTypes
<1> USE DEF Modes
<1>1. CASE Notify
  BY <1>1, NotifyTypes
<1>2. CASE MenuEvent
  <2>1. /\ Loop /\ count' \in 0..1 /\ UNCHANGED <<host_position, player>>
    BY <1>2 DEF MenuEvent, name
  <2>2. CASE MenuEnter
    <3>1. mode' \in Modes
      BY <2>2 DEF MenuEnter, BoxInv
    <3>2. /\ is_mp' \in BOOLEAN /\ max_buttons_size' \in Nat
          /\ chosen' \in {"GAME", "MP_GAME", NONE}
      BY <2>2 DEF MenuEnter, Reset_number_of_rounds, rounds, OtherTypes
    <3> QED
      BY <1>0, <2>1, <3>1, <3>2 DEF OtherTypes
  <2>3. CASE UNCHANGED <<mode, rounds>>
    BY <1>0, <2>1, <2>3 DEF rounds, OtherTypes
  <2> QED
    BY <1>2, <2>2, <2>3 DEF MenuEvent, Menu_update_status
<1>3. CASE Host_update_status
  <2>1. Loop /\ UNCHANGED <<count, player>>
    BY <1>3 DEF Host_update_status, name
  <2>2. host_position' \in 0..1
    <3>1. \A h \in 0..1 : (h - 1) % 2 \in 0..1 /\ (h + 1) % 2 \in 0..1
      OBVIOUS
    <3>2. host_position \in 0..1
      BY DEF OtherTypes
    <3>3. HostUp \in 0..1 /\ (host_position + 1) % HOST_NUM_SELECTIONS \in 0..1
      BY <3>1, <3>2 DEF HostUp, HOST_NUM_SELECTIONS
    <3>4. \/ host_position' = HostUp
          \/ host_position' = (host_position + 1) % HOST_NUM_SELECTIONS
          \/ host_position' = 0
          \/ host_position' = host_position
      BY <1>3, Zenon DEF Host_update_status, HostEnter
    <3> QED
      BY <3>2, <3>3, <3>4
  <2>3. CASE HostEnter
    <3>1. mode' \in Modes
      BY <2>3 DEF HostEnter
    <3>2. /\ is_mp' \in BOOLEAN /\ max_buttons_size' \in Nat
          /\ chosen' \in {"GAME", "MP_GAME", NONE}
      BY <2>3 DEF HostEnter, Reset_number_of_rounds, rounds, OtherTypes
    <3> QED
      BY <1>0, <2>1, <2>2, <3>1, <3>2 DEF OtherTypes
  <2>4. CASE UNCHANGED <<mode, rounds>>
    BY <1>0, <2>1, <2>2, <2>4 DEF rounds, OtherTypes
  <2> QED
    BY <1>3, <2>3, <2>4 DEF Host_update_status
<1>4. CASE BackToMenu
  BY <1>0, <1>4 DEF BackToMenu, selection, rounds, name, OtherTypes
<1>5. CASE Number_of_rounds_update_status
  <2>1. Loop /\ UNCHANGED <<count, host_position, player>>
    BY <1>5 DEF Number_of_rounds_update_status, selection, name
  <2>2. CASE StartGame
    <3>1. mode' \in Modes
      BY <2>2 DEF StartGame
    <3>2. UNCHANGED <<is_mp, chosen>> /\ max_buttons_size' \in Nat
      BY <2>2 DEF StartGame, RoundsInv
    <3> QED
      BY <1>0, <2>1, <3>1, <3>2 DEF OtherTypes
  <2>3. CASE EditRounds
    BY <1>0, <2>1, <2>3 DEF EditRounds, OtherTypes
  <2>4. CASE UNCHANGED <<mode, rounds>>
    BY <1>0, <2>1, <2>4 DEF rounds, OtherTypes
  <2> QED
    BY <1>5, <2>2, <2>3, <2>4 DEF Number_of_rounds_update_status
<1>6. CASE GameEvent("GAME") \/ GameEvent("MP_GAME")
  <2>1. Loop /\ UNCHANGED <<count, host_position, is_mp, max_buttons_size, chosen, player>>
    BY <1>6 DEF GameEvent, LeaveGame, selection, rounds, name
  <2>2. mode' \in Modes
    BY <1>6 DEF GameEvent, Event, LeaveGame
  <2> QED
    BY <1>0, <2>1, <2>2 DEF OtherTypes
<1>7. CASE Highscore_update_status
  <2>1. Loop /\ UNCHANGED <<count, host_position, is_mp, max_buttons_size, chosen>>
    BY <1>7 DEF Highscore_update_status, selection, rounds
  <2>2. mode' \in Modes
    BY <1>7 DEF Highscore_update_status, Event
  <2>3. player <= MaxName /\ player \in Nat
    BY <1>7, ScreensAssumption DEF Highscore_update_status, Event, OtherTypes
  <2>4. player' \in 0..(MaxName + 1)
    BY <1>7, <2>3, ScreensAssumption DEF Highscore_update_status, name
  <2> QED
    BY <1>0, <2>1, <2>2, <2>4 DEF OtherTypes
<1>8. CASE Over \/ UNCHANGED vars
  BY <1>8 DEF Over, vars, keyboard, selection, rounds, name, OtherTypes
<1> QED
  BY <1>1, <1>2, <1>3, <1>4, <1>5, <1>6, <1>7, <1>8 DEF Next

LEMMA OtherTypesInit == Init => OtherTypes
<1> SUFFICES ASSUME Init PROVE OtherTypes
  OBVIOUS
<1>1. {running, due, got_key_press, esc, is_mp, again} \subseteq BOOLEAN /\ ~due
  BY Zenon DEF Init
<1>2. keyboard_packet \in [key : Keys, down : BOOLEAN]
  BY DEF Init, Keys
<1>3. player \in 0..(MaxName + 1)
  BY ScreensAssumption DEF Init
<1> QED
  BY <1>1, <1>2, <1>3 DEF Init, OtherTypes, Modes

LEMMA TypesHold == Spec => []OtherTypes
BY OtherTypesInit, BoxInvInit, BoxInvStep, RoundsInvInit, RoundsInvStep, OtherTypesStep, PTL DEF Spec

\* Every variable of Screens keeps its type; the selections stay on their menus.
THEOREM TypeCorrect == Spec => []TypeOK
<1>1. BoxInv /\ RoundsInv /\ OtherTypes => TypeOK
  BY DEF BoxInv, RoundsInv, OtherTypes, TypeOK, Modes, MENU_NUM_SELECTIONS, HOST_NUM_SELECTIONS
<1> QED
  BY <1>1, BoxInvInit, BoxInvStep, RoundsInvInit, RoundsInvStep, TypesHold, PTL DEF Spec

-----------------------------------------------------------------------------
(* Presses that are handled a second time                                  *)

\* The press in keyboard_packet has been handled by a screen already.
Handled == ~due \/ again

\* Selections are at the top unless their screen is shown, and after ENTER was
\* handled both are, with no rounds chosen yet; after BACKSPACE the instructions
\* are left.
AgainInv ==
  /\ keyboard_packet \in [key : Keys, down : BOOLEAN]
  /\ position \in 0..4 /\ host_position \in 0..1
  /\ mode # "MENU" => position = 0
  /\ mode # "HOST" => host_position = 0
  /\ count = 0 => mode = "MENU" /\ position = 0
  /\ due /\ ~again /\ ~got_key_press => keyboard_packet.key = NONE
  /\ Handled /\ keyboard_packet.key = "enter" /\ ~keyboard_packet.down =>
       /\ position = 0 /\ host_position = 0
       /\ mode = "NUM_ROUNDS" => num_rounds_value = 0
  /\ Handled /\ keyboard_packet.key = "backspace" => mode # "HOW_TO_PLAY"

LEMMA AgainInvInit == Init => AgainInv
BY DEF Init, AgainInv, Handled, Keys, NONE

\* What a notification leaves in keyboard_packet has been handled only if it was
\* there before.
LEMMA NotifyAgain == ASSUME AgainInv, OtherTypes, Notify PROVE AgainInv'
<1>1. UNCHANGED <<mode, position, host_position, count, num_rounds_value>> /\ ~due /\ due'
  BY DEF Notify, selection, rounds
<1>2. keyboard_packet' \in [key : Keys, down : BOOLEAN]
  BY NotifyTypes DEF OtherTypes
<1>3. \/ ~again' /\ got_key_press'
      \/ again' /\ UNCHANGED keyboard_packet
      \/ ~again' /\ keyboard_packet' = [keyboard_packet EXCEPT !.key = NONE]
  <2>1. ASSUME NEW b, LastByte(b) PROVE ~again' /\ got_key_press'
    BY <2>1 DEF LastByte
  <2>2. CASE PrefixByte
    BY <2>2 DEF PrefixByte
  <2>3. CASE LostByte
    BY <2>3 DEF LostByte
  <2>4. CASE NoByte
    BY <2>4 DEF NoByte
  <2> QED
    BY <2>1, <2>2, <2>3, <2>4 DEF Notify
<1>4. CASE ~again' /\ got_key_press'
  BY <1>1, <1>2, <1>4 DEF AgainInv, Handled
<1>5. CASE again' /\ UNCHANGED keyboard_packet
  BY <1>1, <1>5 DEF AgainInv, Handled
<1>6. CASE ~again' /\ keyboard_packet' = [keyboard_packet EXCEPT !.key = NONE]
  <2>1. keyboard_packet'.key = NONE
    BY <1>6 DEF AgainInv
  <2> QED
    BY <1>1, <1>2, <1>6, <2>1 DEF AgainInv, Handled
<1> QED
  BY <1>3, <1>4, <1>5, <1>6

\* An event leaves the press handled.
LEMMA EventAgain ==
  ASSUME AgainInv, OtherTypes, due, Next, ~Over
  PROVE  AgainInv'
<1> DEFINE key == keyboard_packet.key
           enter == key = "enter" /\ ~keyboard_packet.down
<1>0. ~Notify
  BY DEF Notify
<1>1. Loop
  BY <1>0 DEF Next, MenuEvent, Host_update_status, BackToMenu, Number_of_rounds_update_status,
              GameEvent, Highscore_update_status
<1>2. /\ UNCHANGED keyboard_packet /\ ~due'
      /\ keyboard_packet \in [key : Keys, down : BOOLEAN]
  BY <1>1 DEF Loop, keyboard, AgainInv
<1>3. ~got_key_press => again \/ key = NONE
  BY DEF AgainInv
<1>4. SUFFICES /\ position' \in 0..4 /\ host_position' \in 0..1
               /\ mode' # "MENU" => position' = 0
               /\ mode' # "HOST" => host_position' = 0
               /\ count' = 0 => mode' = "MENU" /\ position' = 0
               /\ enter => position' = 0 /\ host_position' = 0
               /\ enter /\ mode' = "NUM_ROUNDS" => num_rounds_value' = 0
               /\ key = "backspace" => mode' # "HOW_TO_PLAY"
  BY <1>2 DEF AgainInv, Handled
<1>5. \A k \in Digits \cup Letters : k \notin {"enter", "backspace", "esc", "up", "down", "none"}
  BY ScreensAssumption DEF Digits
<1>6. CASE MenuEvent
  <2>1. mode = "MENU" /\ count' = 1 /\ UNCHANGED host_position /\ host_position = 0
    BY <1>6 DEF MenuEvent, Event, AgainInv
  <2>2. CASE count = 0
    BY <1>6, <2>1, <2>2 DEF MenuEvent, AgainInv
  <2>3. CASE count # 0
    <3>1. Menu_update_status
      BY <1>6, <2>3 DEF MenuEvent
    <3>2. CASE MenuEnter
      <4>1. key = "enter" /\ position' = 0 /\ mode' # "MENU"
        BY <3>2 DEF MenuEnter, Released, AfterMenu, AgainInv
      <4>2. mode' = "NUM_ROUNDS" => num_rounds_value' = 0
        BY <3>2 DEF MenuEnter, Reset_number_of_rounds, Create_num_box
      <4> QED
        BY <2>1, <4>1, <4>2
    <3>3. CASE Up \/ Down
      <4>1. key \in {"up", "w", "down", "s"}
        BY <3>3 DEF Up, Down, Released
      <4>2. CASE MenuEnter
        BY <3>2, <4>2
      <4>3. CASE ~MenuEnter
        <5>1. UNCHANGED mode /\ position' \in 0..4
          BY <3>1, <3>3, <4>3 DEF Menu_update_status, MENU_NUM_SELECTIONS, AgainInv
        <5> QED
          BY <2>1, <4>1, <5>1
      <4> QED
        BY <4>2, <4>3
    <3>4. CASE ~Up /\ ~Down /\ ~Released("enter")
      <4>1. UNCHANGED <<mode, position>>
        BY <3>1, <3>4 DEF Menu_update_status, MenuEnter
      <4>2. enter => again
        BY <1>3, <3>4 DEF Released, NONE
      <4> QED
        BY <2>1, <4>1, <4>2 DEF AgainInv, Handled
    <3> QED
      BY <3>1, <3>2, <3>3, <3>4 DEF Menu_update_status
  <2> QED
    BY <2>2, <2>3
<1>7. CASE Host_update_status
  <2>1. mode = "HOST" /\ UNCHANGED <<count, position>> /\ position = 0 /\ count # 0
    BY <1>7 DEF Host_update_status, Event, AgainInv
  <2>2. CASE HostEnter
    <3>1. key = "enter" /\ host_position' = 0 /\ mode' \in {"NUM_ROUNDS", "MP_GAME"}
      BY <2>2 DEF HostEnter, Released
    <3>2. mode' = "NUM_ROUNDS" => num_rounds_value' = 0
      BY <2>2 DEF HostEnter, Reset_number_of_rounds, Create_num_box
    <3> QED
      BY <2>1, <3>1, <3>2
  <2>3. CASE ~HostEnter /\ (Up \/ Down)
    <3>1. key \in {"up", "w", "down", "s"}
      BY <2>3 DEF Up, Down, Released
    <3>2. UNCHANGED mode /\ host_position' \in 0..1
      BY <1>7, <2>3 DEF Host_update_status, HostUp, HOST_NUM_SELECTIONS, AgainInv
    <3> QED
      BY <2>1, <3>1, <3>2
  <2>4. CASE ~HostEnter /\ ~Up /\ ~Down
    <3>1. UNCHANGED <<mode, host_position>> /\ ~Released("enter")
      BY <1>7, <2>4 DEF Host_update_status
    <3>2. enter => again
      BY <1>3, <3>1 DEF Released, NONE
    <3> QED
      BY <2>1, <3>1, <3>2 DEF AgainInv, Handled
  <2> QED
    BY <2>2, <2>3, <2>4
<1>9. CASE BackToMenu
  <2>1. UNCHANGED selection /\ mode \in {"HOW_TO_PLAY", "LEADERBOARD"} /\ mode' \in {mode, "MENU"}
    BY <1>9 DEF BackToMenu, Event
  <2>2. key = "backspace" => mode' # "HOW_TO_PLAY"
    <3>1. CASE got_key_press
      BY <1>9, <3>1 DEF BackToMenu, BackKey, Reported
    <3>2. CASE ~got_key_press
      BY <1>3, <2>1, <3>2 DEF AgainInv, Handled, NONE
    <3> QED
      BY <3>1, <3>2
  <2> QED
    BY <2>1, <2>2 DEF selection, AgainInv
<1>10. CASE Number_of_rounds_update_status
  <2>1. UNCHANGED selection /\ mode = "NUM_ROUNDS" /\ mode' \in {"NUM_ROUNDS", "GAME", "MP_GAME"}
    BY <1>10 DEF Number_of_rounds_update_status, Event, StartGame, EditRounds
  <2>2. enter /\ mode' = "NUM_ROUNDS" => num_rounds_value' = 0
    <3> SUFFICES ASSUME enter, mode' = "NUM_ROUNDS" PROVE num_rounds_value' = 0
      OBVIOUS
    <3>1. ~StartGame /\ ~EditRounds
      BY <1>5 DEF StartGame, EditRounds, Released
    <3>2. UNCHANGED num_rounds_value /\ ~(Released("enter") /\ Ready)
      BY <1>10, <3>1 DEF Number_of_rounds_update_status, rounds
    <3>3. CASE got_key_press
      BY <3>2, <3>3 DEF Released, Ready
    <3>4. CASE ~got_key_press
      BY <1>3, <2>1, <3>2, <3>4 DEF AgainInv, Handled, NONE
    <3> QED
      BY <3>3, <3>4
  <2> QED
    BY <2>1, <2>2 DEF selection, AgainInv
<1>11. CASE GameEvent("GAME") \/ GameEvent("MP_GAME")
  <2>1. UNCHANGED selection /\ mode \in {"GAME", "MP_GAME"}
        /\ mode' \in {"GAME", "MP_GAME", "HIGHSCORE", "LEADERBOARD"}
    BY <1>11 DEF GameEvent, Event, LeaveGame
  <2> QED
    BY <2>1 DEF selection, AgainInv
<1>12. CASE Highscore_update_status
  <2>1. UNCHANGED selection /\ mode = "HIGHSCORE" /\ mode' \in {"HIGHSCORE", "LEADERBOARD"}
    BY <1>12 DEF Highscore_update_status, Event
  <2> QED
    BY <2>1 DEF selection, AgainInv
<1> QED
  BY <1>0, <1>6, <1>7, <1>9, <1>10, <1>11, <1>12 DEF Next

LEMMA AgainInvStep == AgainInv /\ OtherTypes /\ [Next]_vars => AgainInv'
<1> SUFFICES ASSUME AgainInv, OtherTypes, [Next]_vars PROVE AgainInv'
  OBVIOUS
<1>1. CASE Notify
  BY <1>1, NotifyAgain
<1>2. CASE Over \/ UNCHANGED vars
  BY <1>2 DEF Over, vars, selection, keyboard, rounds, AgainInv, Handled
<1>3. CASE Next /\ ~Notify /\ ~Over
  <2>1. due
    BY <1>3 DEF Next, MenuEvent, Host_update_status, BackToMenu, Number_of_rounds_update_status,
                GameEvent, Highscore_update_status, Event
  <2> QED
    BY <1>3, <2>1, EventAgain
<1> QED
  BY <1>1, <1>2, <1>3

\* run and event_handler: a press that is handled a second time goes through the
\* menus to the number of rounds at most, whatever keys came before it; it never
\* begins a game and never chooses EXIT.
THEOREM HandledAgainIsHarmless == Spec => HandledAgain
<1>1. ASSUME AgainInv, Next, again, mode' # mode
      PROVE  \/ <<mode, mode'>> \in {<<"MENU", "NUM_ROUNDS">>, <<"HOST", "NUM_ROUNDS">>,
                                     <<"HIGHSCORE", "LEADERBOARD">>, <<"LEADERBOARD", "MENU">>}
             \/ mode \in {"GAME", "MP_GAME"}
  <2> USE <1>1
  <2>1. ~Notify /\ ~Over
    BY DEF Notify, Over, vars
  <2>2. CASE MenuEvent
    <3>1. mode = "MENU" /\ MenuEnter
      BY <2>2 DEF MenuEvent, Menu_update_status, Event
    <3>2. position = 0
      BY <3>1 DEF MenuEnter, Released, AgainInv, Handled
    <3>3. mode' = "NUM_ROUNDS"
      BY <3>1, <3>2 DEF MenuEnter
    <3> QED
      BY <3>1, <3>3
  <2>3. CASE Host_update_status
    <3>1. mode = "HOST" /\ HostEnter
      BY <2>3 DEF Host_update_status, Event
    <3>2. host_position = 0
      BY <3>1 DEF HostEnter, Released, AgainInv, Handled
    <3>3. mode' = "NUM_ROUNDS"
      BY <3>1, <3>2 DEF HostEnter
    <3> QED
      BY <3>1, <3>3
  <2>4. CASE BackToMenu
    <3>1. mode' = "MENU" /\ BackKey /\ mode \in {"HOW_TO_PLAY", "LEADERBOARD"}
      BY <2>4 DEF BackToMenu, Event
    <3>2. mode # "HOW_TO_PLAY"
      BY <3>1 DEF BackKey, Reported, AgainInv, Handled
    <3> QED
      BY <3>1, <3>2
  <2>5. CASE Number_of_rounds_update_status
    <3>1. mode = "NUM_ROUNDS" /\ StartGame
      BY <2>5 DEF Number_of_rounds_update_status, EditRounds, Event
    <3>2. num_rounds_value = 0
      BY <3>1 DEF StartGame, Released, AgainInv, Handled
    <3> QED
      BY <3>1, <3>2 DEF StartGame, Ready
  <2>6. CASE GameEvent("GAME") \/ GameEvent("MP_GAME")
    BY <2>6 DEF GameEvent, Event
  <2>7. CASE Highscore_update_status
    BY <2>7 DEF Highscore_update_status, Event
  <2> QED
    BY <2>1, <2>2, <2>3, <2>4, <2>5, <2>6, <2>7 DEF Next
<1>2. AgainInv /\ [Next]_vars =>
        [again /\ mode' # mode =>
           \/ <<mode, mode'>> \in {<<"MENU", "NUM_ROUNDS">>, <<"HOST", "NUM_ROUNDS">>,
                                  <<"HIGHSCORE", "LEADERBOARD">>, <<"LEADERBOARD", "MENU">>}
           \/ mode \in {"GAME", "MP_GAME"}]_vars
  BY <1>1
<1> QED
  BY <1>2, AgainInvInit, AgainInvStep, TypesHold, PTL DEF Spec, HandledAgain
=============================================================================
