----------------------------- MODULE HighScore -----------------------------
(***************************************************************************)
(* The name a winner types (proj/highscore.c), the board of the best five  *)
(* (proj/leaderboard.c) and the file it lives in between two runs           *)
(* (proj/proj.c).                                                           *)
(*                                                                         *)
(* A keystroke here is a key going up, the only kind the screens react to. *)
(* Abstracted: the date of a result; the width of the letters drawn (ten of *)
(* them fit); every screen other than the two of this module is "MENU".    *)
(***************************************************************************)
EXTENDS Integers, Sequences

CONSTANTS
  SIZE,         \* places on the board
  BOX_MAX,      \* characters new_hiscore takes: char_max_size
  Letters,      \* the keys is_alpha_numberical accepts
  Scores,       \* the scores a game may end with
  FirstFiles,   \* what leaderboard.txt may hold when the program first runs
  MaxName,      \* bound of the model: longest string in player followed
  MaxResults,   \* bound of the model: games that end
  MaxRuns       \* bound of the model: runs of the program

ASSUME ConstantsAssumption ==
  /\ SIZE \in Nat \ {0} /\ BOX_MAX \in Nat /\ Scores \subseteq Nat
  /\ MaxName \in Nat /\ MaxResults \in Nat /\ MaxRuns \in Nat

\* The empty file fopen leaves behind.
Nothing == << >>

\* player and name are arrays of this many bytes, the last for the NUL.
NameSize == BOX_MAX + 1

Names == UNION {[1..n -> Letters] : n \in 0..NameSize}
Entries == [name : Names, score : Scores \cup {0}]

\* The file that comes with the program, proj/leaderboard.txt, holds SIZE
\* results with names, the best first.
ASSUME FirstFilesAssumption ==
  \A b \in FirstFiles :
    /\ b \in [1..SIZE -> Entries] /\ \A i \in 1..SIZE : b[i].name # << >>
    /\ \A i, j \in 1..SIZE : i < j => b[i].score >= b[j].score

VARIABLES
  mode,         \* the screen; "OFF": the program does not run; "SAVING";
                \* "UNDEFINED": it has read a file without SIZE results in it
  player,       \* the string player
  new_hiscore,  \* the characters in the text box
  newWinner,
  leaderboard,
  file,         \* leaderboard.txt: a board, or Nothing
  saved,        \* history: the board of the last save that was finished
  results, runs \* counters of the bounds

typing == <<player, new_hiscore>>
disk   == <<file, saved>>
vars   == <<mode, typing, newWinner, leaderboard, disk, results, runs>>

-----------------------------------------------------------------------------
(* leaderboard.c                                                           *)

Places == 1..SIZE

GetLowestHiScore == leaderboard[SIZE].score

\* Mutant: a result goes before those of the same score.
GetNewHiScorePos_before(score) ==
  LET below == {i \in Places : score >= leaderboard[i].score} IN
  IF below = {} THEN SIZE ELSE CHOOSE i \in below : \A j \in below : i <= j

\* getNewHiScorePos: the first place with a lower score, or the last.
GetNewHiScorePos(score) ==
  LET below == {i \in Places : score > leaderboard[i].score} IN
  IF below = {} THEN SIZE ELSE CHOOSE i \in below : \A j \in below : i <= j

\* updateData: the winner takes its place, and each place below takes what the
\* one above it had.  temp is what the last place written had before, and
\* newWinner carries it through the loop.
UpdateData(winner) ==
  LET pos == GetNewHiScorePos(winner.score)
      after[i \in pos..SIZE] ==
        IF i = pos
        THEN [board |-> [leaderboard EXCEPT ![i] = winner], temp |-> leaderboard[i]]
        ELSE [board |-> [after[i - 1].board EXCEPT ![i] = after[i - 1].temp],
              temp  |-> after[i - 1].board[i]]
  IN  /\ leaderboard' = after[SIZE].board
      /\ newWinner' = IF pos = SIZE THEN winner ELSE after[SIZE].temp

-----------------------------------------------------------------------------
(* The screens                                                             *)

IsHiScore(score) == score > GetLowestHiScore

\* checkNewHiScore at the end of a game, with reset_hiscore: the text box is
\* created anew, player keeps what it has.
CheckNewHiScore(score) ==
  /\ mode = "MENU"
  /\ results < MaxResults
  /\ results' = results + 1
  /\ IF IsHiScore(score)
     THEN /\ mode' = "HIGHSCORE"
          /\ newWinner' = [newWinner EXCEPT !.score = score]
          /\ new_hiscore' = << >>
     ELSE /\ mode' = "LEADERBOARD"
          /\ UNCHANGED <<newWinner, new_hiscore>>
  /\ UNCHANGED <<player, leaderboard, disk, runs>>

\* A tie shows the leaderboard, and so does the menu.
ShowLeaderboard ==
  /\ mode = "MENU"
  /\ mode' = "LEADERBOARD"
  /\ UNCHANGED <<typing, newWinner, leaderboard, disk, results, runs>>

\* memcpy of the string s into a name: NameSize bytes.
AsName(s) == IF Len(s) <= NameSize THEN s ELSE SubSeq(s, 1, NameSize)

\* highscore_update_status, ENTER
Enter ==
  /\ mode = "HIGHSCORE"
  /\ player # << >>
  /\ UpdateData([newWinner EXCEPT !.name = AsName(player)])
  /\ mode' = "LEADERBOARD"
  /\ UNCHANGED <<typing, disk, results, runs>>

\* add_to_centered_text_box returns true.
BoxTakes == Len(new_hiscore) < BOX_MAX

\* highscore_update_status, a letter or a digit
Type(letter) ==
  /\ mode = "HIGHSCORE"
  /\ BoxTakes
  /\ Len(player) < MaxName
  /\ new_hiscore' = Append(new_hiscore, letter)
  /\ player' = Append(player, letter)
  /\ UNCHANGED <<mode, newWinner, leaderboard, disk, results, runs>>

Front(s) == SubSeq(s, 1, Len(s) - 1)

\* Mutant: the first character is deleted.
Erased_first(s) == Tail(s)

\* The string without the character at idxToDel.
Erased(s) == Front(s)

\* highscore_update_status, BACKSPACE: the box and player lose a character
\* each.  With nothing in player, memmove writes the NUL to the byte before it,
\* which is not part of this state.
Backspace ==
  /\ mode = "HIGHSCORE"
  /\ new_hiscore' = IF new_hiscore = << >> THEN << >> ELSE Front(new_hiscore)
  /\ player' = IF player = << >> THEN << >> ELSE Erased(player)
  /\ UNCHANGED <<mode, newWinner, leaderboard, disk, results, runs>>

\* leaderboard_update_status, BACKSPACE
LeaveLeaderboard ==
  /\ mode = "LEADERBOARD"
  /\ mode' = "MENU"
  /\ UNCHANGED <<typing, newWinner, leaderboard, disk, results, runs>>

-----------------------------------------------------------------------------
(* The program                                                             *)

Running == mode \in {"MENU", "HIGHSCORE", "LEADERBOARD"}

Blank == [name |-> << >>, score |-> 0]

\* fscanf with %s skips an empty name and takes what comes after it: a board comes
\* back as it was written only if every result has a name.
ReadsBack == file # Nothing /\ \A i \in Places : file[i].name # << >>

\* proj_main_loop with retrieveData; the statics of a new process are zero.
\* What fscanf leaves in the names when there is nothing to read is undefined.
RetrieveData ==
  /\ mode = "OFF"
  /\ runs < MaxRuns
  /\ runs' = runs + 1
  /\ player' = << >> /\ new_hiscore' = << >> /\ newWinner' = Blank
  /\ IF ReadsBack THEN mode' = "MENU" /\ leaderboard' = file
     ELSE mode' = "UNDEFINED" /\ UNCHANGED leaderboard
  /\ UNCHANGED <<disk, results>>

\* ESC, or EXIT in the menu: run() returns and saveData empties the file ...
OpenFile ==
  /\ Running
  /\ mode' = "SAVING"
  /\ file' = Nothing
  /\ UNCHANGED <<typing, newWinner, leaderboard, saved, results, runs>>

\* Mutant: the last place is not written; fscanf then leaves the name before it and
\* the score 0.
Written_short == [leaderboard EXCEPT ![SIZE] = [leaderboard[SIZE - 1] EXCEPT !.score = 0]]

\* What fprintf has put together.
Written == leaderboard

\* ... and fills it when fclose writes what fprintf has buffered.
CloseFile ==
  /\ mode = "SAVING"
  /\ mode' = "OFF"
  /\ file' = Written
  /\ saved' = leaderboard
  /\ UNCHANGED <<typing, newWinner, leaderboard, results, runs>>

\* The program is killed, or the computer switched off, at any point.
Crash ==
  /\ mode # "OFF"
  /\ mode' = "OFF"
  /\ UNCHANGED <<typing, newWinner, leaderboard, disk, results, runs>>

\* The last run followed is over.
Over == mode = "OFF" /\ runs = MaxRuns /\ UNCHANGED vars

Init ==
  /\ mode = "OFF"
  /\ player = << >>
  /\ new_hiscore = << >>
  /\ newWinner = Blank
  /\ file \in FirstFiles
  /\ leaderboard = file
  /\ saved = file
  /\ results = 0
  /\ runs = 0

Next ==
  \/ RetrieveData \/ OpenFile \/ CloseFile \/ Crash
  \/ \E score \in Scores : CheckNewHiScore(score)
  \/ ShowLeaderboard \/ LeaveLeaderboard
  \/ Enter \/ Backspace \/ \E letter \in Letters : Type(letter)
  \/ Over

Spec == Init /\ [][Next]_vars

-----------------------------------------------------------------------------
(* Properties                                                              *)

\* The text box and the string behind it are edited apart from each other, but
\* what is shown is at least the end of what will be registered.
BoxEndsName ==
  mode = "HIGHSCORE" =>
    /\ Len(new_hiscore) <= Len(player)
    /\ new_hiscore = SubSeq(player, Len(player) - Len(new_hiscore) + 1, Len(player))

\* A new run shows the board of the last save that was finished, however the
\* runs in between ended; only a save cut short leaves nothing to show.
RestartKeepsScores ==
  [][mode = "OFF" /\ mode' = "MENU" => leaderboard' = saved]_vars

\* The promise of TopScores.
Top == INSTANCE TopScores WITH
  running <- mode \in {"MENU", "HIGHSCORE", "LEADERBOARD", "SAVING"},
  board   <- leaderboard,
  kept    <- file

\* getNewHiScorePos and the loop of updateData put a result behind all that are
\* at least as good and drop exactly the last; a result that ties with the lowest
\* one never gets there; nothing else changes the board but a restart.
ImplementsTopScores == Top!TopSpec
=============================================================================
