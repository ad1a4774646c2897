--------------------------- MODULE TopScoresProofs ---------------------------
(* The order of the board, for every size and every number of results.     *)
EXTENDS TopScores, TLAPS

TopInv == TopTypeOK /\ TopSorted

\* The board has a place and scores are natural numbers, as in leaderboard.h.
Proper == SIZE \in Nat \ {0} /\ \A e \in Entries : e.score \in Nat

\* A result put on a board gives a board.
LEMMA BestIsBoard ==
  ASSUME Proper, NEW b \in Boards, NEW e \in Entries
  PROVE  Best(b, e) \in Boards
BY DEF Proper, Best, Boards

\* Best keeps an ordered board ordered, wherever the new result goes.
LEMMA BestSorted ==
  ASSUME Proper, NEW b \in Boards, SortedBoard(b), NEW e \in Entries
  PROVE  SortedBoard(Best(b, e))
<1> SUFFICES ASSUME NEW i \in 1..SIZE, NEW j \in 1..SIZE, i < j
             PROVE  Best(b, e)[i].score >= Best(b, e)[j].score
  BY DEF SortedBoard
<1>1. \A k \in 1..SIZE : b[k].score \in Nat
  BY DEF Proper, Boards
<1>2. e.score \in Nat
  BY DEF Proper
<1>3. i - 1 \in 1..SIZE \/ i = 1
  BY DEF Proper
<1>4. j - 1 \in 1..SIZE /\ i <= j - 1
  BY DEF Proper
<1>5. b[i].score >= b[j].score /\ b[i].score >= b[j - 1].score
  BY <1>1, <1>4 DEF SortedBoard
<1>6. i # 1 => b[i - 1].score >= b[i].score /\ b[i - 1].score >= b[j - 1].score
  BY <1>1, <1>3, <1>4 DEF SortedBoard
<1>7. Best(b, e)[i].score =
        IF b[i].score >= e.score THEN b[i].score
        ELSE IF i = 1 \/ b[i - 1].score >= e.score THEN e.score
        ELSE b[i - 1].score
  BY DEF Best
<1>8. Best(b, e)[j].score =
        IF b[j].score >= e.score THEN b[j].score
        ELSE IF b[j - 1].score >= e.score THEN e.score
        ELSE b[j - 1].score
  BY <1>4 DEF Best
<1>9. i # 1 => b[i - 1].score \in Nat
  BY <1>1, <1>3
<1> QED
  BY <1>1, <1>2, <1>4, <1>5, <1>6, <1>7, <1>8, <1>9

\* What a step does to the board, its order included.
LEMMA TopStep ==
  ASSUME Proper
  PROVE  TopInv /\ [TopNext]_topvars => TopInv'
<1> SUFFICES ASSUME TopInv, [TopNext]_topvars
             PROVE  TopInv'
  OBVIOUS
<1> USE DEF TopInv, TopTypeOK, TopSorted
<1>1. ASSUME NEW e \in Entries, Register(e)
      PROVE  TopInv'
  BY <1>1, BestIsBoard, BestSorted DEF Register
<1>2. CASE BeginSave
  BY <1>2 DEF BeginSave
<1>3. CASE EndSave
  BY <1>3 DEF EndSave
<1>4. CASE Lose
  BY <1>4 DEF Lose
<1>5. CASE Restore
  BY <1>5 DEF Restore
<1>6. CASE UNCHANGED topvars
  BY <1>6 DEF topvars
<1> QED
  BY <1>1, <1>2, <1>3, <1>4, <1>5, <1>6 DEF TopNext

\* TopInv holds throughout.
LEMMA TopInvariant ==
  ASSUME Proper
  PROVE  TopSpec => []TopInv
<1>1. TopInit => TopInv
  BY DEF TopInit, TopInv, TopTypeOK, TopSorted
<1> QED
  BY <1>1, TopStep, PTL DEF TopSpec

\* updateData, whatever the size of the board and the scores, and however runs
\* of the program end: the board stays in order, on screen and in the file.
THEOREM BoardStaysSorted ==
  ASSUME Proper
  PROVE  TopSpec => []TopSorted
<1>1. TopInv => TopSorted
  BY DEF TopInv
<1> QED
  BY <1>1, TopInvariant, PTL

\* updateData throws out the last result and no other, whatever the size of the
\* board and whichever place the new one takes.
THEOREM OnlyTheLastIsDropped ==
  ASSUME Proper
  PROVE  TopSpec => DropsOnlyTheLast
<1>1. ASSUME TopInv, [TopNext]_topvars, running, running', NEW i \in 1..(SIZE - 1)
      PROVE  board'[i] = board[i] \/ board'[i + 1] = board[i]
  <2> USE <1>1
  <2>1. i \in 1..SIZE /\ i + 1 \in 1..SIZE /\ i + 1 # 1 /\ (i + 1) - 1 = i
    BY DEF Proper
  <2>2. ASSUME NEW e \in Entries, Register(e)
        PROVE  board'[i] = board[i] \/ board'[i + 1] = board[i]
    <3>1. board \in Boards /\ SortedBoard(board)
      BY DEF TopInv, TopTypeOK, TopSorted
    <3>2. /\ e.score \in Nat /\ board[i].score \in Nat /\ board[i + 1].score \in Nat
          /\ board[i].score >= board[i + 1].score
      BY <2>1, <3>1 DEF Proper, Boards, SortedBoard
    <3>3. CASE board[i].score >= e.score
      BY <2>1, <2>2, <3>3 DEF Register, Best
    <3>4. CASE ~(board[i].score >= e.score)
      <4>1. ~(board[i + 1].score >= e.score)
        BY <3>2, <3>4
      <4> QED
        BY <2>1, <2>2, <3>4, <4>1 DEF Register, Best
    <3> QED
      BY <3>3, <3>4
  <2>3. CASE board' = board
    BY <2>3
  <2> QED
    BY <2>2, <2>3 DEF TopNext, BeginSave, EndSave, Lose, Restore, topvars
<1>2. TopInv /\ [TopNext]_topvars =>
        [running /\ running' =>
           \A i \in 1..(SIZE - 1) : board'[i] = board[i] \/ board'[i + 1] = board[i]]_topvars
  BY <1>1
<1> QED
  BY <1>2, TopInvariant, PTL DEF TopSpec, DropsOnlyTheLast
=============================================================================
