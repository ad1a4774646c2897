-------------------------- MODULE HighScoreProofs --------------------------
(* The name that is typed, the board and its file, for every size of the    *)
(* board, every set of scores and any number of games and runs.             *)
EXTENDS HighScore, SequenceTheorems, WellFoundedInduction, TLAPS

Modes == {"OFF", "MENU", "HIGHSCORE", "LEADERBOARD", "SAVING", "UNDEFINED"}

Ordered(b) == \A i, j \in Places : i < j => b[i].score >= b[j].score

Board(b) == b \in [Places -> Entries] /\ Ordered(b)

\* b is the end of p, character by character.
EndOf(b, p) ==
  /\ Len(b) <= Len(p)
  /\ \A i \in 1..Len(b) : b[i] = p[Len(p) - Len(b) + i]

TypingInv ==
  /\ mode \in Modes
  /\ player \in Seq(Letters)
  /\ new_hiscore \in Seq(Letters)
  /\ mode = "HIGHSCORE" => EndOf(new_hiscore, player)

\* A winner is only asked for a name when the result is still good enough.
BoardInv ==
  /\ newWinner \in Entries
  /\ Board(leaderboard)
  /\ mode = "HIGHSCORE" => newWinner.score > leaderboard[SIZE].score

\* The file is empty only between fopen and fclose, or after a save cut short.
FileInv == file = Nothing \/ (Board(file) /\ file = saved)

-----------------------------------------------------------------------------
(* Facts about the naturals and the definitions                            *)

\* Every set of naturals that is not empty has a least member: what an
\* induction over a recursive function rests on.
LEMMA LeastNat ==
  ASSUME NEW T \in SUBSET Nat, T # {}
  PROVE  \E m \in T : \A k \in T : m <= k
<1> DEFINE R == OpToRel(<, Nat)
<1>1. IsWellFoundedOn(R, Nat)
  BY NatLessThanWellFounded
<1>2. \A a, b \in Nat : a < b => <<a, b>> \in R
  BY DEF OpToRel
<1> HIDE DEF R
<1>3. \E x \in T : \A y \in T : ~(<<y, x>> \in R)
  BY <1>1, WFMin
<1>4. PICK x \in T : \A y \in T : ~(<<y, x>> \in R)
  BY <1>3
<1>5. ASSUME NEW k \in T PROVE x <= k
  <2>1. x \in Nat /\ k \in Nat
    OBVIOUS
  <2>2. ~(k < x)
    BY <1>2, <1>4, <2>1, Zenon
  <2> QED
    BY <2>1, <2>2
<1> QED
  BY <1>5

LEMMA EntryScore ==
  \A e \in Entries : e.score \in Nat /\ e.score \in Scores \cup {0} /\ e.name \in Names
<1> SUFFICES ASSUME NEW e \in Entries
             PROVE  e.score \in Nat /\ e.score \in Scores \cup {0} /\ e.name \in Names
  OBVIOUS
<1>1. e.score \in Scores \cup {0} /\ e.name \in Names
  BY DEF Entries
<1>2. Scores \cup {0} \subseteq Nat
  BY ConstantsAssumption
<1> QED
  BY <1>1, <1>2

LEMMA BlankEntry == Blank \in Entries
<1>1. << >> \in [1..0 -> Letters]
  OBVIOUS
<1>2. 0 \in 0..NameSize
  BY ConstantsAssumption DEF NameSize
<1>3. << >> \in Names
  BY <1>1, <1>2 DEF Names
<1> QED
  BY <1>3 DEF Blank, Entries

\* memcpy gives a name of the board, however long the string is.
LEMMA AsNameType ==
  ASSUME NEW s \in Seq(Letters)
  PROVE  AsName(s) \in Names
<1>1. NameSize \in Nat
  BY ConstantsAssumption DEF NameSize
<1>2. CASE Len(s) <= NameSize
  <2>1. s \in [1..Len(s) -> Letters] /\ Len(s) \in 0..NameSize
    BY <1>1, <1>2
  <2> QED
    BY <1>2, <2>1 DEF AsName, Names
<1>3. CASE ~(Len(s) <= NameSize)
  <2>1. SubSeq(s, 1, NameSize) \in [1..NameSize -> Letters] /\ NameSize \in 0..NameSize
    <3>1. \A i \in 1..NameSize : s[i] \in Letters
      BY <1>1, <1>3
    <3>2. SubSeq(s, 1, NameSize) \in Seq(Letters) /\ Len(SubSeq(s, 1, NameSize)) = NameSize
      BY <1>1, <3>1, SubSeqProperties
    <3>3. SubSeq(s, 1, NameSize) \in [1..Len(SubSeq(s, 1, NameSize)) -> Letters]
      BY <3>2, LenProperties, Zenon
    <3>4. SubSeq(s, 1, NameSize) \in [1..NameSize -> Letters]
      BY <3>2, <3>3, Zenon
    <3> QED
      BY <1>1, <3>4
  <2> QED
    BY <1>3, <2>1 DEF AsName, Names
<1> QED
  BY <1>2, <1>3

\* A board is never taken for an empty file.
LEMMA BoardIsSomething == \A b : Board(b) => b # Nothing
<1> SUFFICES ASSUME NEW b, Board(b), b = << >> PROVE FALSE
  BY DEF Nothing
<1>1. DOMAIN b = 1..SIZE
  BY DEF Board, Places
<1>2. 1 \in 1..SIZE
  BY ConstantsAssumption
<1>3. DOMAIN << >> = {}
  OBVIOUS
<1> QED
  BY <1>1, <1>2, <1>3

-----------------------------------------------------------------------------
(* The board                                                               *)

\* getNewHiScorePos, for a result that beats the last one: all places before
\* the one found hold results at least as good, and none from there on does.
LEMMA PosSplits ==
  ASSUME NEW b \in [Places -> Entries], b = leaderboard, Ordered(b),
         NEW score \in Nat, score > b[SIZE].score
  PROVE  /\ GetNewHiScorePos(score) \in Places
         /\ \A i \in Places : i < GetNewHiScorePos(score) <=> b[i].score >= score
<1> DEFINE below == {i \in Places : score > leaderboard[i].score}
           pos == GetNewHiScorePos(score)
<1>1. SIZE \in Places /\ Places \subseteq Nat
  BY ConstantsAssumption DEF Places
<1>2. \A i \in Places : b[i].score \in Nat
  BY EntryScore
<1>3. SIZE \in below /\ below \in SUBSET Nat
  BY <1>1
<1>4. \E m \in below : \A k \in below : m <= k
  <2> HIDE DEF below
  <2> QED
    BY <1>3, LeastNat
<1>5. pos = CHOOSE i \in below : \A j \in below : i <= j
  BY <1>3 DEF GetNewHiScorePos
<1>6. pos \in below /\ \A j \in below : pos <= j
  <2> HIDE DEF below, pos
  <2> QED
    BY <1>4, <1>5
<1>7. ASSUME NEW i \in Places
      PROVE  i < pos <=> b[i].score >= score
  <2> HIDE DEF pos
  <2>1. pos \in Places /\ score > b[pos].score
    BY <1>6
  <2>2. CASE i < pos
    <3>1. i \notin below
      BY <1>1, <1>6, <2>1, <2>2
    <3> QED
      BY <1>2, <2>2, <3>1
  <2>3. CASE ~(i < pos)
    <3>1. i = pos \/ pos < i
      BY <1>1, <2>1, <2>3
    <3>2. b[pos].score >= b[i].score
      BY <1>2, <2>1, <3>1 DEF Ordered
    <3> QED
      BY <1>2, <2>1, <2>3, <3>2
  <2> QED
    BY <2>2, <2>3
<1> QED
  BY <1>6, <1>7

\* The loop of updateData, whatever the place it starts at: each place below
\* takes what the one above it had, and nothing else moves.
LEMMA LoopShifts ==
  ASSUME NEW winner, UpdateData(winner),
         NEW b \in [Places -> Entries], b = leaderboard,
         GetNewHiScorePos(winner.score) \in Places
  PROVE  /\ leaderboard' =
              [k \in Places |->
                 IF k < GetNewHiScorePos(winner.score) THEN b[k]
                 ELSE IF k = GetNewHiScorePos(winner.score) THEN winner
                 ELSE b[k - 1]]
         /\ newWinner' = IF GetNewHiScorePos(winner.score) = SIZE THEN winner ELSE b[SIZE]
<1> DEFINE pos == GetNewHiScorePos(winner.score)
           after[i \in pos..SIZE] ==
             IF i = pos
             THEN [board |-> [leaderboard EXCEPT ![i] = winner], temp |-> leaderboard[i]]
             ELSE [board |-> [after[i - 1].board EXCEPT ![i] = after[i - 1].temp],
                   temp  |-> after[i - 1].board[i]]
           Loop(f) ==
             [i \in pos..SIZE |->
                IF i = pos
                THEN [board |-> [leaderboard EXCEPT ![i] = winner], temp |-> leaderboard[i]]
                ELSE [board |-> [f[i - 1].board EXCEPT ![i] = f[i - 1].temp],
                      temp  |-> f[i - 1].board[i]]]
           Shifted(i) ==
             [k \in Places |-> IF k < pos \/ k > i THEN b[k]
                               ELSE IF k = pos THEN winner ELSE b[k - 1]]
           closed == [i \in pos..SIZE |-> [board |-> Shifted(i), temp |-> b[i]]]
<1>1. leaderboard' = after[SIZE].board
  BY Zenon DEF UpdateData
<1>2. newWinner' = IF pos = SIZE THEN winner ELSE after[SIZE].temp
  BY Zenon DEF UpdateData
<1>3. after = CHOOSE f : f = Loop(f)
  BY Zenon
<1> HIDE DEF after
<1>4. pos \in Nat /\ SIZE \in Nat /\ 1 <= pos /\ pos <= SIZE
  BY ConstantsAssumption DEF Places
<1>5. Shifted(pos) = [b EXCEPT ![pos] = winner]
  <2> HIDE DEF pos
  <2>1. ASSUME NEW k \in Places
        PROVE  Shifted(pos)[k] = [b EXCEPT ![pos] = winner][k]
    <3>1. k \in Nat
      BY DEF Places
    <3>2. CASE k = pos
      BY <1>4, <3>2
    <3>3. CASE k # pos
      BY <1>4, <3>1, <3>3
    <3> QED
      BY <3>2, <3>3
  <2> QED
    BY <2>1
<1>6. ASSUME NEW i \in pos..SIZE, i # pos
      PROVE  /\ Shifted(i) = [Shifted(i - 1) EXCEPT ![i] = b[i - 1]]
             /\ Shifted(i - 1)[i] = b[i]
             /\ i - 1 \in pos..SIZE
  <2> HIDE DEF pos
  <2>1. /\ i \in Nat /\ i - 1 \in Nat /\ pos < i /\ i <= SIZE
        /\ i \in Places /\ i - 1 \in Places /\ i - 1 \in pos..SIZE
    BY <1>4, <1>6 DEF Places
  <2>2. ASSUME NEW k \in Places
        PROVE  Shifted(i)[k] = [Shifted(i - 1) EXCEPT ![i] = b[i - 1]][k]
    <3>1. k \in Nat
      BY DEF Places
    <3>2. CASE k = i
      BY <1>4, <2>1, <3>2
    <3>3. CASE k # i
      <4>1. [Shifted(i - 1) EXCEPT ![i] = b[i - 1]][k] = Shifted(i - 1)[k]
        BY <3>3
      <4>2. k > i <=> k > i - 1
        BY <2>1, <3>1, <3>3
      <4> QED
        BY <4>1, <4>2
    <3> QED
      BY <3>2, <3>3
  <2>3. Shifted(i - 1)[i] = b[i]
    BY <1>4, <2>1
  <2> QED
    BY <2>1, <2>2, <2>3
<1>7. closed = Loop(closed)
  <2> HIDE DEF pos, Shifted
  <2>1. ASSUME NEW i \in pos..SIZE
        PROVE  closed[i] = Loop(closed)[i]
    <3>1. CASE i = pos
      BY <1>5, <3>1
    <3>2. CASE i # pos
      BY <1>6, <3>2
    <3> QED
      BY <3>1, <3>2
  <2>2. DOMAIN closed = pos..SIZE /\ DOMAIN Loop(closed) = pos..SIZE
    OBVIOUS
  <2> QED
    BY <2>1, <2>2
<1>8. after = Loop(after)
  <2> HIDE DEF Loop, closed
  <2> QED
    BY <1>3, <1>7, Zenon
<1>9. \A i \in pos..SIZE : after[i] = closed[i]
  <2> DEFINE bad == {i \in pos..SIZE : after[i] # closed[i]}
  <2> SUFFICES ASSUME bad # {} PROVE FALSE
    OBVIOUS
  <2>1. bad \in SUBSET Nat
    BY <1>4
  <2>2. PICK m \in bad : \A k \in bad : m <= k
    <3> HIDE DEF bad
    <3> QED
      BY <2>1, LeastNat
  <2>3. m \in pos..SIZE /\ after[m] # closed[m] /\ m - 1 \notin bad
    <3> HIDE DEF closed, pos
    <3>1. m \in pos..SIZE /\ after[m] # closed[m]
      BY <2>2
    <3>2. ~(m <= m - 1)
      BY <1>4, <3>1
    <3> QED
      BY <2>2, <3>1, <3>2
  <2>4. m # pos => after[m - 1] = closed[m - 1]
    BY <1>4, <2>3
  <2>5. Loop(after)[m] = Loop(closed)[m]
    <3> HIDE DEF after, closed
    <3> QED
      BY <2>3, <2>4
  <2> QED
    <3> HIDE DEF after, closed, Loop
    <3> QED
      BY <1>7, <1>8, <2>3, <2>5, Zenon
<1>10. SIZE \in pos..SIZE
  BY <1>4
<1>11. after[SIZE].board = Shifted(SIZE) /\ after[SIZE].temp = b[SIZE]
  <2> HIDE DEF Shifted, pos
  <2>1. after[SIZE] = closed[SIZE]
    BY <1>9, <1>10, Zenon
  <2>2. closed[SIZE] = [board |-> Shifted(SIZE), temp |-> b[SIZE]]
    BY <1>10
  <2> QED
    BY <2>1, <2>2
<1>12. Shifted(SIZE) = [k \in Places |-> IF k < pos THEN b[k]
                                        ELSE IF k = pos THEN winner ELSE b[k - 1]]
  <2> HIDE DEF pos
  <2> QED
    BY <1>4 DEF Places
<1> QED
  BY <1>1, <1>2, <1>11, <1>12

\* What is proved of the promise of TopScores.
Kept == INSTANCE TopScoresProofs WITH
  running <- mode \in {"MENU", "HIGHSCORE", "LEADERBOARD", "SAVING"},
  board   <- leaderboard,
  kept    <- file

\* The two ways to say that a board is in order are the same.
LEMMA BoardIsSorted ==
  \A b : Board(b) <=> b \in Kept!Boards /\ Kept!SortedBoard(b)
BY DEF Board, Ordered, Kept!Boards, Kept!SortedBoard, Places

LEMMA EntriesProper == Kept!Proper
BY EntryScore, ConstantsAssumption DEF Kept!Proper

\* updateData puts the winner behind all results that are at least as good and
\* drops exactly the last one.
LEMMA UpdateIsBest ==
  ASSUME NEW winner \in Entries, UpdateData(winner), Board(leaderboard),
         winner.score > leaderboard[SIZE].score
  PROVE  /\ leaderboard' = Kept!Best(leaderboard, winner)
         /\ newWinner' \in Entries
<1> DEFINE b == leaderboard
           pos == GetNewHiScorePos(winner.score)
<1>1. b \in [Places -> Entries] /\ b = leaderboard /\ Ordered(b)
  BY DEF Board
<1>2. winner.score \in Nat /\ SIZE \in Places /\ \A i \in Places : b[i].score \in Nat
  BY <1>1, EntryScore, ConstantsAssumption DEF Places
<1>3. pos \in Places /\ \A i \in Places : i < pos <=> b[i].score >= winner.score
  BY <1>1, <1>2, PosSplits
<1>4. leaderboard' = [k \in Places |-> IF k < pos THEN b[k]
                                       ELSE IF k = pos THEN winner ELSE b[k - 1]]
  BY <1>1, <1>3, LoopShifts
<1>5. newWinner' = IF pos = SIZE THEN winner ELSE b[SIZE]
  BY <1>1, <1>3, LoopShifts
<1> HIDE DEF b, pos
<1>6. ASSUME NEW i \in Places
      PROVE  (IF i < pos THEN b[i] ELSE IF i = pos THEN winner ELSE b[i - 1]) =
             (IF b[i].score >= winner.score THEN b[i]
              ELSE IF i = 1 \/ b[i - 1].score >= winner.score THEN winner
              ELSE b[i - 1])
  <2>1. pos \in Nat /\ i \in Nat /\ 1 <= i /\ 1 <= pos
    BY <1>3 DEF Places
  <2>2. CASE i < pos
    BY <1>3, <2>2
  <2>3. CASE i = pos
    <3>1. i # 1 => i - 1 \in Places /\ i - 1 < pos
      BY <2>1, <2>3, ConstantsAssumption DEF Places
    <3> QED
      BY <1>3, <2>1, <2>3, <3>1
  <2>4. CASE i > pos
    <3>1. i # 1 /\ i - 1 \in Places /\ ~(i - 1 < pos) /\ ~(i < pos) /\ i # pos
      BY <2>1, <2>4, ConstantsAssumption DEF Places
    <3> QED
      BY <1>3, <3>1
  <2> QED
    BY <2>1, <2>2, <2>3, <2>4
<1>7. leaderboard' = [i \in Places |-> IF b[i].score >= winner.score THEN b[i]
                                       ELSE IF i = 1 \/ b[i - 1].score >= winner.score THEN winner
                                       ELSE b[i - 1]]
  BY <1>4, <1>6
<1> QED
  BY <1>1, <1>2, <1>5, <1>7 DEF b, Kept!Best, Places

\* ... which leaves a board, in order.
LEMMA BestIsBoard ==
  ASSUME NEW winner \in Entries, Board(leaderboard)
  PROVE  Board(Kept!Best(leaderboard, winner))
BY BoardIsSorted, EntriesProper, Kept!BestIsBoard, Kept!BestSorted

-----------------------------------------------------------------------------
(* The name                                                                *)

\* Being the end of a string, said with SubSeq and said by characters.
LEMMA EndOfSubSeq ==
  ASSUME NEW p \in Seq(Letters), NEW b \in Seq(Letters), EndOf(b, p)
  PROVE  b = SubSeq(p, Len(p) - Len(b) + 1, Len(p))
<1> DEFINE m == Len(p) - Len(b) + 1
           t == SubSeq(p, m, Len(p))
<1>1. /\ Len(p) \in Nat /\ Len(b) \in Nat /\ Len(b) <= Len(p)
      /\ m \in Int /\ 1 <= m /\ Len(p) - m + 1 = Len(b)
  BY DEF EndOf
<1>2. \A i \in m..Len(p) : p[i] \in Letters
  BY <1>1
<1>3. /\ t \in Seq(Letters)
      /\ Len(t) = IF m <= Len(p) THEN Len(p) - m + 1 ELSE 0
      /\ \A i \in 1..(Len(p) - m + 1) : t[i] = p[m + i - 1]
  <2> HIDE DEF m
  <2> QED
    BY <1>1, <1>2, SubSeqProperties
<1>4. Len(t) = Len(b)
  <2> HIDE DEF t
  <2> QED
    BY <1>1, <1>3
<1>5. ASSUME NEW i \in 1..Len(b)
      PROVE  b[i] = t[i]
  <2> HIDE DEF t
  <2>1. m + i - 1 = Len(p) - Len(b) + i
    BY <1>1
  <2> QED
    BY <1>1, <1>3, <2>1 DEF EndOf
<1> HIDE DEF t
<1>6. b = t
  BY <1>3, <1>4, <1>5, SeqEqual
<1> QED
  BY <1>6 DEF t

LEMMA FrontProperties ==
  ASSUME NEW s \in Seq(Letters), s # << >>
  PROVE  /\ Front(s) \in Seq(Letters)
         /\ Len(Front(s)) = Len(s) - 1
         /\ \A i \in 1..(Len(s) - 1) : Front(s)[i] = s[i]
<1>1. Len(s) \in Nat /\ Len(s) # 0
  BY EmptySeq, LenProperties
<1>2. \A i \in 1..(Len(s) - 1) : s[i] \in Letters
  BY <1>1
<1>3. 1 \in Int /\ Len(s) - 1 \in Int
  BY <1>1
<1>4. /\ SubSeq(s, 1, Len(s) - 1) \in Seq(Letters)
      /\ Len(SubSeq(s, 1, Len(s) - 1)) = IF 1 <= Len(s) - 1 THEN (Len(s) - 1) - 1 + 1 ELSE 0
      /\ \A i \in 1..((Len(s) - 1) - 1 + 1) : SubSeq(s, 1, Len(s) - 1)[i] = s[1 + i - 1]
  BY <1>2, <1>3, SubSeqProperties
<1>5. /\ Len(Front(s)) = IF 1 <= Len(s) - 1 THEN (Len(s) - 1) - 1 + 1 ELSE 0
      /\ \A i \in 1..((Len(s) - 1) - 1 + 1) : Front(s)[i] = s[1 + i - 1]
      /\ Front(s) \in Seq(Letters)
  BY <1>4, Zenon DEF Front
<1>6. Len(Front(s)) = Len(s) - 1
  <2> DEFINE n == Len(s)
             f == Len(Front(s))
  <2>1. n \in Nat /\ n # 0 /\ f = IF 1 <= n - 1 THEN (n - 1) - 1 + 1 ELSE 0
    BY <1>1, <1>5
  <2> HIDE DEF n, f
  <2>2. f = n - 1
    BY <2>1
  <2> QED
    BY <2>2 DEF n, f
<1>7. ASSUME NEW i \in 1..(Len(s) - 1)
      PROVE  Front(s)[i] = s[i]
  <2>1. i \in 1..((Len(s) - 1) - 1 + 1) /\ 1 + i - 1 = i
    BY <1>1
  <2>2. Front(s)[i] = s[1 + i - 1]
    BY <1>5, <2>1, Zenon
  <2> QED
    BY <2>1, <2>2
<1> QED
  BY <1>5, <1>6, <1>7, Zenon

\* A character typed, or erased, on both sides keeps the box the end of the name.
LEMMA AppendBoth ==
  ASSUME NEW p \in Seq(Letters), NEW b \in Seq(Letters), EndOf(b, p), NEW c \in Letters
  PROVE  EndOf(Append(b, c), Append(p, c))
<1> DEFINE bb == Append(b, c)
           pp == Append(p, c)
<1>1. Len(p) \in Nat /\ Len(b) \in Nat /\ Len(b) <= Len(p)
  BY DEF EndOf
<1>2. /\ Len(bb) = Len(b) + 1 /\ Len(pp) = Len(p) + 1
      /\ bb[Len(b) + 1] = c /\ pp[Len(p) + 1] = c
      /\ \A i \in 1..Len(b) : bb[i] = b[i]
      /\ \A i \in 1..Len(p) : pp[i] = p[i]
  OBVIOUS
<1> HIDE DEF bb, pp
<1>3. ASSUME NEW i \in 1..(Len(b) + 1)
      PROVE  bb[i] = pp[Len(p) + 1 - (Len(b) + 1) + i]
  <2>1. CASE i = Len(b) + 1
    <3>1. Len(p) + 1 - (Len(b) + 1) + i = Len(p) + 1
      BY <1>1, <2>1
    <3> QED
      BY <1>2, <2>1, <3>1
  <2>2. CASE i # Len(b) + 1
    <3>1. /\ i \in 1..Len(b) /\ Len(p) - Len(b) + i \in 1..Len(p)
          /\ Len(p) + 1 - (Len(b) + 1) + i = Len(p) - Len(b) + i
      BY <1>1, <2>2
    <3> QED
      BY <1>2, <3>1 DEF EndOf
  <2> QED
    BY <2>1, <2>2
<1>4. EndOf(bb, pp)
  BY <1>1, <1>2, <1>3 DEF EndOf
<1> QED
  BY <1>4 DEF bb, pp

LEMMA FrontBoth ==
  ASSUME NEW p \in Seq(Letters), NEW b \in Seq(Letters), EndOf(b, p)
  PROVE  EndOf(IF b = << >> THEN << >> ELSE Front(b), IF p = << >> THEN << >> ELSE Front(p))
<1>1. Len(p) \in Nat /\ Len(b) \in Nat /\ Len(b) <= Len(p)
  BY DEF EndOf
<1>2. CASE b = << >>
  <2>1. CASE p = << >>
    BY <1>2, <2>1 DEF EndOf
  <2>2. CASE p # << >>
    BY <1>1, <1>2, <2>2, FrontProperties DEF EndOf
  <2> QED
    BY <2>1, <2>2
<1>3. CASE b # << >>
  <2>1. p # << >>
    BY <1>1, <1>3 DEF EndOf
  <2>2. /\ Len(Front(b)) = Len(b) - 1 /\ Len(Front(p)) = Len(p) - 1
        /\ \A i \in 1..(Len(b) - 1) : Front(b)[i] = b[i]
        /\ \A i \in 1..(Len(p) - 1) : Front(p)[i] = p[i]
    BY <1>3, <2>1, FrontProperties
  <2>3. EndOf(Front(b), Front(p))
    BY <1>1, <2>2 DEF EndOf
  <2> QED
    BY <1>3, <2>1, <2>3
<1> QED
  BY <1>2, <1>3

LEMMA TypingInit == Init => TypingInv
BY DEF Init, TypingInv, Modes

\* Every keystroke keeps the box the end of the name, whatever was left in
\* player by the winner before.
LEMMA TypingStep == TypingInv /\ [Next]_vars => TypingInv'
<1> SUFFICES ASSUME TypingInv, [Next]_vars PROVE TypingInv'
  OBVIOUS
<1> USE DEF TypingInv, Modes
<1>1. CASE RetrieveData
  BY <1>1 DEF RetrieveData
<1>2. CASE OpenFile
  BY <1>2 DEF OpenFile, typing
<1>3. CASE CloseFile
  BY <1>3 DEF CloseFile, typing
<1>4. CASE Crash
  BY <1>4 DEF Crash, typing
<1>5. ASSUME NEW score \in Scores, CheckNewHiScore(score)
      PROVE  TypingInv'
  <2>1. player' = player /\ mode' \in Modes
    BY <1>5 DEF CheckNewHiScore
  <2>2. new_hiscore' = new_hiscore \/ new_hiscore' = << >>
    BY <1>5 DEF CheckNewHiScore
  <2>3. << >> \in Seq(Letters)
    OBVIOUS
  <2>4. new_hiscore' \in Seq(Letters)
    BY <2>2, <2>3, Zenon
  <2>5. mode' = "HIGHSCORE" => EndOf(new_hiscore', player')
    BY <1>5 DEF CheckNewHiScore, EndOf
  <2> QED
    BY <2>1, <2>4, <2>5
<1>6. CASE ShowLeaderboard
  BY <1>6 DEF ShowLeaderboard, typing
<1>7. CASE LeaveLeaderboard
  BY <1>7 DEF LeaveLeaderboard, typing
<1>8. CASE Enter
  BY <1>8 DEF Enter, typing
<1>9. CASE Backspace
  <2>1. mode' = mode /\ EndOf(new_hiscore, player)
    BY <1>9 DEF Backspace
  <2>2. /\ new_hiscore' = IF new_hiscore = << >> THEN << >> ELSE Front(new_hiscore)
        /\ player' = IF player = << >> THEN << >> ELSE Front(player)
    BY <1>9 DEF Backspace, Erased
  <2>3. << >> \in Seq(Letters)
    OBVIOUS
  <2>4. new_hiscore' \in Seq(Letters) /\ player' \in Seq(Letters)
    BY <2>2, <2>3, FrontProperties, Zenon
  <2>5. EndOf(new_hiscore', player')
    BY <2>1, <2>2, FrontBoth, Zenon
  <2> QED
    BY <2>1, <2>4, <2>5
<1>10. ASSUME NEW letter \in Letters, Type(letter)
       PROVE  TypingInv'
  <2>1. mode' = mode /\ EndOf(new_hiscore, player)
    BY <1>10 DEF Type
  <2>2. new_hiscore' = Append(new_hiscore, letter) /\ player' = Append(player, letter)
    BY <1>10 DEF Type
  <2>3. new_hiscore' \in Seq(Letters) /\ player' \in Seq(Letters)
    BY <2>2
  <2>4. EndOf(new_hiscore', player')
    BY <2>1, <2>2, AppendBoth, Zenon
  <2> QED
    BY <2>1, <2>3, <2>4
<1>11. CASE UNCHANGED vars
  BY <1>11 DEF vars, typing
<1> QED
  BY <1>1, <1>2, <1>3, <1>4, <1>5, <1>6, <1>7, <1>8, <1>9, <1>10, <1>11 DEF Next, Over

\* highscore_update_status, whatever is typed and erased, with a name left
\* behind by an earlier winner or without: what the box shows is the end of what
\* will be registered.
THEOREM BoxAlwaysEndsName == Spec => []BoxEndsName
<1>1. TypingInv => BoxEndsName
  BY EndOfSubSeq DEF TypingInv, BoxEndsName, EndOf
<1> QED
  BY <1>1, TypingInit, TypingStep, PTL DEF Spec

-----------------------------------------------------------------------------
(* The board and its file                                                  *)

\* What ENTER registers is a result of the board.
LEMMA WinnerType ==
  ASSUME TypingInv, BoardInv
  PROVE  /\ [newWinner EXCEPT !.name = AsName(player)] \in Entries
         /\ [newWinner EXCEPT !.name = AsName(player)].score = newWinner.score
BY AsNameType DEF TypingInv, BoardInv, Entries

\* ENTER: the winner is on the board, which is a board still.
LEMMA EnterRegisters ==
  ASSUME TypingInv, BoardInv, Enter
  PROVE  /\ \E e \in Entries : /\ e.score > leaderboard[SIZE].score
                               /\ leaderboard' = Kept!Best(leaderboard, e)
         /\ Board(leaderboard') /\ newWinner' \in Entries
         /\ mode = "HIGHSCORE" /\ mode' = "LEADERBOARD" /\ UNCHANGED disk
<1> DEFINE e == [newWinner EXCEPT !.name = AsName(player)]
<1>1. mode = "HIGHSCORE" /\ mode' = "LEADERBOARD" /\ UNCHANGED disk /\ UpdateData(e)
  BY DEF Enter
<1>2. e \in Entries /\ e.score = newWinner.score
  BY WinnerType
<1> HIDE DEF e
<1>3. e.score > leaderboard[SIZE].score /\ Board(leaderboard)
  BY <1>1, <1>2 DEF BoardInv
<1>4. leaderboard' = Kept!Best(leaderboard, e) /\ newWinner' \in Entries
  BY <1>1, <1>2, <1>3, UpdateIsBest
<1>5. Board(leaderboard')
  BY <1>2, <1>3, <1>4, BestIsBoard
<1> QED
  BY <1>1, <1>2, <1>3, <1>4, <1>5

FilesInv == TypingInv /\ BoardInv /\ FileInv

LEMMA FilesInit == Init => FilesInv
<1> SUFFICES ASSUME Init PROVE FilesInv
  OBVIOUS
<1>1. Board(file) /\ leaderboard = file /\ saved = file
  BY FirstFilesAssumption DEF Init, Board, Ordered, Places
<1> QED
  BY <1>1, TypingInit, BlankEntry DEF FilesInv, BoardInv, FileInv, Init

\* Each step leaves a board on screen and either a finished save or nothing in
\* the file.
LEMMA FilesStep == FilesInv /\ [Next]_vars => FilesInv'
<1> SUFFICES ASSUME FilesInv, [Next]_vars PROVE BoardInv' /\ FileInv'
  BY TypingStep DEF FilesInv
<1> USE DEF FilesInv, BoardInv, FileInv
<1>1. CASE RetrieveData
  <2>1. newWinner' \in Entries /\ mode' # "HIGHSCORE" /\ UNCHANGED disk
    BY <1>1, BlankEntry DEF RetrieveData
  <2>2. leaderboard' = leaderboard \/ (file # Nothing /\ leaderboard' = file)
    BY <1>1 DEF RetrieveData, ReadsBack
  <2> QED
    BY <2>1, <2>2 DEF disk
<1>2. CASE OpenFile
  BY <1>2 DEF OpenFile, typing
<1>3. CASE CloseFile
  BY <1>3 DEF CloseFile, typing, Written
<1>4. CASE Crash
  BY <1>4 DEF Crash, disk
<1>5. ASSUME NEW score \in Scores, CheckNewHiScore(score)
      PROVE  BoardInv' /\ FileInv'
  <2>1. UNCHANGED leaderboard /\ UNCHANGED disk
    BY <1>5 DEF CheckNewHiScore
  <2>2. CASE score > leaderboard[SIZE].score
    <3>1. newWinner' = [newWinner EXCEPT !.score = score]
      BY <1>5, <2>2 DEF CheckNewHiScore, IsHiScore, GetLowestHiScore
    <3>2. newWinner' \in Entries /\ newWinner'.score = score
      BY <3>1 DEF Entries
    <3> QED
      BY <2>1, <2>2, <3>2 DEF disk
  <2>3. CASE ~(score > leaderboard[SIZE].score)
    <3>1. mode' = "LEADERBOARD" /\ UNCHANGED newWinner
      BY <1>5, <2>3 DEF CheckNewHiScore, IsHiScore, GetLowestHiScore
    <3> QED
      BY <2>1, <3>1 DEF disk
  <2> QED
    BY <2>2, <2>3
<1>6. CASE ShowLeaderboard
  BY <1>6 DEF ShowLeaderboard, disk
<1>7. CASE LeaveLeaderboard
  BY <1>7 DEF LeaveLeaderboard, disk
<1>8. CASE Enter
  <2>1. /\ Board(leaderboard') /\ newWinner' \in Entries
        /\ mode' = "LEADERBOARD" /\ UNCHANGED disk
    BY <1>8, EnterRegisters
  <2> QED
    BY <2>1 DEF disk
<1>9. CASE Backspace
  BY <1>9 DEF Backspace, disk
<1>10. ASSUME NEW letter \in Letters, Type(letter)
       PROVE  BoardInv' /\ FileInv'
  BY <1>10 DEF Type, disk
<1>11. CASE UNCHANGED vars
  BY <1>11 DEF vars, disk
<1> QED
  BY <1>1, <1>2, <1>3, <1>4, <1>5, <1>6, <1>7, <1>8, <1>9, <1>10, <1>11 DEF Next, Over

\* retrieveData and saveData, however the runs end and however often: what a new
\* run shows is the board of the last save that was finished.
THEOREM RestartAlwaysKeepsScores == Spec => RestartKeepsScores
<1>1. ASSUME FilesInv, Next, mode = "OFF", mode' = "MENU"
      PROVE  leaderboard' = saved
  <2>1. RetrieveData
    BY <1>1 DEF Next, Over, OpenFile, CloseFile, Crash, CheckNewHiScore, ShowLeaderboard,
                LeaveLeaderboard, Enter, Backspace, Type, Running, vars
  <2>2. file # Nothing /\ leaderboard' = file
    BY <1>1, <2>1 DEF RetrieveData, ReadsBack
  <2> QED
    BY <1>1, <2>2 DEF FilesInv, FileInv
<1>2. FilesInv /\ [Next]_vars => [mode = "OFF" /\ mode' = "MENU" => leaderboard' = saved]_vars
  BY <1>1
<1> QED
  BY <1>2, FilesInit, FilesStep, PTL DEF Spec, RestartKeepsScores

-----------------------------------------------------------------------------
(* The promise of TopScores                                                *)

RunningModes == {"MENU", "HIGHSCORE", "LEADERBOARD", "SAVING"}

LEMMA TopInitially == Init => Top!TopInit
<1> SUFFICES ASSUME Init PROVE Top!TopInit
  OBVIOUS
<1>1. Board(file) /\ leaderboard = file
  BY FirstFilesAssumption DEF Init, Board, Ordered, Places
<1>2. file \in Top!Boards /\ Top!SortedBoard(file)
  BY <1>1 DEF Board, Ordered, Places, Top!Boards, Top!SortedBoard
<1>3. (mode \in RunningModes) = FALSE
  BY DEF Init, RunningModes
<1> QED
  BY <1>1, <1>2, <1>3, Zenon DEF Top!TopInit, RunningModes

\* Steps that TopScores does not see: it neither starts nor stops, and board
\* and file stay.
LEMMA Unseen ==
  ASSUME mode' \in RunningModes <=> mode \in RunningModes,
         leaderboard' = leaderboard, file' = file
  PROVE  UNCHANGED Top!topvars
<1>1. (mode' \in RunningModes) = (mode \in RunningModes)
  OBVIOUS
<1> QED
  BY <1>1, Zenon DEF Top!topvars, RunningModes

LEMMA TopStepByStep == FilesInv /\ [Next]_vars => [Top!TopNext]_(Top!topvars)
<1> SUFFICES ASSUME FilesInv, [Next]_vars PROVE [Top!TopNext]_(Top!topvars)
  OBVIOUS
<1>1. CASE RetrieveData
  <2>1. CASE ~ReadsBack
    <3>1. mode = "OFF" /\ mode' = "UNDEFINED" /\ leaderboard' = leaderboard /\ file' = file
      BY <1>1, <2>1 DEF RetrieveData, disk
    <3> QED
      BY <3>1, Unseen DEF RunningModes
  <2>2. CASE ReadsBack
    <3>1. mode = "OFF" /\ mode' = "MENU" /\ leaderboard' = file /\ file' = file /\ file # Nothing
      BY <1>1, <2>2 DEF RetrieveData, ReadsBack, disk
    <3>2. mode \notin RunningModes /\ (mode' \in RunningModes) = TRUE
      BY <3>1 DEF RunningModes
    <3>3. Top!Restore
      BY <3>1, <3>2, Zenon DEF Top!Restore, RunningModes
    <3> QED
      BY <3>3 DEF Top!TopNext
  <2> QED
    BY <2>1, <2>2
<1>2. CASE OpenFile
  <2>1. mode \in RunningModes /\ mode' \in RunningModes
    BY <1>2 DEF OpenFile, Running, RunningModes
  <2>2. (mode' \in RunningModes) = (mode \in RunningModes)
    BY <2>1
  <2>3. file' = Nothing /\ leaderboard' = leaderboard
    BY <1>2 DEF OpenFile
  <2>4. Top!BeginSave
    BY <2>1, <2>2, <2>3, Zenon DEF Top!BeginSave, RunningModes
  <2> QED
    BY <2>4 DEF Top!TopNext
<1>3. CASE CloseFile
  <2>1. mode \in RunningModes /\ (mode' \in RunningModes) = FALSE
    BY <1>3 DEF CloseFile, RunningModes
  <2>2. file' = leaderboard /\ leaderboard' = leaderboard
    BY <1>3 DEF CloseFile, Written
  <2>3. Top!EndSave
    BY <2>1, <2>2, Zenon DEF Top!EndSave, RunningModes
  <2> QED
    BY <2>3 DEF Top!TopNext
<1>4. CASE Crash
  <2>1. (mode' \in RunningModes) = FALSE /\ leaderboard' = leaderboard /\ file' = file
    BY <1>4 DEF Crash, disk, RunningModes
  <2>2. CASE mode \in RunningModes
    <3>1. Top!Lose
      BY <2>1, <2>2, Zenon DEF Top!Lose, RunningModes
    <3> QED
      BY <3>1 DEF Top!TopNext
  <2>3. CASE mode \notin RunningModes
    BY <2>1, <2>3, Unseen
  <2> QED
    BY <2>2, <2>3
<1>5. ASSUME NEW score \in Scores, CheckNewHiScore(score)
      PROVE  [Top!TopNext]_(Top!topvars)
  BY <1>5, Unseen DEF CheckNewHiScore, disk, RunningModes
<1>6. CASE ShowLeaderboard
  BY <1>6, Unseen DEF ShowLeaderboard, disk, RunningModes
<1>7. CASE LeaveLeaderboard
  BY <1>7, Unseen DEF LeaveLeaderboard, disk, RunningModes
<1>8. CASE Enter
  <2>1. PICK e \in Entries : /\ e.score > leaderboard[SIZE].score
                             /\ leaderboard' = Kept!Best(leaderboard, e)
    BY <1>8, EnterRegisters DEF FilesInv
  <2>2. mode = "HIGHSCORE" /\ mode' = "LEADERBOARD" /\ file' = file
    BY <1>8, EnterRegisters DEF FilesInv, disk
  <2>3. mode \in RunningModes /\ (mode' \in RunningModes) = (mode \in RunningModes)
    BY <2>2 DEF RunningModes
  <2>4. leaderboard' = Top!Best(leaderboard, e)
    BY <2>1 DEF Kept!Best, Top!Best
  <2>5. Top!Register(e)
    BY <2>1, <2>2, <2>3, <2>4, Zenon DEF Top!Register, RunningModes
  <2> QED
    BY <2>5 DEF Top!TopNext
<1>9. CASE Backspace
  BY <1>9, Unseen DEF Backspace, disk
<1>10. ASSUME NEW letter \in Letters, Type(letter)
       PROVE  [Top!TopNext]_(Top!topvars)
  BY <1>10, Unseen DEF Type, disk
<1>11. CASE UNCHANGED vars
  BY <1>11, Unseen DEF vars, disk
<1> QED
  BY <1>1, <1>2, <1>3, <1>4, <1>5, <1>6, <1>7, <1>8, <1>9, <1>10, <1>11 DEF Next, Over

\* highscore.c, leaderboard.c and proj.c together keep the promise of TopScores,
\* for every board and through every crash: getNewHiScorePos and the loop of
\* updateData are an insertion behind the results that are at least as good.
THEOREM HighScoreImplementsTopScores == Spec => ImplementsTopScores
BY TopInitially, TopStepByStep, FilesInit, FilesStep, PTL DEF Spec, ImplementsTopScores, Top!TopSpec

\* What follows for the program from what is proved of the promise: the board
\* that is shown and the one in the file are in order in every state, and while
\* the program runs a new result throws out the last one and no other.
THEOREM PromiseForTheProgram == Spec => []Kept!TopSorted /\ Kept!DropsOnlyTheLast
<1>1. Top!TopInit => Kept!TopInit
  BY DEF Top!TopInit, Kept!TopInit, Top!Boards, Kept!Boards, Top!SortedBoard, Kept!SortedBoard
<1>2. [Top!TopNext]_(Top!topvars) => [Kept!TopNext]_(Kept!topvars)
  <2>1. ASSUME NEW e \in Entries, Top!Register(e) PROVE Kept!Register(e)
    BY <2>1, Zenon DEF Top!Register, Kept!Register, Top!Best, Kept!Best
  <2>2. Top!BeginSave => Kept!BeginSave
    BY Zenon DEF Top!BeginSave, Kept!BeginSave
  <2>3. Top!EndSave => Kept!EndSave
    BY Zenon DEF Top!EndSave, Kept!EndSave
  <2>4. Top!Lose => Kept!Lose
    BY Zenon DEF Top!Lose, Kept!Lose
  <2>5. Top!Restore => Kept!Restore
    BY Zenon DEF Top!Restore, Kept!Restore
  <2>6. UNCHANGED Top!topvars => UNCHANGED Kept!topvars
    BY Zenon DEF Top!topvars, Kept!topvars
  <2> QED
    BY <2>1, <2>2, <2>3, <2>4, <2>5, <2>6, Zenon DEF Top!TopNext, Kept!TopNext
<1>3. Spec => Kept!TopSpec
  BY <1>1, <1>2, HighScoreImplementsTopScores, PTL
     DEF ImplementsTopScores, Top!TopSpec, Kept!TopSpec
<1>4. Kept!TopSpec => []Kept!TopSorted
  BY EntriesProper, Kept!BoardStaysSorted
<1>5. Kept!TopSpec => Kept!DropsOnlyTheLast
  BY EntriesProper, Kept!OnlyTheLastIsDropped
<1> QED
  BY <1>3, <1>4, <1>5, PTL
=============================================================================
