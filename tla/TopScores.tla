----------------------------- MODULE TopScores -----------------------------
(***************************************************************************)
(* What the leaderboard promises: the SIZE best results, in order, an       *)
(* earlier result before a later one of the same score, kept from one run  *)
(* of the program to the next unless a save was cut short.                  *)
(***************************************************************************)
EXTENDS Integers, Sequences

CONSTANTS
  SIZE,      \* places on the board, at least one
  Entries,   \* the results there may be: records with a natural number as score
  Nothing    \* what is kept while a save is under way or was cut short

VARIABLES
  running,   \* the program runs
  board,     \* the board, while it runs
  kept       \* what a later run will find

topvars == <<running, board, kept>>

Boards == [1..SIZE -> Entries]

\* No result stands above a better one.
SortedBoard(b) == \A i, j \in 1..SIZE : i < j => b[i].score >= b[j].score

\* The board with the result e on it: behind all that are at least as good,
\* the last one gone.
Best(b, e) ==
  [i \in 1..SIZE |->
     IF b[i].score >= e.score THEN b[i]
     ELSE IF i = 1 \/ b[i - 1].score >= e.score THEN e
     ELSE b[i - 1]]

TopInit ==
  /\ running = FALSE
  /\ kept \in Boards /\ SortedBoard(kept)
  /\ board = kept

\* A result good enough for the board is registered.
Register(e) ==
  /\ running
  /\ e.score > board[SIZE].score
  /\ board' = Best(board, e)
  /\ UNCHANGED <<running, kept>>

BeginSave ==
  /\ running
  /\ kept' = Nothing
  /\ UNCHANGED <<running, board>>

EndSave ==
  /\ running
  /\ running' = FALSE
  /\ kept' = board
  /\ UNCHANGED board

\* The program is gone without a save, or in the middle of one.
Lose ==
  /\ running
  /\ running' = FALSE
  /\ UNCHANGED <<board, kept>>

Restore ==
  /\ ~running
  /\ kept # Nothing
  /\ running' = TRUE
  /\ board' = kept
  /\ UNCHANGED kept

TopNext ==
  \/ \E e \in Entries : Register(e)
  \/ BeginSave
  \/ EndSave
  \/ Lose
  \/ Restore

TopSpec == TopInit /\ [][TopNext]_topvars

TopTypeOK ==
  /\ running \in BOOLEAN
  /\ board \in Boards
  /\ kept \in Boards \cup {Nothing}

\* The board on screen, and the one the next run will read, are in order.
TopSorted == SortedBoard(board) /\ (kept # Nothing => SortedBoard(kept))

\* However often a run registers results, the only one a new result throws out
\* is the last: what stood higher is on the board still, at most one lower.
DropsOnlyTheLast ==
  [][running /\ running' =>
       \A i \in 1..(SIZE - 1) : board'[i] = board[i] \/ board'[i + 1] = board[i]]_topvars
=============================================================================
