------------------------------ MODULE TextBox ------------------------------
(***************************************************************************)
(* The centred text boxes of proj/vc.c, in which a number of rounds and a  *)
(* name are typed.  A character is added at the right and the whole text   *)
(* moves half a character to the left.                                     *)
(*                                                                         *)
(* Abstracted: the images, all of one width, to the keys they stand for;   *)
(* the drawing of the text, from xi on.                                    *)
(***************************************************************************)
EXTENDS Integers, Sequences

CONSTANT WIDTH   \* of a letter or a digit: 42

ASSUME WidthAssumption == WIDTH \in 2..65535

MIN_X == 0
MAX_X == 65535   \* -1 as a uint16_t

\* create_writeable_text_box
Create_text_box(x, max_size) ==
  [char_prop |-> << >>, char_max_size |-> max_size, cursor_x |-> x, xi |-> x]

\* What add_to_centered_text_box asks first.  It subtracts width + 1 / 2, which
\* is the width, where (width + 1) / 2 is meant.
Takes(box) ==
  /\ Len(box.char_prop) # box.char_max_size
  /\ box.cursor_x + (WIDTH \div 2) <= MAX_X
  /\ box.xi - WIDTH >= MIN_X

\* add_to_centered_text_box
Add(box, byte) ==
  IF Takes(box)
  THEN [char_prop |-> Append(box.char_prop, byte), char_max_size |-> box.char_max_size,
        cursor_x |-> box.cursor_x + (WIDTH \div 2), xi |-> box.xi - ((WIDTH + 1) \div 2)]
  ELSE box

\* Mutant: the text does not move back.
Remove_keepsLeft(box) ==
  IF box.char_prop = << >> THEN box
  ELSE [box EXCEPT !.char_prop = SubSeq(@, 1, Len(@) - 1), !.cursor_x = @ - (WIDTH \div 2)]

\* remove_from_centered_text_box
Remove(box) ==
  IF box.char_prop = << >> THEN box
  ELSE [char_prop |-> SubSeq(box.char_prop, 1, Len(box.char_prop) - 1),
        char_max_size |-> box.char_max_size,
        cursor_x |-> box.cursor_x - (WIDTH \div 2), xi |-> box.xi + ((WIDTH + 1) \div 2)]

-----------------------------------------------------------------------------

\* A text that began at x lies around x: what is drawn from xi on ends at the
\* cursor, and neither coordinate has left its 16 bits.
Centred(box, x) ==
  LET n == Len(box.char_prop) IN
  /\ n <= box.char_max_size
  /\ box.cursor_x = x + n * (WIDTH \div 2) /\ box.cursor_x <= MAX_X
  /\ box.xi = x - n * ((WIDTH + 1) \div 2) /\ box.xi >= MIN_X
=============================================================================
