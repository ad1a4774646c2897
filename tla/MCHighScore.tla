---------------------------- MODULE MCHighScore ----------------------------
(* A small instance of HighScore for TLC.                                  *)
EXTENDS HighScore

\* The file as it comes with the program, two equal scores at the end, and one
\* with a single result and zeros after it.
MCFirstFiles ==
  {[i \in 1..SIZE |-> [name |-> <<"a">>, score |-> IF i = 1 THEN 2 ELSE 1]],
   [i \in 1..SIZE |-> [name |-> <<"b">>, score |-> IF i = 1 THEN 1 ELSE 0]]}
=============================================================================
