------------------------------ MODULE MCInput ------------------------------
(* A small instance of Input for TLC.                                      *)
EXTENDS Input
=============================================================================
