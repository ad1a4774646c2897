------------------------------ MODULE MCMpGame ------------------------------
(* Small instances of MpGame for TLC.                                      *)
EXTENDS MpGame
=============================================================================
