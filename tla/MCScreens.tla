----------------------------- MODULE MCScreens -----------------------------
(* Small instances of Screens for TLC.                                     *)
EXTENDS Screens, TLC

\* Two digits, one of them zero.
MCDigit == ("0" :> 0) @@ ("7" :> 7)
=============================================================================
