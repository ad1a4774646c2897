---------------------------- MODULE MCPlayScreen ----------------------------
(* The play screen with the measures of consts.h, for TLC.                 *)
EXTENDS PlayScreen, TLC

At(b, x, y) == b :> [x |-> x, y |-> y]
MCCentre ==
  At("GREEN_B", 218, 218) @@ At("BLUE_B", 507, 413) @@ At("PURPLE_B", 293, 413) @@
  At("YELLOW_B", 583, 225) @@ At("RED_B", 400, 92) @@ At("VS_B", 400, 260)

\* 0, 255 and -255
MCMoves == {<<0, FALSE>>, <<255, FALSE>>, <<1, TRUE>>}
=============================================================================
