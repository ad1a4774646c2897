------------------------------- MODULE MCGame -------------------------------
(* Small instances of Game for TLC.                                        *)
EXTENDS Game, TLC

ColourSymmetry == Permutations(Colours)
=============================================================================
