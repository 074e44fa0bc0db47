----------------------------- MODULE MCScoring -----------------------------
(* Scoring on a small instance: lists of two marks among three positions,  *)
(* the last of them off the sheets, a truth placed as it is or one off,    *)
(* and half a second of 30 frames.                                         *)
EXTENDS Scoring
MCPosition == 0..2
MCOffset == {-1, 0, 1}
=============================================================================
