------------------------------ MODULE MCMotion ------------------------------
(* The motion client and simulator: three gauges to a poll, one absolute   *)
(* and one relative move.                                                  *)
EXTENDS MotionClient
MCGauges == <<"lrf", "pos", "cmer">>
MCMoves == {[kind |-> "abs", by |-> 3], [kind |-> "rel", by |-> -1]}
=============================================================================
