--------------------------- MODULE MCSessionLive ---------------------------
(* Ids are alike. *)
EXTENDS SessionLive, TLC

Interchangeable == Permutations(Hole)
=============================================================================
