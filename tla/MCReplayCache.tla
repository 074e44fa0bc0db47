--------------------------- MODULE MCReplayCache ---------------------------
(* One Session recorded every part. *)
EXTENDS ReplayCache

CONSTANT s1

OwnerOfParts == [p \in Part |-> s1]

(* A restart at any moment; downloads longer than a mark lasts. *)
FaultScenarios == {{"crash"}, {"crash", "slow"}}
=============================================================================
