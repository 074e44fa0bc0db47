--------------------------- MODULE MCBulletHoles ---------------------------
(* Threads, ids and keys are alike. *)
EXTENDS BulletHoles, TLC

Interchangeable == Permutations(Thread) \cup Permutations(Hole) \cup Permutations(Key)
=============================================================================
