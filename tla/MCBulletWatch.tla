--------------------------- MODULE MCBulletWatch ---------------------------
(* BulletWatch on a small instance: one place, three Looks to a window. *)
EXTENDS BulletWatch
=============================================================================
