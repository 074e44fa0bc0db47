---------------------------- MODULE MCPublisher ----------------------------
(* Publisher on a small instance. *)
EXTENDS Publisher
=============================================================================
