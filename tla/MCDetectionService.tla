-------------------------- MODULE MCDetectionService --------------------------
(* DetectionService on a small instance. *)
EXTENDS DetectionService
=============================================================================
