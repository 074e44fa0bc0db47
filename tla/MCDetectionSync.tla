--------------------------- MODULE MCDetectionSync ---------------------------
(* DetectionSync on small instances. *)
EXTENDS DetectionSync

(* Calls and processes that fail, requests that fail, and a Session whose  *)
(* camera is switched off or taken away.                                   *)
FaultScenarios ==
    {{"complete", "reopen", "late", "restart"},
     {"complete", "stop", "restart"},
     {"complete", "create", "block"},
     {"complete", "block", "blind"},
     {"delete", "cameraDeleted"},
     {"cameraDisabled", "cameraDeleted"}}
=============================================================================
