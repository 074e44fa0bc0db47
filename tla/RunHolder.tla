------------------------------ MODULE RunHolder ------------------------------
(***************************************************************************)
(* What the Detection Service promises of its one Run, as GET /status      *)
(* reports it: at any moment no Run, or one Session's Run that is          *)
(* starting, watching or ending.  A Run belongs to one Session from its    *)
(* start to its end, never goes back to an earlier state, and the place is *)
(* free again before another Session gets it.                              *)
(*                                                                         *)
(* DetectionService implements this specification; DetectionSync, the      *)
(* backend's side, uses its actions as the service it talks to.            *)
(***************************************************************************)
CONSTANT Session   \* the Sessions of the WebApp

VARIABLE held      \* the Run as /status reports it

(* No Run: the service holds the detector and watches nothing. *)
Free == [session |-> "none", state |-> "free"]

RunState == {"starting", "watching", "ending"}

HeldRun == [session : Session, state : RunState]

TypeOK == held \in HeldRun \cup {Free}

Holds(s) == held \in HeldRun /\ held.session = s

-----------------------------------------------------------------------------
Init == held = Free

(* A start finds the place free and takes it. *)
Take(s) ==
    /\ held = Free
    /\ held' = [session |-> s, state |-> "starting"]

(* The baseline is built. *)
Watch ==
    /\ held.state = "starting"
    /\ held' = [held EXCEPT !.state = "watching"]

(* An end, or a start that gave up, begins to end the Run. *)
BeginEnd ==
    /\ held.state \in {"starting", "watching"}
    /\ held' = [held EXCEPT !.state = "ending"]

(* The Run is over: ended, failed, or its Stream gave out. *)
Leave ==
    /\ held # Free
    /\ held' = Free

Next == (\E s \in Session : Take(s)) \/ Watch \/ BeginEnd \/ Leave

Spec == Init /\ [][Next]_held
=============================================================================
