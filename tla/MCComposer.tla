----------------------------- MODULE MCComposer -----------------------------
(* The composer for TLC: the dashboard and one terminal.                   *)
EXTENDS Composer, TLC

MCCommands ==
  { [Command("up", "dev") EXCEPT !.detection = TRUE, !.mediamtx = TRUE],
    [Command("up", "prod") EXCEPT !.detached = FALSE, !.skip = TRUE],
    Command("release", "dev"), [Command("release", "dev") EXCEPT !.skip = TRUE] }

\* A started Detection Service has no identity but its process.
LaunchSymmetry == Permutations(Launches)

=============================================================================
