SPECIFICATION Spec
CONSTANTS
  Dashboard = dashboard
  Terminals = {terminal}
  Commands <- MCCommands
  Images = {questdb}
  Launches = {d1, d2}
  MaxAsked = 3
  Faults = {"tools", "compose", "publish", "images", "tar", "export", "problem", "terminal", "exit", "interrupt"}
INVARIANTS UpIsComplete FailedStartIsEnded ReleaseIsWhole
CHECK_DEADLOCK FALSE
SYMMETRY LaunchSymmetry
