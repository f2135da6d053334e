\* Two missions, two workers whose panes may be replaced, a restart and a failed write;
\* and one mission under its supervisor.
CONSTANTS
  j1 = j1
  j2 = j2
  s1 = s1
  s2 = s2
  w1 = w1
  w2 = w2
  Jobs = {j1, j2}
  Sessions = {s1, s2}
  Workspaces = {w1, w2}
  Weight <- Priorities
  MaxActive = 2
  MaxAttempts = 2
  MaxGen = 2
  MaxCrashes = 1
  MaxFaults = 1
  SupervisedAttempts = 3
  SupervisedPanes = 2
SPECIFICATION MissionsSpec
SYMMETRY HostSymmetry
INVARIANTS
  MissionsAreSound
  NeverResent
  DispatchIsSafe
PROPERTIES
  ReportIsOwn
\* When the bounds are spent an ended line may rest.
CHECK_DEADLOCK FALSE
