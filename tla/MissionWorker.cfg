\* The prompt queue and the adoption of its idle worker.
CONSTANTS
  j1 = j1
  j2 = j2
  s1 = s1
  s2 = s2
  w1 = w1
  w2 = w2
  Jobs = {j1}
  Sessions = {s1}
  Workspaces = {w1}
  Weight <- Priorities
  MaxActive = 2
  MaxAttempts = 2
  MaxGen = 1
  MaxCrashes = 0
  MaxFaults = 0
SPECIFICATION Spec
INVARIANTS
  WorkerIsLocked
\* When the bounds are spent an ended line may rest.
CHECK_DEADLOCK FALSE
