\* A slash command and a pane replaced while it is delivered.
CONSTANTS
  s1 = s1
  s2 = s2
  i1 = i1
  i2 = i2
  i3 = i3
  Sessions = {s1}
  Ids = {i1}
  Kinds = {"command"}
  MaxQueueItems = 2
  HistoryLimit = 1
  MaxPosition = 2
  Events = {"replace"}
  MaxGen = 2
  MaxCrashes = 0
  MaxFaults = 0
  MaxInputs = 0
SPECIFICATION Spec
INVARIANTS
  InputReachesBoundPane
\* A quiet queue has nothing to do once the bounds are spent.
CHECK_DEADLOCK FALSE
