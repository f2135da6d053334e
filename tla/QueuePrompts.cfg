\* A crash and failed writes; replaced panes; shared terminals; two lines; a full store.
CONSTANTS
  s1 = s1
  s2 = s2
  i1 = i1
  i2 = i2
  i3 = i3
  Sessions = {s1}
  Ids = {i1, i2}
  Kinds = {"prompt"}
  Events = {"quick"}
  MaxQueueItems = 3
  HistoryLimit = 1
  MaxPosition = 3
  MaxGen = 1
  MaxCrashes = 1
  MaxFaults = 1
  MaxInputs = 0
SPECIFICATION ScenesSpec
SYMMETRY Interchangeable
INVARIANTS
  AtMostOnce
  ClaimIsDurable
  StoresAreValid
  QueueIsSound
PROPERTIES
  ImplementsLines
  ReviewResolvedOnOwnPane
  
\* A quiet queue has nothing to do once the bounds are spent.
CHECK_DEADLOCK FALSE
