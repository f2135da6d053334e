\* Manual input races the queue through a crash or a failed write: answers are linked, a queued prompt is taken up, and a delivered one stops blocking its line.
CONSTANTS
  s1 = s1
  s2 = s2
  i1 = i1
  i2 = i2
  i3 = i3
  Sessions = {s1}
  Ids = {i1}
  Kinds = {"prompt", "goal"}
  MaxQueueItems = 2
  HistoryLimit = 1
  MaxPosition = 2
  Events = {"day", "send", "interrupt"}
  MaxGen = 1
  MaxCrashes = 1
  MaxFaults = 1
  MaxInputs = 1
SPECIFICATION AnswersSpec
INVARIANTS
  TypeOK
  ReservationsHaveOwners
PROPERTIES
  ImplementsLine
  AwaitingEnds
  QueuedIsTakenUp
\* A quiet queue has nothing to do once the bounds are spent.
CHECK_DEADLOCK FALSE
