\* Two rollouts and room for the place in one of them.
CONSTANTS
  s1 = s1
  t1 = t1
  Sources = {f1, f2}
  Sessions = {s1}
  Tickets = {t1}
  Recorders = {r1}
  SentTo <- SentToTheSession
  MaxCursors = 1
  MaxNow = 5
  MaxTotal = 1
  MaxSamples = 1
  MaxTrouble = 0
SPECIFICATION Spec
INVARIANTS
  NoneTwice
\* The bounds end every behaviour.
CHECK_DEADLOCK FALSE
