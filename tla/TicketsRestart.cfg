\* A restart while an idea's ticket has completed without its footer.
CONSTANTS
  Sessions = {s1, s2}
  Titles = {t1}
  Schedules = {k1}
  ItemLimit = 3
  IdeaLimit = 2
  HistoryLimit = 1
  Captures = {"captured", "bare", "returned"}
  Minute = 1
  SlowRequests = FALSE
  MaxItems = 2
  MaxIdeas = 1
  MaxNow = 3
  MaxRestarts = 1
SPECIFICATION Spec
INVARIANTS
  StartsAgain
\* The bounds end every request.
CHECK_DEADLOCK FALSE
