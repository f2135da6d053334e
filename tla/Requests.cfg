\* Two operators' requests about firewall rules, ideas and schedules that become tickets, cron
\* expressions, and input for one terminal whose pane is replaced.
CONSTANTS
  Sources = {"a", "b"}
  Operators = {"a"}
  SshPort = 22
  DashboardPort = 4173
  StartRules <- FirstRules
  Baseline = {}
  MaxAccessRequests = 2
  MaxAccessTrouble = 1
  Sessions = {s1, s2}
  Titles = {"t1"}
  Schedules = {"k1"}
  ItemLimit = 3
  IdeaLimit = 2
  HistoryLimit = 1
  Captures = {"captured", "returned"}
  Minute = 1
  SlowRequests = FALSE
  MaxItems = 2
  MaxIdeas = 1
  MaxNow = 2
  MaxRestarts = 1
  Crons <- RareCrons
  Starts <- RareStarts
  Inputs = {i1, i2, i3}
  Kinds = {"send", "marked", "picker", "resume"}
  MaxPane = 2
SPECIFICATION Spec
SYMMETRY Interchangeable
INVARIANTS
  RescueIsClosed
  
  
  AcceptedIsFound
  InputIsOwn
PROPERTIES
  NobodyIsLockedOut
  RevokesAsShown
  ApprovedAsSeen
\* The bounds end every part.
CHECK_DEADLOCK FALSE
