\* Listing the connected SSH clients fails while a rescue is locked.
CONSTANTS
  a = a
  b = b
  Sources = {a, b}
  Operators = {a}
  SshPort = 22
  DashboardPort = 4173
  StartRules <- Starts
  Baseline = {}
  MaxRequests = 2
  MaxTrouble = 2
SPECIFICATION Spec
PROPERTIES
  ActiveSshIsPreserved
\* The bounds end every request.
CHECK_DEADLOCK FALSE
