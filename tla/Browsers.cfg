\* Two browsers share the collections of one server and refresh; one page has a terminal
\* window, a project desk and notices.
CONSTANTS
  Browsers = {b1, b2}
  Conns = {c1, c2}
  Keys = {k1, k2}
  MaxSequence = 3
  MaxNow = 2
  MaxInbox = 2
  MaxBroadcasts = 1
  MaxRefreshes = 1
  MaxFailures = 0
  Windows = {"w1"}
  WindowPanes = {"p1", "p2"}
  WindowTexts = {"t1"}
  Reselects = FALSE
  MaxToken = 3
  DeskPanes = {"p", "q"}
  Workspace <- Path
  Project <- Repository
  DeskTexts = {"x"}
  StartNotes <- OldNotes
  MaxEdits = 2
  MaxTrouble = 1
  Missions = {"m1", "m2"}
  EventLimit = 2
  StateLimit = 2
  OutboxLimit = 2
  MaxEvents = 3
  MaxNoticeTime = 2
SPECIFICATION BrowsersSpec
SYMMETRY Symmetric
INVARIANTS
  StreamIsSound
  RefreshIsNewer
  
  DeskIsOwn
  
PROPERTIES
  SentAsReviewed
\* The stream may rest once the bounds are spent.
CHECK_DEADLOCK FALSE
