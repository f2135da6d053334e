\* One browser: failed collections, broken connections, restarts; it catches up.  One
\* rescue, with a request and a failure; it is closed after it expired.
CONSTANTS
  Browsers = {b1}
  Conns = {c1, c2}
  Keys = {k1, k2}
  Kept = k2
  MaxSequence = 3
  MaxNow = 2
  MaxInbox = 2
  MaxBroadcasts = 1
  MaxRefreshes = 0
  MaxFailures = 1
SPECIFICATION RecoverySpec
PROPERTIES
  CatchesUp
  ExpiryCloses
\* The stream may rest once the bounds are spent.
CHECK_DEADLOCK FALSE
