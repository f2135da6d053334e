\* Two writes of a file, a cache, the network monitor, usage, audit log, samples and sessions,
\* with faults, failed calls and restarts.
CONSTANTS
  Writes = {w1, w2}
  MaxFaults = 2
  Keys = {"k1", "k2"}
  Callers = {"c1", "c2"}
  TTL = 1
  CachedKeys = 1
  MaxLoads = 2
  MaxCacheTime = 2
  Peers = {"p1", "p2"}
  Overlap = 2
  ScanTakes = 2
  EventLimit = 3
  KnownLimit = 1
  MaxLogins = 3
  MaxNetworkTime = 5
  MaxBytes = 0
  ArchiveLimit = 2
  Retention = 2
  Pause = 2
  MaxEntries = 4
  MaxAuditTime = 5
  MaxAuditTrouble = 2
  Snapshots = {"q1", "q2"}
  MaxChanges = 3
  MaxSamplesTrouble = 2
  Agents = {"a1"}
  Scouts = {"c1"}
  Services = {"d1"}
  Tasks = {"t1"}
  Requests = {r1, r2}
  Labels = {"l1"}
  MaxScouts = 1
  MaxBorn = 2
  MaxSessionsTrouble = 1
SPECIFICATION ServerSpec
SYMMETRY Interchangeable
INVARIANTS
  CacheIsSound
  
  
  AuditIsKept
  NothingIsForgotten
  OldIsGone
PROPERTIES
  NewIsUnnamed
  ImplementsAtomicFile
\* The bounds end every part.
CHECK_DEADLOCK FALSE
