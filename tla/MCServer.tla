------------------------------- MODULE MCServer -------------------------------
(* Small instances of what the server keeps: files, observations, histories, *)
(* logs and sessions, which share nothing but the process.  A behaviour      *)
(* belongs to one of them, and the others rest at their first states.        *)
EXTENDS DurableJson, TLC

CONSTANTS
  Keys, Callers, TTL, CachedKeys, MaxLoads, MaxCacheTime,                              \* ObservationCache
  Peers, Overlap, ScanTakes, EventLimit, KnownLimit, MaxLogins, MaxNetworkTime,        \* NetworkMonitor
  MaxBytes, ArchiveLimit, Retention, Pause, MaxEntries, MaxAuditTime, MaxAuditTrouble, \* AuditLog
  Snapshots, MaxChanges, MaxSamplesTrouble,                                            \* Histories
  Agents, Scouts, Services, Tasks, Requests, Labels, MaxScouts, MaxBorn,
  MaxSessionsTrouble                                                                   \* Sessions

\* Limits, times and bounds are numbers.
ASSUME CacheBounds == /\ Keys # {} /\ TTL \in Nat /\ CachedKeys \in Nat
                      /\ MaxLoads \in Nat /\ MaxCacheTime \in Nat
ASSUME NetworkBounds == /\ Overlap \in Nat /\ ScanTakes \in Nat /\ EventLimit \in Nat /\ KnownLimit \in Nat
                        /\ MaxLogins \in Nat /\ MaxNetworkTime \in Nat
ASSUME AuditBounds == /\ MaxBytes \in Nat /\ ArchiveLimit \in Nat /\ Retention \in Nat /\ Pause \in Nat
                      /\ MaxEntries \in Nat /\ MaxAuditTime \in Nat /\ MaxAuditTrouble \in Nat
ASSUME SamplesBounds == MaxChanges \in Nat /\ MaxSamplesTrouble \in Nat
ASSUME SessionsBounds == MaxBorn \in Nat /\ MaxScouts \in Nat /\ MaxSessionsTrouble \in Nat

VARIABLES
  which,
  cacheNow, entries, loads, dropped, caller,                                 \* ObservationCache
  peersNow, journal, network, scan, saw, trusted,                            \* NetworkMonitor
  usageNow, rollouts, prompts, usage, usageFile, recording, usageTrouble,    \* CodexUsage
  auditNow, auditLog, archives, maintained, changed, asked, auditQueue, auditOp,
  written, aged, auditTrouble,                                               \* AuditLog
  samples, dirty, due, timer, writing, recorded, left, stopping,
  talks, again, saving, missed, samplesTrouble,                              \* Histories
  live, pane, born, names, namesFile, request, gone, sessionsTrouble         \* Sessions

cacheVars    == <<cacheNow, entries, loads, dropped, caller>>
networkVars  == <<peersNow, journal, network, scan, saw, trusted>>
usageVars    == <<usageNow, rollouts, prompts, usage, usageFile, recording, usageTrouble>>
auditVars    == <<auditNow, auditLog, archives, maintained, changed, asked, auditQueue, auditOp,
                  written, aged, auditTrouble>>
samplesVars  == <<samples, dirty, due, timer, writing, recorded, left, stopping,
                  talks, again, saving, missed, samplesTrouble>>
sessionsVars == <<live, pane, born, names, namesFile, request, gone, sessionsTrouble>>

---------------------------------------------------------------------------
Cache == INSTANCE ObservationCache WITH
  now <- cacheNow, MaxEntries <- CachedKeys, MaxNow <- MaxCacheTime

Network == INSTANCE NetworkMonitor WITH
  now <- peersNow, store <- network, MaxEvents <- MaxLogins, MaxNow <- MaxNetworkTime

Usage == INSTANCE CodexUsage WITH
  now <- usageNow, log <- rollouts, items <- prompts, store <- usage, disk <- usageFile,
  job <- recording, trouble <- usageTrouble,
  Sources <- {"f1", "f2"}, Sessions <- {"s1"}, Tickets <- {"t1"}, Recorders <- {"r1"},
  SentTo <- [t \in {"t1"} |-> "s1"], MaxCursors <- 2, MaxNow <- 4, MaxTotal <- 1,
  MaxSamples <- 2, MaxTrouble <- 1

Audit == INSTANCE AuditLog WITH
  now <- auditNow, log <- auditLog, queue <- auditQueue, op <- auditOp, expired <- aged,
  trouble <- auditTrouble, MaxNow <- MaxAuditTime, MaxTrouble <- MaxAuditTrouble

Samples == INSTANCE Histories WITH
  seen <- recorded, trouble <- samplesTrouble, MaxTrouble <- MaxSamplesTrouble

Terminals == INSTANCE Sessions WITH
  file <- namesFile, job <- request, trouble <- sessionsTrouble, MaxTrouble <- MaxSessionsTrouble

---------------------------------------------------------------------------
ServerInit ==
  /\ which \in {"writes", "cache", "network", "usage", "audit", "samples", "terminals"}
  /\ Init /\ Cache!Init /\ Network!Init /\ Usage!Init /\ Audit!Init /\ Samples!Init
  /\ Terminals!Init

ServerNext ==
  /\ UNCHANGED which
  /\ IF which = "writes"    THEN Next           ELSE UNCHANGED vars
  /\ IF which = "cache"     THEN Cache!Next     ELSE UNCHANGED cacheVars
  /\ IF which = "network"   THEN Network!Next   ELSE UNCHANGED networkVars
  /\ IF which = "usage"     THEN Usage!Next     ELSE UNCHANGED usageVars
  /\ IF which = "audit"     THEN Audit!Next     ELSE UNCHANGED auditVars
  /\ IF which = "samples"   THEN Samples!Next   ELSE UNCHANGED samplesVars
  /\ IF which = "terminals" THEN Terminals!Next ELSE UNCHANGED sessionsVars

ServerSpec ==
  ServerInit /\ [][ServerNext]_<<which, vars, cacheVars, networkVars, usageVars, auditVars, samplesVars,
                                 sessionsVars>>

Interchangeable == Permutations(Writes) \cup Permutations(Requests)

---------------------------------------------------------------------------
(* The properties of the instances; DurableJson has its own.               *)

\* ObservationCache: answers are recent, loads shared, failures forgotten, newer loads kept.
CacheIsSound == Cache!CacheIsSound

\* NetworkMonitor: a failed login counts once, a login of an unknown peer is flagged.
LoginsAreSeenOnce == Network!LoginsAreSeenOnce

\* CodexUsage: tokens are counted once, through failures and restarts.
CountedOnce == Usage!CountedOnce

\* AuditLog: what was written is in the log or in an archive, once.
AuditIsKept == Audit!AuditIsKept

\* Histories: what changed is written, or its write is still to come.
NothingIsForgotten == Samples!NothingIsForgotten

\* Sessions: a service that was restarted does not run as before.
OldIsGone == Terminals!OldIsGone

\* Sessions: a new session has no label of an old one.
NewIsUnnamed == Terminals!NewIsUnnamed
=============================================================================
