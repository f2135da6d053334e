------------------------------- MODULE AuditLog -------------------------------
(****************************************************************************)
(* The audit log (appendAudit, maintainAuditLogs and runtime-retention.js): *)
(* one operation at a time appends an entry, and before that, now and then, *)
(* turns a log that is too long into an archive and removes archives that   *)
(* are too old or too many.                                                 *)
(*                                                                          *)
(* Entries are numbered as they are asked for.                              *)
(****************************************************************************)
EXTENDS Naturals, Sequences, FiniteSets, Functions, SequencesExt

CONSTANTS
  MaxBytes,     \* AUDIT_MAX_BYTES, in entries
  ArchiveLimit, \* AUDIT_ARCHIVE_LIMIT
  Retention,    \* AUDIT_RETENTION_MS
  Pause,        \* AUDIT_MAINTENANCE_MS
  MaxEntries,   \* bound: entries
  MaxNow,       \* bound: time
  MaxTrouble    \* bound: calls of the file system that fail, restarts

VARIABLES
  now,
  log,       \* the entries in actions.jsonl
  archives,  \* the archives: the entries of each and when it was last written
  maintained, \* auditLastMaintenanceAtMs
  changed,   \* when the log was last written
  asked,     \* entries asked for
  queue,     \* auditOperationQueue: the operations to come
  op,        \* the operation that runs
  written,   \* the entries of which appendAudit said that they are written
  expired,   \* ghost: the entries of archives that were rightly removed
  trouble

vars == <<now, log, archives, maintained, changed, asked, queue, op, written, expired, trouble>>

---------------------------------------------------------------------------
Idle    == [at |-> "idle", entry |-> 0, begun |-> 0, old |-> {}]
Startup == [at |-> "maintain", entry |-> 0, begun |-> 0, old |-> {}]

Init ==
  /\ now = 1 /\ maintained = 0 /\ changed = 0 /\ asked = 0 /\ trouble = 0
  /\ log = <<>> /\ archives = [n \in {} |-> 0] /\ queue = <<>>
  /\ op = Startup /\ written = {} /\ expired = {}

Tick ==
  /\ now < MaxNow /\ now' = now + 1
  /\ UNCHANGED <<log, archives, maintained, changed, asked, queue, op, written, expired, trouble>>

Trouble == trouble < MaxTrouble /\ trouble' = trouble + 1

\* appendAudit, enqueueAuditOperation.
Ask ==
  /\ asked < MaxEntries
  /\ asked' = asked + 1
  /\ queue' = Append(queue, asked + 1)
  /\ UNCHANGED <<now, log, archives, maintained, changed, op, written, expired, trouble>>

Begin ==
  /\ op.at = "idle" /\ queue # <<>>
  /\ queue' = Tail(queue)
  /\ op' = [Idle EXCEPT !.at = "maintain", !.entry = Head(queue)]
  /\ UNCHANGED <<now, log, archives, maintained, changed, asked, written, expired, trouble>>

\* After the maintenance, if it failed too, the entry is written.
Maintained == IF op.entry = 0 THEN op' = Idle ELSE op' = [Idle EXCEPT !.at = "append", !.entry = op.entry]

TooSoon == op.entry # 0 /\ now - maintained < Pause /\ maintained > 0

NotYet ==
  /\ op.at = "maintain" /\ TooSoon
  /\ Maintained
  /\ UNCHANGED <<now, log, archives, maintained, changed, asked, queue, written, expired, trouble>>

\* Mistake: the time alone is the name.
SameName(n) == n = now

\* nextAvailableArchivePath: the first name that is free.
FreeName(n) == n >= now /\ n \notin DOMAIN archives /\ \A k \in now .. n - 1 : k \in DOMAIN archives

\* maintainAuditLogsUnlocked: a log that is too long becomes an archive.
Rotate ==
  /\ op.at = "maintain" /\ ~TooSoon
  /\ op' = [op EXCEPT !.at = "list", !.begun = now]
  /\ IF Len(log) > MaxBytes
     THEN \E n \in now .. MaxNow + MaxEntries :
            /\ FreeName(n)
            /\ archives' = [k \in DOMAIN archives \cup {n} |->
                              IF k = n THEN [entries |-> ToSet(log), changed |-> changed] ELSE archives[k]]
            /\ log' = <<>>
     ELSE UNCHANGED <<archives, log>>
  /\ UNCHANGED <<now, maintained, changed, asked, queue, written, expired, trouble>>

Age(n) == IF n > archives[n].changed THEN n ELSE archives[n].changed

Newer(n, k) == Age(k) > Age(n) \/ (Age(k) = Age(n) /\ k < n)

\* auditArchivesToRemove.
TooMany(n) == Cardinality({k \in DOMAIN archives : Newer(n, k)}) >= ArchiveLimit
TooOld(n)  == Age(n) + Retention < op.begun

List ==
  /\ op.at = "list"
  /\ op' = [op EXCEPT !.at = "remove", !.old = {n \in DOMAIN archives : TooMany(n) \/ TooOld(n)}]
  /\ UNCHANGED <<now, log, archives, maintained, changed, asked, queue, written, expired, trouble>>

\* What may go: what is past the retention, or older than as many as are kept.
Goes(n) == \/ n + Retention < now
           \/ Cardinality({k \in DOMAIN archives : k > n}) >= ArchiveLimit

\* The newest of them first.
Unlink ==
  /\ op.at = "remove" /\ op.old # {}
  /\ \E n \in op.old :
       /\ \A k \in op.old : k # n => Newer(k, n)
       /\ archives' = Restrict(archives, DOMAIN archives \ {n})
       /\ expired' = IF Goes(n) THEN expired \cup archives[n].entries ELSE expired
       /\ op' = [op EXCEPT !.old = @ \ {n}]
  /\ UNCHANGED <<now, log, maintained, changed, asked, queue, written, trouble>>

Removed ==
  /\ op.at = "remove" /\ op.old = {}
  /\ Maintained
  /\ maintained' = op.begun
  /\ UNCHANGED <<now, log, archives, changed, asked, queue, written, expired, trouble>>

\* Retention is best effort.
MaintenanceFails ==
  /\ op.at \in {"maintain", "list", "remove"}
  /\ Trouble
  /\ Maintained
  /\ UNCHANGED <<now, log, archives, maintained, changed, asked, queue, written, expired>>

Write ==
  /\ op.at = "append"
  /\ log' = Append(log, op.entry)
  /\ changed' = now
  /\ written' = written \cup {op.entry}
  /\ op' = Idle
  /\ UNCHANGED <<now, archives, maintained, asked, queue, expired, trouble>>

WriteFails ==
  /\ op.at = "append"
  /\ Trouble
  /\ op' = Idle
  /\ UNCHANGED <<now, log, archives, maintained, changed, asked, queue, written, expired>>

Restart ==
  /\ Trouble
  /\ op' = Startup /\ queue' = <<>> /\ maintained' = 0
  /\ UNCHANGED <<now, log, archives, changed, asked, written, expired>>

---------------------------------------------------------------------------
Next ==
  \/ Tick \/ Ask \/ Begin \/ NotYet \/ Rotate \/ List \/ Unlink \/ Removed
  \/ MaintenanceFails \/ Write \/ WriteFails \/ Restart

Spec == Init /\ [][Next]_vars

---------------------------------------------------------------------------
Archived == UNION {archives[n].entries : n \in DOMAIN archives}

\* What appendAudit said is written can be found in the log or an archive until
\* its archive is past the retention or older than as many as are kept, and the
\* log is in order and newer than every archive: an archive never takes the place
\* of another, whatever failed and however often PaneFleet starts in one moment.
AuditIsKept ==
  /\ written \subseteq ToSet(log) \cup Archived \cup expired
  /\ \A i, k \in DOMAIN log : i < k => log[i] < log[k]
  /\ \A e \in Archived \cup expired : \A i \in DOMAIN log : e < log[i]

=============================================================================
