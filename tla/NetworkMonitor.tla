--------------------------- MODULE NetworkMonitor ---------------------------
(***************************************************************************)
(* The journal of SSH logins that the security view keeps: a scan asks     *)
(* journalctl for what was logged since the last scan, waits for it and    *)
(* for ss, and reconciles what it got with the stored state, which is      *)
(* replaced only if the write succeeds.  Time is in seconds.  What ss      *)
(* tells, the flags it leads to and the ageing of flags are left out.      *)
(***************************************************************************)
EXTENDS Naturals, FiniteSets

CONSTANTS
  Peers,       \* remote addresses
  Overlap,     \* overlapMs: how far before the last scan the journal is read again
  ScanTakes,   \* the longest that the commands of one scan take
  EventLimit,  \* MAX_SSH_EVENTS
  KnownLimit,  \* MAX_KNOWN_PEERS
  MaxEvents,   \* bound: logins, at most one a second
  MaxNow       \* bound: the time

Kinds == {"accepted", "failed"}

VARIABLES
  now,      \* the time
  journal,  \* what sshd has logged
  store,    \* networkMonitorStore and its file
  scan,     \* the scan in progress
  saw,      \* ghost: what was logged when the journal was read for the stored state
  trusted   \* ghost: the peers that logged in before the first scan
vars == <<now, journal, store, scan, saw, trusted>>

NoScan == [at |-> "rest", since |-> 0, bootstrap |-> FALSE, ends |-> 0, logged |-> {}]

---------------------------------------------------------------------------
(* reconcileNetworkMonitor                                                 *)

Newest(events, n) == {e \in events : Cardinality({f \in events : f.at > e.at}) < n}
By(events, kind, peer) == {e \in events : e.kind = kind /\ e.peer = peer}
Latest(events, otherwise) ==
  IF events = {} THEN otherwise ELSE CHOOSE t \in {e.at : e \in events} : \A e \in events : e.at <= t

\* updateKnownPeer for every login; 0 stands for a peer that is not known.
Accepts(known, events) == [p \in Peers |-> Latest(By(events, "accepted", p), known[p])]
KeptPeers(known) ==
  [p \in Peers |-> IF Cardinality({q \in Peers : known[q] > known[p]}) < KnownLimit THEN known[p] ELSE 0]

Events == {e \in scan.logged : e.at >= scan.since}

\* The events that are not stored yet.
Unseen(events) == events \ store.events

\* What the known peers are before the events of this scan are gone through.
KnownAtFirst == IF scan.bootstrap /\ scan.at = "read" THEN Accepts(store.known, Events) ELSE store.known

\* A login is from a new peer if the peer is not known and was not before, in this scan.
FromNewPeer(p, new) == By(new, "accepted", p) # {} /\ ~scan.bootstrap /\ KnownAtFirst[p] = 0

Reconciled ==
  LET new == Unseen(Events)
  IN  [last    |-> IF scan.at = "read" THEN now ELSE store.last,
       known   |-> KeptPeers(Accepts(KnownAtFirst, new)),
       events  |-> Newest(store.events \cup Events, EventLimit),
       newPeer |-> store.newPeer \cup {p \in Peers : FromNewPeer(p, new)},
       failed  |-> [p \in Peers |-> store.failed[p] + Cardinality(By(new, "failed", p))]]

---------------------------------------------------------------------------
(* monitorNetworkConnections                                               *)

\* Mistake: no overlap.
SinceLastScan == store.last

\* journalSinceArgument
Since == IF store.last < Overlap THEN 0 ELSE store.last - Overlap

ScanBegins ==
  /\ scan.at = "rest"
  /\ scan' = [at |-> "runs", since |-> Since, bootstrap |-> store.last = 0, ends |-> now + ScanTakes, logged |-> {}]
  /\ UNCHANGED <<now, journal, store, saw, trusted>>

\* journalctl looks while ss still runs.
ReadJournal ==
  /\ scan.at = "runs" /\ scan' = [scan EXCEPT !.at = "read", !.logged = journal]
  /\ UNCHANGED <<now, journal, store, saw, trusted>>

\* All commands have ended; journalctl has failed if it has not looked.
ScanSaved ==
  /\ scan.at # "rest"
  /\ store' = Reconciled /\ scan' = NoScan
  /\ saw' = IF scan.at = "read" THEN scan.logged ELSE saw
  /\ trusted' = IF scan.at = "read" /\ scan.bootstrap
                THEN {e.peer : e \in {f \in Events : f.kind = "accepted"}} ELSE trusted
  /\ UNCHANGED <<now, journal>>

\* The write fails, or the server is stopped during the scan.
ScanLost ==
  /\ scan.at # "rest" /\ scan' = NoScan /\ UNCHANGED <<now, journal, store, saw, trusted>>

---------------------------------------------------------------------------
(* The host.                                                               *)

Login(p, kind) ==
  /\ Cardinality(journal) < MaxEvents /\ \A e \in journal : e.at # now
  /\ journal' = journal \cup {[at |-> now, peer |-> p, kind |-> kind]}
  /\ UNCHANGED <<now, store, scan, saw, trusted>>
Tick ==
  /\ now < MaxNow /\ (scan.at # "rest" => now < scan.ends) /\ now' = now + 1
  /\ UNCHANGED <<journal, store, scan, saw, trusted>>

Init ==
  /\ now = 1 /\ journal = {} /\ scan = NoScan /\ saw = {} /\ trusted = {}
  /\ store = [last |-> 0, known |-> [p \in Peers |-> 0], events |-> {}, newPeer |-> {},
              failed |-> [p \in Peers |-> 0]]
Next ==
  \/ ScanBegins \/ ReadJournal \/ ScanSaved \/ ScanLost \/ Tick
  \/ \E p \in Peers, kind \in Kinds : Login(p, kind)
Spec == Init /\ [][Next]_vars

---------------------------------------------------------------------------
\* README: the monitor flags new peers.  Whoever logged in before the journal was last read, and
\* not already before the first scan, has been flagged, although scans fail, are lost and overlap.
NewPeersAreFlagged == \A e \in saw : e.kind = "accepted" => e.peer \in trusted \cup store.newPeer

\* test/network-monitor.test.js: the overlap is deduplicated.  Each failed login counts once.
FailuresCountOnce == \A p \in Peers : store.failed[p] = Cardinality(By(saw, "failed", p))

\* No login is missed, and none is taken twice.
LoginsAreSeenOnce == NewPeersAreFlagged /\ FailuresCountOnce
=============================================================================
