------------------------------ MODULE MCRecovery ------------------------------
(* What the server must get done in the end: SnapshotStream with one browser, *)
(* and AccessRules with one request.  A behaviour belongs to one of the two,  *)
(* and there is nothing to do in the other.                                   *)
EXTENDS SnapshotStream, TLC

CONSTANT Kept \* the domain of the host that stays as it is; the domains are interchangeable

VARIABLES
  which,
  rules, ids, peers, active, file, expired, chain, run, monitor, planned, previews, accessSpent
accessVars == <<rules, ids, peers, active, file, expired, chain, run, monitor, planned, previews, accessSpent>>

Rule(i, p, c, o) == [id |-> i, port |-> p, source |-> c, owner |-> o]
Rescued  == {Rule(1, 22, "0.0.0.0/0", "rescue"), Rule(4, 22, "b", "managed")}
NoRescue == {}

Access == INSTANCE AccessRules WITH
  spent <- accessSpent,
  Sources <- {"a", "b"}, Operators <- {"a"}, SshPort <- 22, DashboardPort <- 4173,
  StartRules <- {Rescued, NoRescue}, Baseline <- {}, MaxRequests <- 1, MaxTrouble <- 1

\* No page is open, on a host where there is nothing.
NoPage ==
  /\ now = 1 /\ world = Empty
  /\ state = {} /\ cached = {} /\ pending = {} /\ timer = FALSE /\ callers = <<>>
  /\ clients = {} /\ unsent = 0
  /\ inbox = [c \in Conns |-> <<>>] /\ cut = {}
  /\ conn = [b \in Browsers |-> NoConn]
  /\ view = [b \in Browsers |-> Empty] /\ shown = [b \in Browsers |-> Empty]
  /\ seq = [b \in Browsers |-> 0] /\ asof = [b \in Browsers |-> 0]
  /\ request = [b \in Browsers |-> {}] /\ retrying = {} /\ polling = {}
  /\ spent = [refreshes |-> 0, failures |-> 0]

RecoveryInit ==
  /\ Access!Init
  /\ \/ which = "stream" /\ Init /\ rules = NoRescue
     \/ which = "access" /\ NoPage /\ rules # NoRescue

RecoveryNext ==
  /\ UNCHANGED which
  /\ IF which = "stream" THEN Next /\ world'[Kept] = world[Kept] ELSE UNCHANGED vars
  /\ IF which = "access" THEN Access!Next ELSE UNCHANGED accessVars

RecoverySpec ==
  /\ RecoveryInit /\ [][RecoveryNext]_<<which, vars, accessVars>>
  /\ Fairness /\ Access!Fairness

\* AccessRules: a rescue that expired is closed.
ExpiryCloses == Access!ExpiryCloses
=============================================================================
