---------------------------- MODULE AccessRules ----------------------------
(******************************************************************************)
(* Who may reach the host: the rules of its security group, which the         *)
(* dashboard adds to and cleans up, and the SSH rescue it closes.  Every      *)
(* operation runs to its end on one promise chain, but awaits the cloud,      *)
(* the connections of the host and the disk between its steps; meanwhile      *)
(* SSH peers come and go and an administrator edits the group elsewhere.      *)
(*                                                                            *)
(* A rule admits one source, or Anyone, on one port.  Its description is kept *)
(* as the owner it tells.                                                     *)
(******************************************************************************)
EXTENDS Naturals, Sequences, FiniteSets, SequencesExt

CONSTANTS
  Sources,     \* public addresses
  Operators,   \* those that ask for previews, cleanups and locks
  SshPort, DashboardPort,
  StartRules,  \* the sets of rules the group may have at first
  Baseline,    \* baselinePeerCidrs: peers from before the rescue was opened
  MaxRequests, \* bound: requests of the operators
  MaxTrouble   \* bound: calls that fail, restarts, edits of the group elsewhere, connections that come or go

Anyone == "0.0.0.0/0"
None == "none"
RescuePorts == {SshPort, DashboardPort}

VARIABLES
  rules, ids,     \* the group, and how many rules it ever had
  peers,          \* sources with an established SSH connection
  active, file,   \* sshRescueState.active, and the same in its file
  expired,        \* the clock passed expiresAt of the rescue that is open
  chain,          \* sshSecurityQueue: the operations that wait, the running one first
  run,            \* how far the running operation is, and what it knows; and, as ghosts, the
                  \* sources that stayed connected since it began, whether a look of it at
                  \* the peers failed, and whether the group moved since its last look
  monitor,        \* monitorSshRescue: idle, at its look at the peers, or waiting for the chain
  planned,        \* the rules a request for the plan has read
  previews,       \* plans that were shown, each with its token
  spent           \* how much of each bound was used

hostVars == <<peers, expired>>
vars == <<rules, ids, peers, active, file, expired, chain, run, monitor, planned,
          previews, spent>>

---------------------------------------------------------------------------
(* What the rules of the group say.                                        *)

OwnedRescue(R) == {r \in R : r.owner = "rescue" /\ r.source = Anyone /\ r.port \in RescuePorts}
OwnedLock(R)   == {r \in R : r.owner = "managed"}
Stale(R, keep) == {r \in OwnedLock(R) : r.source \notin keep}

\* Where the operators of the group come from: its own rules for the dashboard, else for SSH.
Unmanaged(R, p) == {r.source : r \in {x \in R : x.port = p /\ x.owner = "static" /\ x.source # Anyone}}
Home(R) == IF Unmanaged(R, DashboardPort) # {} THEN Unmanaged(R, DashboardPort)
           ELSE Unmanaged(R, SshPort)
MirrorPorts(R) == RescuePorts \cup {r.port : r \in {x \in R : x.source \in Home(R)}}

Covered(R, cs, ps) == \A c \in cs, p \in ps : \E r \in R : r.port = p /\ r.source = c

\* A plan names what it removes and whom it keeps; its token is its digest.
Plan(R, requester, connected) ==
  LET keep == {requester} \cup connected
  IN  [requester |-> requester, keep |-> keep,
       candidates |-> OwnedRescue(R) \cup Stale(R, keep)]

---------------------------------------------------------------------------
(* The promise chain.                                                      *)

Idle == [at |-> "idle"]
Op == Head(chain)
Request(kind, requester) ==
  [kind |-> kind, requester |-> requester, targets |-> {}, token |-> <<>>]

\* The operation is over, in success or not; the monitor may have waited for it.
Done ==
  /\ chain' = Tail(chain) /\ run' = Idle
  /\ monitor' = IF Op.kind \in {"expire", "lock_new"} THEN "idle" ELSE monitor
Goto(r) == run' = r /\ UNCHANGED <<chain, monitor>>

Trouble == spent.trouble < MaxTrouble /\ spent' = [spent EXCEPT !.trouble = @ + 1]

Enqueue(op) == chain' = Append(chain, op)

Asks(op) ==
  /\ spent.requests < MaxRequests /\ spent' = [spent EXCEPT !.requests = @ + 1]
  /\ Enqueue(op)
  /\ UNCHANGED <<rules, ids, hostVars, active, file, run, monitor, planned, previews>>

AskOpen(c)    == Asks([Request("open", c) EXCEPT !.targets = {c}])
AskPreview(q) == Asks(Request("preview", q))
AskCleanup(q) == \E p \in previews : p.candidates # {} /\ Asks([Request("cleanup", q) EXCEPT !.token = p])
AskLock(q)    == Asks(Request("lock", q))

\* Operations that lock or expire do nothing once the rescue is closed.
Begin ==
  /\ chain # <<>> /\ run = Idle
  /\ IF Op.kind \in {"lock", "lock_new", "expire"} /\ ~active
     THEN Done
     ELSE Goto([at |-> IF Op.kind \in {"open", "lock_new", "expire"} THEN "look" ELSE "peers",
                targets |-> Op.targets, keep |-> {}, ports |-> {}, todo |-> <<>>,
                failed |-> FALSE, doomed |-> {}, next |-> active,
                stayed |-> peers, blind |-> FALSE, moved |-> FALSE])
  /\ UNCHANGED <<rules, ids, hostVars, active, file, planned, previews, spent>>

\* `ss` answers with the connected sources; when it fails, with none.
Connected(seen, dark) ==
  \/ seen = peers /\ dark = FALSE /\ UNCHANGED spent
  \/ seen = {} /\ dark = TRUE /\ Trouble

Looked(dark) == [run EXCEPT !.blind = @ \/ dark]

\* currentSshPeerCidrs of the running operation.
LookAtPeers ==
  /\ run.at \in {"peers", "keep"}
  /\ \E seen \in SUBSET Sources, dark \in BOOLEAN :
       /\ Connected(seen, dark)
       /\ \/ /\ run.at = "keep"
             /\ Goto([Looked(dark) EXCEPT !.at = "verify", !.keep = run.targets \cup seen])
          \/ /\ run.at = "peers" /\ Op.kind # "lock"
             /\ Goto([Looked(dark) EXCEPT !.at = "look", !.targets = {Op.requester},
                                          !.keep = {Op.requester} \cup seen])
          \/ /\ run.at = "peers" /\ Op.kind = "lock"
             /\ LET targets == (seen \cup {Op.requester}) \ Baseline
                IN  IF targets = {} THEN Done
                    ELSE Goto([Looked(dark) EXCEPT !.at = "look", !.targets = targets])
  /\ UNCHANGED <<rules, ids, hostVars, active, file, planned, previews>>

\* The calls that cover every target on every port, one after the other.
Coverage(cs, ps) == SetToSeq(cs \X ps)

\* Mistake: a token is accepted for whatever its operator would clean up now.
ConfirmedRequester(plan) == plan.requester = Op.token.requester

\* A real cleanup goes on only with the token of what it would do now.
Confirmed(plan) == plan = Op.token

\* The first look at the rules.
Look ==
  /\ run.at = "look" /\ UNCHANGED spent
  /\ LET plan  == Plan(rules, Op.requester, run.keep \ {Op.requester})
         broad == {r.port : r \in OwnedRescue(rules)}
     IN \/ Op.kind = "preview" /\ Done /\ previews' = previews \cup {plan}
        \/ /\ Op.kind = "cleanup" /\ UNCHANGED previews
           /\ IF ~Confirmed(plan) THEN Done
              ELSE Goto([run EXCEPT !.at = IF broad = {} THEN "revoke" ELSE "authorize",
                                    !.ports = broad, !.todo = Coverage(run.targets, broad),
                                    !.doomed = plan.candidates])
        \/ /\ Op.kind = "expire" /\ UNCHANGED previews
           /\ Goto([run EXCEPT !.at = "revoke", !.doomed = OwnedRescue(rules)])
        \/ /\ Op.kind \in {"open", "lock", "lock_new"} /\ UNCHANGED previews
           /\ Goto([run EXCEPT !.at = "authorize", !.ports = MirrorPorts(rules),
                               !.todo = Coverage(run.targets, MirrorPorts(rules))])
  /\ UNCHANGED <<rules, ids, hostVars, active, file, planned>>

\* authorizePortCidr: a rule the group already has for the source counts as done.
Added == LET c == run.todo[1][1] p == run.todo[1][2]
         IN  IF Covered(rules, {c}, {p}) THEN {}
             ELSE {[id |-> ids + 1, port |-> p, source |-> c, owner |-> "managed"]}
Authorize ==
  /\ run.at = "authorize"
  /\ \E new \in {{}, Added}, failed \in BOOLEAN :
       /\ failed \/ new = Added
       /\ IF failed THEN Trouble ELSE UNCHANGED spent
       /\ rules' = rules \cup new /\ ids' = ids + Cardinality(new)
       /\ Goto([run EXCEPT !.todo = Tail(@), !.failed = @ \/ failed,
                           !.at = IF Tail(run.todo) # <<>> THEN "authorize"
                                  ELSE IF Op.kind \in {"lock", "lock_new"} THEN "keep" ELSE "verify"])
  /\ UNCHANGED <<hostVars, active, file, planned, previews>>

\* Mistake: an authorization that was accepted is not looked for.
CompleteUnverified(R) == ~run.failed

Complete(R) == ~run.failed /\ Covered(R, run.targets, run.ports)

\* The second look at the rules: nothing is revoked unless every target is covered.
Verify ==
  /\ run.at = "verify" /\ UNCHANGED spent
  /\ \/ ~Complete(rules) /\ Done
     \/ Complete(rules) /\ Op.kind = "open" /\ Goto([run EXCEPT !.at = "save"])
     \/ /\ Complete(rules) /\ Op.kind = "cleanup"
        /\ IF Confirmed(Plan(rules, Op.requester, run.keep \ {Op.requester}))
           THEN Goto([run EXCEPT !.at = "revoke", !.moved = FALSE]) ELSE Done
     \/ /\ Complete(rules) /\ Op.kind \in {"lock", "lock_new"}
        /\ Goto([run EXCEPT !.at = "revoke", !.moved = FALSE,
                            !.doomed = OwnedRescue(rules) \cup Stale(rules, run.keep)])
  /\ UNCHANGED <<rules, ids, hostVars, active, file, planned, previews>>

\* A look that fails rejects the operation.
LookFails ==
  /\ run.at \in {"look", "verify", "remaining"} /\ Trouble /\ Done
  /\ UNCHANGED <<rules, ids, hostVars, active, file, planned, previews>>

\* The state that is written when the revocation succeeded.
Closed == [run EXCEPT !.at = IF Op.kind = "cleanup" THEN "remaining" ELSE "save", !.next = FALSE]

\* Mistake: the rescue is recorded as closed although the revocation failed.
ClosedAnyway == Goto([run EXCEPT !.at = "save", !.next = FALSE])

\* A failed revocation leaves the rescue as it is, to be retried.
StillOpen == Done

\* One call revokes all the rules, and none of them when one is gone.
Revoke ==
  /\ run.at = "revoke"
  /\ \/ run.doomed \subseteq rules /\ rules' = rules \ run.doomed /\ Goto(Closed) /\ UNCHANGED spent
     \/ ~(run.doomed \subseteq rules) /\ StillOpen /\ UNCHANGED <<rules, spent>>
     \/ /\ run.doomed # {} /\ Trouble /\ StillOpen
        /\ rules' = rules \/ (run.doomed \subseteq rules /\ rules' = rules \ run.doomed)
  /\ UNCHANGED <<ids, hostVars, active, file, planned, previews>>

\* A cleanup looks a third time, at what is left.
Remaining ==
  /\ run.at = "remaining"
  /\ IF run.doomed \cap rules # {} THEN Done
     ELSE Goto([run EXCEPT !.at = "save", !.next = OwnedRescue(rules) # {}])
  /\ UNCHANGED <<rules, ids, hostVars, active, file, planned, previews, spent>>

\* writeSshRescueState: the file first, then the state; the write may fail on either side of the rename.
Save ==
  /\ run.at = "save" /\ Done
  /\ \/ file' = run.next /\ active' = run.next /\ UNCHANGED spent
     \/ file' \in {file, run.next} /\ UNCHANGED active /\ Trouble
  /\ UNCHANGED <<rules, ids, hostVars, planned, previews>>

---------------------------------------------------------------------------
(* The monitor, and the plan, which is read outside of the chain.          *)

\* Mistake: no retry after a failure.
TicksOnce == monitor = "idle" /\ active /\ spent.trouble = 0

Ticks == monitor = "idle" /\ active

MonitorTick ==
  /\ Ticks
  /\ IF expired THEN monitor' = "waiting" /\ Enqueue(Request("expire", None))
     ELSE monitor' = "peers" /\ UNCHANGED chain
  /\ UNCHANGED <<rules, ids, hostVars, active, file, run, planned, previews, spent>>

MonitorLooks ==
  /\ monitor = "peers"
  /\ \E seen \in SUBSET Sources, dark \in BOOLEAN :
       /\ Connected(seen, dark)
       /\ IF seen \ Baseline = {} THEN monitor' = "idle" /\ UNCHANGED chain
          ELSE /\ monitor' = "waiting"
               /\ Enqueue([Request("lock_new", None) EXCEPT !.targets = seen \ Baseline])
  /\ UNCHANGED <<rules, ids, hostVars, active, file, run, planned, previews>>

PlanLooks ==
  /\ planned = {} /\ planned' = {rules}
  /\ spent.requests < MaxRequests /\ spent' = [spent EXCEPT !.requests = @ + 1]
  /\ UNCHANGED <<rules, ids, hostVars, active, file, chain, run, monitor, previews>>

PlanShown(q) ==
  /\ \E R \in planned, seen \in SUBSET Sources, dark \in BOOLEAN :
       Connected(seen, dark) /\ previews' = previews \cup {Plan(R, q, seen)}
  /\ planned' = {}
  /\ UNCHANGED <<rules, ids, hostVars, active, file, chain, run, monitor>>

---------------------------------------------------------------------------
(* Around the dashboard.                                                   *)

Outside ==
  /\ Trouble
  /\ \/ \E r \in rules : rules' = rules \ {r} /\ UNCHANGED ids
     \/ \E c \in Sources, p \in RescuePorts :
          /\ ~Covered(rules, {c}, {p})
          /\ rules' = rules \cup {[id |-> ids + 1, port |-> p, source |-> c, owner |-> "static"]}
          /\ ids' = ids + 1
  /\ run' = IF run = Idle THEN run ELSE [run EXCEPT !.moved = TRUE]
  /\ UNCHANGED <<hostVars, active, file, chain, monitor, planned, previews>>

Connects(c) ==
  /\ c \notin peers
  /\ Covered(rules, {c}, {SshPort}) \/ Covered(rules, {Anyone}, {SshPort})
  /\ peers' = peers \cup {c}
  /\ Trouble
  /\ UNCHANGED <<rules, ids, active, file, expired, chain, run, monitor, planned, previews>>

Disconnects(c) ==
  /\ c \in peers /\ peers' = peers \ {c} /\ Trouble
  /\ run' = IF run = Idle THEN run ELSE [run EXCEPT !.stayed = @ \ {c}]
  /\ UNCHANGED <<rules, ids, active, file, expired, chain, monitor, planned, previews>>

Expires ==
  /\ active /\ ~expired /\ expired' = TRUE
  /\ UNCHANGED <<rules, ids, peers, active, file, chain, run, monitor, planned, previews, spent>>

Restart ==
  /\ Trouble /\ chain' = <<>> /\ run' = Idle /\ monitor' = "idle" /\ planned' = {} /\ active' = file
  /\ UNCHANGED <<rules, ids, hostVars, file, previews>>

Init ==
  /\ rules \in StartRules /\ ids = 9
  /\ peers \in {P \in SUBSET Sources : \A c \in P :
                  Covered(rules, {c}, {SshPort}) \/ Covered(rules, {Anyone}, {SshPort})}
  /\ active = (OwnedRescue(rules) # {}) /\ file = active /\ expired = FALSE
  /\ chain = <<>> /\ run = Idle /\ monitor = "idle" /\ planned = {} /\ previews = {}
  /\ spent = [requests |-> 0, trouble |-> 0]

Step == Begin \/ LookAtPeers \/ Look \/ LookFails \/ Authorize \/ Verify
        \/ Revoke \/ Remaining \/ Save

Next ==
  \/ \E c \in Sources : AskOpen(c) \/ Connects(c) \/ Disconnects(c)
  \/ \E q \in Operators : AskPreview(q) \/ AskCleanup(q) \/ AskLock(q) \/ PlanShown(q)
  \/ Step \/ MonitorTick \/ MonitorLooks \/ PlanLooks
  \/ Outside \/ Expires \/ Restart

Spec == Init /\ [][Next]_vars

\* The chain runs on, and the monitor ticks.
Fairness == WF_vars(Step) /\ WF_vars(MonitorTick) /\ WF_vars(MonitorLooks)
FairSpec == Spec /\ Fairness

---------------------------------------------------------------------------
\* What a step of revokeRuleIds removes.
Revoked == IF run.at = "revoke" /\ run'.at # run.at THEN rules \ rules' ELSE {}

\* A rescue that is recorded as closed is closed: no rule that admits everybody is left.
RescueIsClosed == ~active \/ ~file => OwnedRescue(rules) = {}

\* A broad rule is replaced, never just removed: when a lock or a cleanup revokes
\* one, whoever asked, or is locked to, is covered on its port by a rule of their own,
\* unless somebody else edited the group after the operation verified that.
NobodyIsLockedOut ==
  [][ \A r \in OwnedRescue(Revoked) :
        Op.kind = "expire" \/ run.moved \/ Covered(rules', run.targets, {r.port}) ]_vars

\* A cleanup removes what its operator was shown: all of a preview made for them,
\* and nothing that belongs to them or to a peer the preview listed.  No operation
\* removes a rule of a source that stayed connected throughout it, provided that it
\* could see the connections.
RevokesAsShown ==
  [][ /\ Revoked # {} /\ Op.kind = "cleanup" =>
           \E p \in previews :
              /\ p.requester = Op.requester /\ p.candidates = Revoked
              /\ \A r \in Revoked : r.source \notin p.keep /\ r.owner # "static"
      /\ \A r \in Revoked : run.blind \/ r.source \notin run.stayed ]_vars

\* docs/safety-model.md: cleanup preserves active SSH sources.
ActiveSshIsPreserved ==
  [][ \A r \in Revoked : Op.kind = "cleanup" => r.source \notin run.stayed ]_vars

\* A rescue that expired is closed in the end, through failures and restarts.
ExpiryCloses == active /\ expired ~> ~active
=============================================================================
