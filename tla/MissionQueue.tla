----------------------------- MODULE MissionQueue -----------------------------
(****************************************************************************)
(* The missions of PaneFleet: work that an operator plans, gives to a       *)
(* Codex worker (dispatch types it, adoption only binds what the worker     *)
(* already does) and verifies.  An active mission locks its worker and its  *)
(* workspace.                                                               *)
(*                                                                          *)
(* Mission operations run one after another (enqueueMissionOperation), so   *)
(* one that waits for nothing but its write is one step.  Dispatch and      *)
(* adoption also wait for the operations of the prompt queue, for terminals *)
(* and for several writes.  Where the shell of a worker stands, and with it *)
(* the comparison of its path with a workspace, is left open.  What the     *)
(* supervisor does to the store, an operator may ask for too (Transition).  *)
(****************************************************************************)
EXTENDS Naturals, FiniteSets

CONSTANTS
  Jobs,         \* mission ids
  Sessions,     \* tmux sessions with Codex workers
  Workspaces,   \* workspaces; none is inside another
  Weight,       \* the priority of each mission
  MaxActive,    \* MISSION_MAX_ACTIVE
  MaxAttempts,  \* bound: dispatches and adoptions
  MaxGen,       \* bound: panes that follow each other under a session's name
  MaxCrashes,   \* bound: restarts of the dashboard
  MaxFaults     \* bound: failed writes

ASSUME MissionBounds ==
  /\ IsFiniteSet(Jobs) /\ Workspaces # {}
  /\ Weight \in [Jobs -> Nat]
  /\ MaxActive \in Nat /\ MaxAttempts \in Nat /\ MaxGen \in Nat \ {0}
  /\ MaxCrashes \in Nat /\ MaxFaults \in Nat

NoOne == "nobody"
ASSUME NoOneAssumption == NoOne \notin Sessions \cup Jobs

LockStatuses     == {"dispatching", "running", "needs_you", "verifying", "reconcile_required"}
QueueStatuses    == {"backlog", "ready"}
TerminalStatuses == {"done", "failed", "canceled"}
Statuses         == LockStatuses \cup QueueStatuses \cup TerminalStatuses \cup {"absent"}

Transitions ==
  [backlog            |-> {"ready", "canceled"},
   ready              |-> {"backlog", "canceled"},
   dispatching        |-> {"reconcile_required"},
   running            |-> {"needs_you", "verifying", "failed", "canceled"},
   needs_you          |-> {"running", "verifying", "ready", "failed", "canceled"},
   verifying          |-> {"done", "running", "needs_you", "failed", "canceled"},
   reconcile_required |-> {"running", "ready", "verifying", "failed", "canceled"},
   done               |-> {"ready"},
   failed             |-> {"ready", "canceled"},
   canceled           |-> {"ready"},
   absent             |-> {}]

VARIABLES
  mem, disk,  \* missionQueueStore, and the file
  attempts,   \* attempts begun
  op,         \* the dispatch or adoption in progress
  queue,      \* what the prompt queue does, and in which session
  term,       \* the terminal of each session
  typed,      \* ghost: missions typed into a terminal and not released since
  spent       \* how much of each bound was used

storeVars == <<mem, disk, spent>>
vars == <<mem, disk, attempts, op, queue, term, typed, spent>>

\* The exact identity of a pane; gen tells apart the panes of one name.
Panes    == [worker : Sessions \cup {NoOne}, gen : 0 .. MaxGen]
Unbound  == [worker |-> NoOne, gen |-> 0]

\* ended is the last outcome while finishedAt is set, passed the state of the
\* verification, attempt the active attempt.
Job == [status : Statuses, workspace : Workspaces, position : 0 .. Cardinality(Jobs),
        pane : Panes, attempt : 0 .. MaxAttempts,
        ended : TerminalStatuses \cup {"no"}, passed : BOOLEAN]

Terminals == [gen : 1 .. MaxGen, idle : BOOLEAN]

Delivering == {"claimed", "typed", "record", "retry"}
Phases     == Delivering \cup {"idle", "chosen", "adopting", "writing"}
Idle       == [at |-> "idle", job |-> NoOne, pane |-> Unbound, to |-> "absent"]
QueueIdle  == [at |-> "idle", session |-> NoOne]

TypeOK ==
  /\ mem \in [Jobs -> Job] /\ disk \in [Jobs -> Job]
  /\ attempts \in 0 .. MaxAttempts
  /\ op \in [at : Phases, job : Jobs \cup {NoOne}, pane : Panes, to : Statuses]
  /\ queue \in [at : {"idle", "claiming", "delivering"}, session : Sessions \cup {NoOne}]
  /\ term \in [Sessions -> Terminals]
  /\ typed \in SUBSET Jobs
  /\ spent \in [crashes : 0 .. MaxCrashes, faults : 0 .. MaxFaults]

---------------------------------------------------------------------------
(* The store and its order.                                                *)

Queued(st) == {j \in Jobs : st[j].status \in QueueStatuses}
Active(st) == {j \in Jobs : st[j].status \in LockStatuses}

\* queuedMissions sorts the line by position: those of js that come before j.
Before(st, js, j) == {k \in js : st[k].position < st[j].position}

\* normalizeMissionPositions counts the line from 1; outside it a position is
\* not read again.
Normalized(st) ==
  [j \in Jobs |-> [st[j] EXCEPT !.position =
     IF j \in Queued(st) THEN Cardinality(Before(st, Queued(st), j)) + 1 ELSE 0]]

\* placeMissionByPriority: j comes before the first of the others that has a lower
\* priority, behind those ahead of that one.
Ahead(st, others, j) ==
  {o \in others : \A x \in others : st[x].position <= st[o].position => Weight[x] >= Weight[j]}
Place(st, j, k) ==
  LET others == Queued(st) \ {j}
      ahead  == Ahead(st, others, j)
  IN IF k = j THEN Cardinality(ahead) + 1
     ELSE IF k \in others
     THEN Cardinality(Before(st, others, k)) + (IF k \in ahead THEN 1 ELSE 2)
     ELSE 0
Placed(st, j) == [k \in Jobs |-> [st[k] EXCEPT !.position = Place(st, j, k)]]

Spend(b) == spent' = [spent EXCEPT ![b] = @ + 1]

\* persistMissionQueue: it replaces the file, then the memory.
Saved(next) == mem' = next /\ disk' = next /\ UNCHANGED spent

\* It fails, before the rename or after it (then the file is new).
NotSaved(next) ==
  /\ spent.faults < MaxFaults /\ Spend("faults")
  /\ mem' = mem /\ disk' \in {disk, next}

Write(next) == Saved(next) \/ NotSaved(next)

---------------------------------------------------------------------------
(* Requests of the operator that wait only for their write.                *)

Create(j, to) ==
  /\ op = Idle /\ mem[j].status = "absent"
  /\ \E w \in Workspaces :
       Write(Placed([mem EXCEPT ![j].status = to, ![j].workspace = w], j))
  /\ UNCHANGED <<attempts, op, queue, term, typed>>

OnPane(p) == p.worker \in Sessions /\ term[p.worker].gen = p.gen

\* What a transition makes of a mission.  The worker of an ended one is kept for
\* display only.
Moved(job, to) ==
  [job EXCEPT !.status = to,
              !.ended  = IF to \in TerminalStatuses THEN to
                         ELSE IF to = "ready" THEN "no" ELSE @,
              !.passed = (to = "done"),
              !.pane    = IF to \in {"ready"} \cup TerminalStatuses THEN Unbound ELSE @,
              !.attempt = IF to \in {"ready"} \cup TerminalStatuses THEN 0 ELSE @]

Transition(j, to) ==
  /\ op = Idle
  /\ to \in Transitions[mem[j].status]
  /\ to = "running" => OnPane(mem[j].pane)
  /\ LET moved == [mem EXCEPT ![j] = Moved(@, to)]
         next  == Normalized(IF to = "ready" THEN Placed(moved, j) ELSE moved)
     IN /\ Write(next)
        /\ typed' = IF to = "ready" /\ disk'[j].status = "ready" THEN typed \ {j} ELSE typed
  /\ UNCHANGED <<attempts, op, queue, term>>

\* Two neighbours of a lane change places.
Move(j, k) ==
  LET lane == {i \in Queued(mem) : mem[i].status = mem[j].status}
  IN /\ op = Idle
     /\ {j, k} \subseteq lane /\ Before(mem, lane, j) \ {k} = Before(mem, lane, k) \ {j}
     /\ Write([mem EXCEPT ![j].position = mem[k].position, ![k].position = mem[j].position])
     /\ UNCHANGED <<attempts, op, queue, term, typed>>

---------------------------------------------------------------------------
(* Dispatch.                                                               *)

Room(j) == Cardinality(Active(mem) \ {j}) < MaxActive

\* Mistake: only the worker is looked at.
WorkerFree(j, s) == \A o \in Active(mem) \ {j} : mem[o].pane.worker # s

\* No other active mission has the worker or the workspace.
Unlocked(j, s) ==
  \A o \in Active(mem) \ {j} :
    mem[o].pane.worker # s /\ mem[o].workspace # mem[j].workspace

\* sessionDispatchReserved, by a dispatch or by the prompt queue.
MissionReserves(s) == op.at \in Delivering \cup {"chosen"} /\ op.pane.worker = s
QueueReserves(s)   == queue = [at |-> "delivering", session |-> s]

PaneOf(s) == [worker |-> s, gen |-> term[s].gen]

\* The session is reserved, and a snapshot finds its worker idle.
DispatchBegins(j, s) ==
  /\ op = Idle /\ mem[j].status = "ready" /\ attempts < MaxAttempts
  /\ ~QueueReserves(s) /\ Room(j) /\ Unlocked(j, s)
  /\ term[s].idle
  /\ op' = [Idle EXCEPT !.at = "chosen", !.job = j, !.pane = PaneOf(s)]
  /\ UNCHANGED <<storeVars, attempts, queue, term, typed>>

ClaimWrite(next) == Saved(next)

\* Mistake: the snapshot leaves the prompt queue alone.
NotAwaited == TRUE

\* The snapshot's call of the prompt queue has its turn after those before it.
QueueAwaited == queue = QueueIdle

\* The claim is written.
DispatchClaims ==
  /\ op.at = "chosen" /\ QueueAwaited
  /\ attempts' = attempts + 1
  /\ LET next == [mem EXCEPT ![op.job].status = "dispatching",
                             ![op.job].pane = op.pane,
                             ![op.job].attempt = attempts']
     IN \/ ClaimWrite(next) /\ op' = [op EXCEPT !.at = "claimed"]
        \/ NotSaved(next) /\ op' = Idle
  /\ UNCHANGED <<queue, term, typed>>

Result(to) == op' = [op EXCEPT !.at = "record", !.to = to]

\* deliverTextToAgent: nothing was typed; that is only sure of a preflight.
DeliveryRefused ==
  /\ op.at = "claimed"
  /\ Result("ready") \/ Result("reconcile_required")
  /\ UNCHANGED <<storeVars, attempts, queue, term, typed>>

\* All of the text is typed, or a part of it and the pane changes or tmux fails.
TypeText ==
  /\ op.at = "claimed" /\ OnPane(op.pane)
  /\ typed' = typed \cup {op.job}
  /\ op' = [op EXCEPT !.at = "typed"] \/ Result("reconcile_required")
  /\ UNCHANGED <<storeVars, attempts, queue, term>>

\* The text was not confirmed, the pane changed or Enter failed.
EnterWithheld ==
  /\ op.at = "typed"
  /\ Result("reconcile_required")
  /\ UNCHANGED <<storeVars, attempts, queue, term, typed>>

\* Enter; Codex is seen to accept the text, or is not.
PressEnter ==
  /\ op.at = "typed" /\ OnPane(op.pane)
  /\ term' = [term EXCEPT ![op.pane.worker].idle = FALSE]
  /\ Result("running") \/ Result("reconcile_required")
  /\ UNCHANGED <<storeVars, attempts, queue, typed>>

RetryOrGiveUp == IF op.at = "record" THEN [op EXCEPT !.at = "retry"] ELSE Idle

\* The outcome is written, at the second attempt if the first fails.
Record ==
  /\ op.at \in {"record", "retry"}
  /\ LET ended == [mem EXCEPT ![op.job].status = op.to]
         next  == IF op.to = "ready" THEN ended ELSE Normalized(ended)
     IN \/ Saved(next) /\ op' = Idle
        \/ NotSaved(next) /\ op' = RetryOrGiveUp
  /\ UNCHANGED <<attempts, queue, term, typed>>

---------------------------------------------------------------------------
(* Adoption.                                                               *)

\* The worker is live, free and not reserved, and the one the mission had is not.
AdoptBegins(j, s) ==
  /\ op = Idle /\ mem[j].status \in {"ready", "needs_you"} /\ attempts < MaxAttempts
  /\ mem[j].status = "ready" => Room(j)
  /\ Unlocked(j, s) /\ ~QueueReserves(s)
  /\ ~OnPane(mem[j].pane)
  /\ op' = [Idle EXCEPT !.at = "adopting", !.job = j, !.pane = PaneOf(s)]
  /\ UNCHANGED <<storeVars, attempts, queue, term, typed>>

\* The pane is looked at again.
AdoptConfirms ==
  /\ op.at = "adopting" /\ QueueAwaited
  /\ op' = IF OnPane(op.pane) THEN [op EXCEPT !.at = "writing"] ELSE Idle
  /\ UNCHANGED <<storeVars, attempts, queue, term, typed>>

AdoptWrites ==
  /\ op.at = "writing"
  /\ attempts' = attempts + 1
  /\ Write(Normalized([mem EXCEPT
       ![op.job].status = "running", ![op.job].pane = op.pane,
       ![op.job].attempt = attempts']))
  /\ op' = Idle
  /\ UNCHANGED <<queue, term, typed>>

---------------------------------------------------------------------------
(* The prompt queue, as it concerns missions: it checks, writes its claim, *)
(* and only then reserves the session.                                     *)

QueueClaims(s) ==
  /\ queue = QueueIdle
  /\ ~MissionReserves(s) /\ \A j \in Active(mem) : mem[j].pane.worker # s
  /\ term[s].idle
  /\ queue' = [at |-> "claiming", session |-> s]
  /\ UNCHANGED <<storeVars, attempts, op, term, typed>>

QueueClaimEnds ==
  /\ queue.at = "claiming"
  /\ queue' = [queue EXCEPT !.at = "delivering"] \/ queue' = QueueIdle
  /\ UNCHANGED <<storeVars, attempts, op, term, typed>>

QueueDelivers ==
  /\ queue.at = "delivering"
  /\ queue' = QueueIdle
  /\ \/ UNCHANGED term
     \/ term' = [term EXCEPT ![queue.session].idle = FALSE]
  /\ UNCHANGED <<storeVars, attempts, op, typed>>

---------------------------------------------------------------------------
(* Terminals, and restarts of the dashboard.                               *)

AgentFinishes(s) ==
  /\ ~term[s].idle
  /\ term' = [term EXCEPT ![s].idle = TRUE]
  /\ UNCHANGED <<storeVars, attempts, op, queue, typed>>

\* The Codex of a pane ends, and another pane with Codex has the name.
PaneReplaced(s) ==
  /\ term[s].gen < MaxGen
  /\ term' = [term EXCEPT ![s] = [gen |-> @.gen + 1, idle |-> TRUE]]
  /\ UNCHANGED <<storeVars, attempts, op, queue, typed>>

\* Mistake: an interrupted dispatch may be tried again.
RequeuedOnStartup(st) ==
  [j \in Jobs |-> IF st[j].status = "dispatching" THEN [st[j] EXCEPT !.status = "ready"] ELSE st[j]]

\* reconcileMissionQueueOnStartup.
Reconciled(st) ==
  [j \in Jobs |-> IF st[j].status = "dispatching"
                  THEN [st[j] EXCEPT !.status = "reconcile_required"] ELSE st[j]]

Restart ==
  /\ spent.crashes < MaxCrashes /\ Spend("crashes")
  /\ mem' = Reconciled(disk) /\ disk' = Reconciled(disk)
  /\ op' = Idle /\ queue' = QueueIdle
  /\ UNCHANGED <<attempts, term, typed>>

---------------------------------------------------------------------------
Blank == [status |-> "absent", workspace |-> CHOOSE w \in Workspaces : TRUE, position |-> 0,
          pane |-> Unbound, attempt |-> 0, ended |-> "no", passed |-> FALSE]

Init ==
  /\ mem = [j \in Jobs |-> Blank] /\ disk = [j \in Jobs |-> Blank]
  /\ attempts = 0 /\ op = Idle /\ queue = QueueIdle
  /\ term = [s \in Sessions |-> [gen |-> 1, idle |-> TRUE]]
  /\ typed = {} /\ spent = [crashes |-> 0, faults |-> 0]

Request(j) ==
  \/ \E to \in QueueStatuses : Create(j, to)
  \/ \E to \in Statuses : Transition(j, to)
  \/ \E k \in Jobs \ {j} : Move(j, k)
  \/ \E s \in Sessions : DispatchBegins(j, s) \/ AdoptBegins(j, s)

Deliver == DeliveryRefused \/ TypeText \/ EnterWithheld \/ PressEnter \/ Record

Next ==
  \/ \E j \in Jobs : Request(j)
  \/ DispatchClaims \/ Deliver
  \/ AdoptConfirms \/ AdoptWrites
  \/ \E s \in Sessions : QueueClaims(s)
  \/ QueueClaimEnds \/ QueueDelivers
  \/ \E s \in Sessions : AgentFinishes(s) \/ PaneReplaced(s)
  \/ Restart

Spec == Init /\ [][Next]_vars

---------------------------------------------------------------------------
(* Properties.                                                             *)

\* No two active missions have the same worker or the same workspace, in the
\* memory and in the file, which a restart would take, and there are not too many.
Exclusive(st) ==
  /\ Cardinality(Active(st)) <= MaxActive
  /\ \A j, k \in Active(st) :
       j # k => st[j].pane.worker # st[k].pane.worker /\ st[j].workspace # st[k].workspace
LocksAreExclusive == Exclusive(mem) /\ Exclusive(disk)

\* A mission whose text reached a terminal does not wait to be dispatched again
\* unless the operator released it: not after a failure, a failed write or a restart.
NeverResent ==
  \A j \in typed : mem[j].status \notin QueueStatuses /\ disk[j].status \notin QueueStatuses

\* Before a dispatch types anything the file says that it may have.
ClaimIsDurable ==
  op.at \in {"claimed", "typed"} =>
    disk[op.job].status = "dispatching" /\ disk[op.job].attempt = attempts

\* One failed write leaves no mission in the middle of a dispatch that is over,
\* locking its worker until the next restart.
NoOrphanedDispatch ==
  op = Idle /\ spent.faults <= 1 => \A j \in Jobs : mem[j].status # "dispatching"

\* While a mission is dispatched the prompt queue does not deliver to its worker,
\* although it checks the reservation long before it makes its own.
DispatchIsAlone ==
  op.at \in Delivering => queue.session # op.pane.worker

\* What was written can be loaded again (validateMissionQueueStore), and the line
\* has an order.
Valid(st) ==
  /\ \A j \in Jobs :
       /\ st[j].status \in LockStatuses => st[j].pane # Unbound
       /\ st[j].ended = (IF st[j].status \in TerminalStatuses THEN st[j].status ELSE "no")
       /\ st[j].passed <=> st[j].status = "done"
  /\ \A j, k \in Queued(st) : j # k => st[j].position # st[k].position
StoreIsValid == Valid(mem) /\ Valid(disk)

\* What there is of missions, in the memory and in the file, is of the right form, can be
\* loaded again, and holds its locks alone.
MissionsAreSound == TypeOK /\ StoreIsValid /\ LocksAreExclusive

\* A dispatch is on the disk before it types, types where nobody else does, and comes to an end.
DispatchIsSafe == ClaimIsDurable /\ DispatchIsAlone /\ NoOrphanedDispatch

\* test/mission-queue.test.js: active missions lock their worker before tmux input.
WorkerIsLocked ==
  queue.at = "delivering" => \A j \in Active(mem) : mem[j].pane.worker # queue.session
=============================================================================
