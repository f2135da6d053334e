------------------------- MODULE MissionSupervisor -------------------------
(***************************************************************************)
(* The supervisor of a mission: with every snapshot it looks at the worker *)
(* of a running mission and, when it saw the same thing twice, asks for    *)
(* the operator or takes the worker's report to be verified.  The agents   *)
(* of the snapshot are older than its turn among the mission operations,   *)
(* while the pane is looked at again.  MissionQueue has dispatch, adoption *)
(* and transitions in detail; here each is one step.                       *)
(***************************************************************************)
EXTENDS Naturals

CONSTANTS
  MaxAttempts, \* bound: dispatches and adoptions
  MaxPanes     \* bound: panes that follow each other under the worker's name

VARIABLES
  mission,  \* status, pane, attempt and how it began
  worker,   \* the pane of the session: whether Codex runs, what it shows since which text
  sampled,  \* the agents of the snapshots that wait for their turn
  observed, \* missionSupervisorObservations
  evidence  \* ghost: the attempt that the first of the samples observed was taken in
vars == <<mission, worker, sampled, observed, evidence>>

LockStatuses == {"running", "needs_you", "verifying"}

---------------------------------------------------------------------------
(* The worker and the operator.                                            *)

SameMission == UNCHANGED <<mission, sampled, observed, evidence>>
WorkerMoves ==
  /\ worker.codex /\ SameMission
  /\ \E shown \in {"idle", "working", "question", "failure", "report"} :
       shown # worker.shows /\ worker' = [worker EXCEPT !.shows = shown]
WorkerExits == worker.codex /\ worker' = [worker EXCEPT !.codex = FALSE] /\ SameMission
WorkerReplaced ==
  /\ worker.pane < MaxPanes /\ SameMission
  /\ worker' = [pane |-> worker.pane + 1, codex |-> TRUE, shows |-> "idle", marker |-> 0]

Binds(kind) ==
  /\ worker.codex /\ mission.attempt < MaxAttempts
  /\ mission' = [status |-> "running", pane |-> worker.pane, attempt |-> mission.attempt + 1, kind |-> kind]
  /\ UNCHANGED <<sampled, observed, evidence>>

\* The text of a dispatch has its marker; adoption types nothing.
Dispatch ==
  /\ mission.status = "ready" /\ worker.shows \notin {"working", "question"} /\ Binds("dispatch")
  /\ worker' = [worker EXCEPT !.shows = "working", !.marker = mission.attempt + 1]
Adopt ==
  /\ mission.status = "ready" \/ (mission.status = "needs_you" /\ mission.pane # worker.pane)
  /\ Binds("adoption") /\ UNCHANGED worker

Transition(to) ==
  /\ mission.status \in LockStatuses /\ to \in (LockStatuses \cup {"ready"}) \ {mission.status}
  /\ to = "running" => worker.codex /\ worker.pane = mission.pane
  /\ mission.status = "running" => to # "ready"
  /\ mission' = [mission EXCEPT !.status = to, !.pane = IF to = "ready" THEN 0 ELSE @]
  /\ UNCHANGED <<worker, sampled, observed, evidence>>

---------------------------------------------------------------------------
(* The supervisor.                                                         *)

Sample ==
  /\ sampled = {} /\ sampled' = {worker}
  /\ UNCHANGED <<mission, worker, observed, evidence>>

\* Mistake: a report is the mission's, whatever text it follows.
AnyReport(agent) == agent.shows

\* missionSupervisorReportOutput: what a dispatched worker shows counts as a report from
\* the marker of the attempt on; after an adoption all of it does.
Reported(agent) ==
  IF agent.shows \in {"failure", "report"} /\ mission.kind = "dispatch" /\ agent.marker # mission.attempt
  THEN "idle" ELSE agent.shows

\* missionSupervisorSignal; overdue is MISSION_SUPERVISOR_IDLE_STALE_MS since the start.
Signal(agent, overdue) ==
  CASE worker.pane # mission.pane -> {"replaced"}
    [] worker.pane = mission.pane /\ ~(worker.codex /\ agent.codex) -> {"error"}
    [] OTHER -> CASE Reported(agent) = "failure" -> {"error"}
                  [] Reported(agent) = "question" -> {"waiting"}
                  [] Reported(agent) = "report" -> {"report"}
                  [] Reported(agent) = "idle" /\ overdue -> {"idle"}
                  [] OTHER -> {}

\* The fingerprint of an observation: what is seen, and in which pane.
Observation(agent, overdue) == {[signal |-> s, pane |-> mission.pane] : s \in Signal(agent, overdue)}

\* stableMissionSupervisorSignal; elapsed is MISSION_SUPERVISOR_MIN_DELAY_MS since the first.
Supervise(elapsed, overdue) ==
  /\ sampled' = {} /\ UNCHANGED worker
  /\ \E agent \in sampled :
       LET now == Observation(agent, overdue)
           stable == now # {} /\ now = observed /\ elapsed
       IN  IF mission.status # "running" THEN observed' = {} /\ evidence' = 0 /\ UNCHANGED mission
           ELSE /\ observed' = IF stable THEN {} ELSE now
                /\ evidence' = CASE stable \/ now = {} -> 0
                                 [] ~stable /\ now # {} /\ now = observed -> evidence
                                 [] OTHER -> mission.attempt
                /\ \/ ~stable /\ UNCHANGED mission
                   \/ stable /\ mission' = [mission EXCEPT !.status =
                        IF \E o \in now : o.signal = "report" THEN "verifying" ELSE "needs_you"]
                   \/ stable /\ UNCHANGED mission  \* the write fails

\* The observations are in memory only.
Restart ==
  /\ sampled' = {} /\ observed' = {} /\ evidence' = 0 /\ UNCHANGED <<mission, worker>>

Init ==
  /\ mission = [status |-> "ready", pane |-> 0, attempt |-> 0, kind |-> "none"]
  /\ worker = [pane |-> 1, codex |-> TRUE, shows |-> "idle", marker |-> 0]
  /\ sampled = {} /\ observed = {} /\ evidence = 0

Next ==
  \/ WorkerMoves \/ WorkerExits \/ WorkerReplaced
  \/ Dispatch \/ Adopt \/ \E to \in LockStatuses \cup {"ready"} : Transition(to)
  \/ Sample \/ Restart \/ \E elapsed, overdue \in BOOLEAN : Supervise(elapsed, overdue)
Spec == Init /\ [][Next]_vars

---------------------------------------------------------------------------
\* A dispatched mission is offered for verification only by a report that its worker gave
\* after the text of this very attempt, in the pane it was typed into, however old the
\* sample is and whoever used the pane before.
ReportIsOwn ==
  [][ sampled # {} /\ sampled' = {} /\ mission.kind = "dispatch"
      /\ mission.status = "running" /\ mission'.status = "verifying" =>
        \A agent \in sampled : agent.pane = mission.pane /\ agent.marker = mission.attempt ]_vars

---------------------------------------------------------------------------
(* Statements that the code does not always keep.       *)

\* server.js: state changes on stable evidence of several samples.  Both are of the attempt
\* that is running.
EvidenceIsOwn ==
  [][ sampled # {} /\ sampled' = {} /\ mission.status = "running" /\ mission'.status # "running" =>
        evidence = mission.attempt ]_vars
=============================================================================
