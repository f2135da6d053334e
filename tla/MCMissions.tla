------------------------------ MODULE MCMissions ------------------------------
(* Small instances of MissionQueue, with two missions of different priority,   *)
(* and of MissionSupervisor.  A behaviour belongs to one of the two, the other *)
(* rests at its first state.                                                   *)
EXTENDS MCMissionQueue

CONSTANTS SupervisedAttempts, SupervisedPanes  \* MissionSupervisor
ASSUME SupervisorBounds == SupervisedAttempts \in Nat /\ SupervisedPanes \in Nat

VARIABLES which, mission, worker, sampled, observed, evidence
supervisorVars == <<mission, worker, sampled, observed, evidence>>

Supervisor == INSTANCE MissionSupervisor WITH
  MaxAttempts <- SupervisedAttempts, MaxPanes <- SupervisedPanes

\* Bound: of restarts, failed writes and replaced panes, two in a behaviour.
MaxTrouble == 2
Replaced == Cardinality({s \in Sessions : term[s].gen > 1})
TroubleIsRare == spent.crashes + spent.faults + Replaced <= MaxTrouble

MissionsInit == which \in {"missions", "supervisor"} /\ Init /\ Supervisor!Init

MissionsNext ==
  /\ UNCHANGED which
  /\ IF which = "missions" THEN Next /\ TroubleIsRare' ELSE UNCHANGED vars
  /\ IF which = "supervisor" THEN Supervisor!Next ELSE UNCHANGED supervisorVars

MissionsSpec == MissionsInit /\ [][MissionsNext]_<<which, vars, supervisorVars>>

\* MissionSupervisor: a report that is taken to be verified is of the mission's own attempt.
ReportIsOwn == Supervisor!ReportIsOwn
=============================================================================
