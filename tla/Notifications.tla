--------------------------- MODULE Notifications ---------------------------
(***************************************************************************)
(* The notices of missions: the latest events that still ask for an        *)
(* operator, but for those that were opened or are snoozed.  The events    *)
(* are the mission queue's and their log is bounded; what was opened and   *)
(* snoozed is a store of its own, bounded too.                             *)
(***************************************************************************)
EXTENDS Naturals, FiniteSets, SequencesExt

CONSTANTS
  Missions,
  EventLimit,  \* MISSION_EVENT_LIMIT
  StateLimit,  \* NOTIFICATION_STATE_LIMIT
  OutboxLimit, \* notices in a snapshot
  MaxEvents,   \* bound: events
  MaxNow       \* bound: time

VARIABLES
  statusOf, \* the status of each mission
  eventLog, \* events: number, mission and the kind of notice they make
  answered, \* notices opened or snoozed, and the time of it
  time,
  entered   \* ghost: the event that gave each mission its status
vars == <<statusOf, eventLog, answered, time, entered>>

Troubles == {"needs_you", "verifying", "failed", "reconcile_required"}

\* The kinds of notice an event makes, by the status it leads to: the detail of
\* the supervisor's events tells failures and stale workers from questions.
KindsOf(status) ==
  CASE status = "needs_you" -> {"failure", "stale", "needs_you"}
    [] status = "verifying" -> {"verification_ready"}
    [] status \in {"failed", "reconcile_required"} -> {"failure"}
    [] OTHER -> {"none"}

\* Mistake: a failure is over unless the mission itself failed.
FailedOnly(kind, status) ==
  CASE kind = "verification_ready" -> status = "verifying"
    [] kind = "failure" -> status \in {"failed", "reconcile_required"}
    [] kind \in {"needs_you", "stale"} -> status \in {"needs_you", "reconcile_required"}
    [] OTHER -> FALSE

\* missionNotificationItem
StillRelevant(kind, status) ==
  CASE kind = "verification_ready" -> status = "verifying"
    [] kind = "failure" -> status \in {"failed", "reconcile_required", "needs_you"}
    [] kind \in {"needs_you", "stale"} -> status \in {"needs_you", "reconcile_required"}
    [] OTHER -> FALSE

Events == ToSet(eventLog)
Relevant == {e \in Events : StillRelevant(e.kind, statusOf[e.mission])}

\* Of the relevant events of one mission and kind the latest counts.
Latest == {e \in Relevant :
  ~\E f \in Relevant : f.id > e.id /\ f.mission = e.mission /\ f.kind = e.kind}

Opened(id)  == id \in DOMAIN answered /\ answered[id].act = "open"
Snoozed(id) == id \in DOMAIN answered /\ answered[id].act = "snooze" /\ answered[id].at > time

\* notificationOutboxSnapshot
Pending == {e \in Latest : ~Opened(e.id) /\ ~Snoozed(e.id)}
Outbox == {e \in Pending : Cardinality({f \in Pending : f.id > e.id}) < OutboxLimit}

---------------------------------------------------------------------------
\* A mission takes another status, with its event, in one write of the mission queue.
Made == IF eventLog = <<>> THEN 0 ELSE Last(eventLog).id
MissionMoves(m, to) ==
  /\ Made < MaxEvents /\ to # statusOf[m]
  /\ statusOf' = [statusOf EXCEPT ![m] = to]
  /\ entered' = [entered EXCEPT ![m] = Made + 1]
  /\ \E kind \in KindsOf(to) :
       LET longer == Append(eventLog, [id |-> Made + 1, mission |-> m, kind |-> kind])
       IN  eventLog' = IF Len(longer) > EventLimit THEN Tail(longer) ELSE longer
  /\ UNCHANGED <<answered, time>>

\* updateNotificationDisposition: the newest answers are kept; between equal times it is open.
Trimmed(answers) ==
  {kept \in SUBSET DOMAIN answers :
     /\ Cardinality(kept) = Min({StateLimit, Cardinality(DOMAIN answers)})
     /\ \A k \in kept, d \in DOMAIN answers \ kept : answers[k].at >= answers[d].at}
Answer(id, act, at) ==
  /\ id \in DOMAIN answered \/ \E e \in Outbox : e.id = id
  /\ LET answers == [n \in DOMAIN answered \cup {id} |->
                       IF n = id THEN [act |-> act, at |-> at] ELSE answered[n]]
     IN  \E kept \in Trimmed(answers) : answered' = Restrict(answers, kept)
  /\ UNCHANGED <<statusOf, eventLog, time, entered>>
Open(id)   == Answer(id, "open", time)
Snooze(id) == Answer(id, "snooze", time + 1)

TimePasses == time < MaxNow /\ time' = time + 1 /\ UNCHANGED <<statusOf, eventLog, answered, entered>>

Init ==
  /\ statusOf = [m \in Missions |-> "running"] /\ eventLog = <<>> /\ answered = <<>>
  /\ time = 0 /\ entered = [m \in Missions |-> 0]

Next ==
  \/ \E m \in Missions, to \in Troubles \cup {"running"} : MissionMoves(m, to)
  \/ \E id \in 1 .. MaxEvents : Open(id) \/ Snooze(id)
  \/ TimePasses
Spec == Init /\ [][Next]_vars

---------------------------------------------------------------------------
\* While its event is in the log, a mission that needs an operator has a notice for it,
\* unless that very notice was opened or is snoozed.
TroubleIsNoticed ==
  \A m \in Missions : statusOf[m] \in Troubles =>
    \A e \in Events : e.id = entered[m] => e \in Outbox \/ Opened(e.id) \/ Snoozed(e.id)

\* Opening or snoozing a notice does not bring up an older one of the same mission and kind.
AnsweredIsQuiet ==
  \A e, f \in Relevant :
    e.id > f.id /\ e.mission = f.mission /\ e.kind = f.kind => f \notin Outbox

\* Whoever is needed is told, once.
NoticesAreDue == TroubleIsNoticed /\ AnsweredIsQuiet
=============================================================================
