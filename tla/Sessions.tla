------------------------------- MODULE Sessions -------------------------------
(*****************************************************************************)
(* The tmux sessions that PaneFleet begins, ends, names and resumes          *)
(* (createAgent, createIdeaScout, resumeAgent, stopSession, controlService,  *)
(* runServiceAction, renameAgent).  Every call of tmux is a step of its own, *)
(* other requests and people at a terminal act between them, and a session   *)
(* that ended may be there again under the same name.                        *)
(*                                                                           *)
(* Every session that begins has a number of its own, 0 is no session.       *)
(*****************************************************************************)
EXTENDS Naturals, FiniteSets

CONSTANTS
  Agents, Scouts, Services,  \* names of sessions: agents, their idea scouts, services
  Tasks,                     \* names of the sessions of actions, each of its own moment
  Requests,                  \* requests in progress
  Labels,                    \* display names
  MaxScouts,                 \* MAX_ACTIVE_IDEA_SCOUTS
  MaxBorn,                   \* bound: sessions that begin
  MaxTrouble                 \* bound: calls that fail, restarts

VARIABLES
  live,    \* the session of each name
  pane,    \* what runs in its pane: the shell, or Codex
  born,
  names,   \* agentDisplayNameStore: for each name a label and whose it is
  file,    \* agent-display-names.json
  job,     \* what each request is at
  gone,    \* ghost: by request, the service's session when it was asked for
  trouble

vars == <<live, pane, born, names, file, job, gone, trouble>>

Names   == Agents \cup Scouts \cup Services \cup Tasks
Unnamed == [n \in Names |-> [label |-> "none", of |-> 0]]
Idle    == [at |-> "idle", what |-> "none", name |-> "none", seen |-> 0, label |-> "none"]

Init ==
  /\ live = [n \in Names |-> 0] /\ pane = [n \in Names |-> "shell"] /\ born = 0
  /\ names = Unnamed /\ file = Unnamed
  /\ job = [r \in Requests |-> Idle] /\ gone = [r \in Requests |-> 0]
  /\ trouble = 0

Trouble    == trouble < MaxTrouble /\ trouble' = trouble + 1
There(n)   == live[n] > 0
Goto(r, j) == job' = [job EXCEPT ![r] = j]
Rest(r)    == Goto(r, Idle)
At(r, at)  == job[r].at = at

\* tmux new-session: a name is taken once.
Begins(n, what) ==
  /\ ~There(n) /\ born < MaxBorn
  /\ born' = born + 1
  /\ live' = [live EXCEPT ![n] = born + 1]
  /\ pane' = [pane EXCEPT ![n] = what]

\* tmux kill-session, by the name.
Dies(n) == live' = [live EXCEPT ![n] = 0] /\ UNCHANGED <<pane, born>>

Asks(r, what, n, at) ==
  /\ At(r, "idle")
  /\ Goto(r, [Idle EXCEPT !.at = at, !.what = what, !.name = n, !.seen = live[n]])
  /\ gone' = [gone EXCEPT ![r] = live[n]]

---------------------------------------------------------------------------
\* createAgent.
AskCreate(r, n) ==
  /\ Asks(r, "create", n, "look")
  /\ UNCHANGED <<live, pane, born, names, file, trouble>>

\* createIdeaScout: the agents are those of one snapshot; a scout that is there
\* is used again, and beyond so many there is no new one.
AskScout(r, n) ==
  /\ IF There(n) \/ Cardinality({m \in Scouts : There(m)}) >= MaxScouts
     THEN At(r, "idle") /\ UNCHANGED <<job, gone>>
     ELSE Asks(r, "scout", n, "look")
  /\ UNCHANGED <<live, pane, born, names, file, trouble>>

\* tmux has-session.
Look(r) ==
  /\ At(r, "look")
  /\ IF There(job[r].name) THEN Rest(r) ELSE Goto(r, [job[r] EXCEPT !.at = "new"])
  /\ UNCHANGED <<live, pane, born, names, file, gone, trouble>>

New(r) ==
  /\ At(r, "new")
  /\ \/ Begins(job[r].name, "codex") /\ Goto(r, [job[r] EXCEPT !.at = "wait"])
     \/ There(job[r].name) /\ Rest(r) /\ UNCHANGED <<live, pane, born>>
  /\ UNCHANGED <<names, file, gone, trouble>>

\* waitForPromptableCodexPane, by the name: the pane may be another one's.
Wait(r) ==
  /\ At(r, "wait")
  /\ There(job[r].name) /\ pane[job[r].name] = "codex"
  /\ IF job[r].what = "scout" THEN Rest(r)
     ELSE Goto(r, [job[r] EXCEPT !.at = "type", !.seen = live[job[r].name]])
  /\ UNCHANGED <<live, pane, born, names, file, gone, trouble>>

\* INITIAL_PROMPT_READY_MS have passed, or the pane is not the one of before.
GivesUp(r) ==
  /\ At(r, "wait") \/ (At(r, "type") /\ live[job[r].name] # job[r].seen)
  /\ Rest(r)
  /\ UNCHANGED <<live, pane, born, names, file, gone, trouble>>

Type(r) ==
  /\ At(r, "type") /\ live[job[r].name] = job[r].seen
  /\ Rest(r)
  /\ UNCHANGED <<live, pane, born, names, file, gone, trouble>>

---------------------------------------------------------------------------
\* stopSession.
AskStop(r, n) ==
  /\ There(n)
  /\ Asks(r, "stop", n, "kill")
  /\ UNCHANGED <<live, pane, born, names, file, trouble>>

\* controlService.
AskService(r, n, what) ==
  /\ Asks(r, what, n, IF what = "start" THEN "check" ELSE "kill")
  /\ UNCHANGED <<live, pane, born, names, file, trouble>>

\* What follows when the session was ended or was not there.
Killed(r) ==
  CASE job[r].what = "restart"  -> Goto(r, [job[r] EXCEPT !.at = "check"])
    [] job[r].what = "shutdown" -> Goto(r, [job[r] EXCEPT !.at = "done"])
    [] OTHER -> Rest(r)

Kill(r) ==
  /\ At(r, "kill")
  /\ Killed(r)
  /\ Dies(job[r].name)
  /\ UNCHANGED <<names, file, gone, trouble>>

\* Mistake: a session that could not be ended counts as one that is not there.
CarriesOn(r) == Killed(r)

\* stop_failed.
StopFailed(r) == Rest(r)

KillFails(r) ==
  /\ At(r, "kill") /\ There(job[r].name)
  /\ Trouble
  /\ StopFailed(r)
  /\ UNCHANGED <<live, pane, born, names, file, gone>>

\* A session that is there is as good as a new one.
Check(r) ==
  /\ At(r, "check")
  /\ Goto(r, [job[r] EXCEPT !.at = IF There(job[r].name) THEN "done" ELSE "start"])
  /\ UNCHANGED <<live, pane, born, names, file, gone, trouble>>

\* start_failed, when another request was faster.
Start(r) ==
  /\ At(r, "start")
  /\ \/ Begins(job[r].name, "shell") /\ Goto(r, [job[r] EXCEPT !.at = "done"])
     \/ There(job[r].name) /\ Rest(r) /\ UNCHANGED <<live, pane, born>>
  /\ UNCHANGED <<names, file, gone, trouble>>

Answer(r) ==
  /\ At(r, "done")
  /\ Rest(r)
  /\ UNCHANGED <<live, pane, born, names, file, gone, trouble>>

\* runServiceAction, for an action that runs in tmux: a session that nothing waits for.
RunAction(n) ==
  /\ Begins(n, "shell")
  /\ UNCHANGED <<names, file, job, gone, trouble>>

---------------------------------------------------------------------------
\* resumeAgent: the pane is the one that the browser has seen, with a shell.
AskResume(r, n) ==
  /\ There(n) /\ pane[n] = "shell"
  /\ Asks(r, "resume", n, "resume")
  /\ UNCHANGED <<live, pane, born, names, file, trouble>>

\* In the turn of the pane it is looked at again.
Resume(r) ==
  /\ At(r, "resume")
  /\ Rest(r)
  /\ IF live[job[r].name] = job[r].seen /\ pane[job[r].name] = "shell"
     THEN pane' = [pane EXCEPT ![job[r].name] = "codex"] ELSE UNCHANGED pane
  /\ UNCHANGED <<live, born, names, file, gone, trouble>>

---------------------------------------------------------------------------
\* renameAgent, with the session that a snapshot shows.
AskRename(r, n, label) ==
  /\ There(n) /\ At(r, "idle")
  /\ Goto(r, [Idle EXCEPT !.at = "rename", !.what = "rename", !.name = n, !.seen = live[n],
                          !.label = label])
  /\ UNCHANGED <<live, pane, born, names, file, gone, trouble>>

\* persistAgentDisplayNames: memory at once.
Rename(r) ==
  /\ At(r, "rename")
  /\ names' = [names EXCEPT ![job[r].name] = [label |-> job[r].label, of |-> job[r].seen]]
  /\ Goto(r, [job[r] EXCEPT !.at = "save"])
  /\ UNCHANGED <<live, pane, born, file, gone, trouble>>

Save(r) ==
  /\ At(r, "save")
  /\ file' = names
  /\ Rest(r)
  /\ UNCHANGED <<live, pane, born, names, gone, trouble>>

SaveFails(r) ==
  /\ At(r, "save")
  /\ Trouble
  /\ Rest(r)
  /\ UNCHANGED <<live, pane, born, names, file, gone>>

\* Mistake: a name is shown for whatever has the session's name.
NamedAlike(n) == names[n].of > 0

\* customAgentDisplayName: for the session that was named, by its beginning.
Named(n) == There(n) /\ names[n].of = live[n]

Shown(n) == IF Named(n) THEN names[n].label ELSE "none"

---------------------------------------------------------------------------
\* A person at a terminal begins a session, ends one, starts or leaves Codex.
OutsideBegins(n) ==
  /\ Begins(n, "shell")
  /\ UNCHANGED <<names, file, job, gone, trouble>>

OutsideEnds(n) ==
  /\ There(n) /\ Dies(n)
  /\ UNCHANGED <<names, file, job, gone, trouble>>

Codex(n) ==
  /\ There(n)
  /\ pane' = [pane EXCEPT ![n] = IF @ = "codex" THEN "shell" ELSE "codex"]
  /\ UNCHANGED <<live, born, names, file, job, gone, trouble>>

\* The sessions stay.
Restart ==
  /\ Trouble
  /\ job' = [r \in Requests |-> Idle] /\ gone' = [r \in Requests |-> 0]
  /\ names' = file
  /\ UNCHANGED <<live, pane, born, file>>

---------------------------------------------------------------------------
Next ==
  \/ \E r \in Requests :
       \/ \E n \in Agents : \/ AskCreate(r, n) \/ AskResume(r, n) \/ AskStop(r, n)
                            \/ \E label \in Labels : AskRename(r, n, label)
       \/ \E n \in Scouts : AskScout(r, n)
       \/ \E n \in Services, what \in {"start", "shutdown", "restart"} : AskService(r, n, what)
       \/ Look(r) \/ New(r) \/ Wait(r) \/ GivesUp(r) \/ Type(r)
       \/ Kill(r) \/ KillFails(r) \/ Check(r) \/ Start(r) \/ Answer(r)
       \/ Resume(r) \/ Rename(r) \/ Save(r) \/ SaveFails(r)
  \/ \E n \in Tasks : RunAction(n)
  \/ \E n \in Agents \cup Services : OutsideBegins(n)
  \/ \E n \in Names : OutsideEnds(n) \/ Codex(n)
  \/ Restart

Spec == Init /\ [][Next]_vars

---------------------------------------------------------------------------
\* When a stop or a restart of a service is done, the session that ran when it
\* was asked for is gone, whatever other requests and people did meanwhile: it
\* is never taken for the new one (controlService).
OldIsGone ==
  \A r \in Requests : At(r, "done") /\ job[r].what \in {"shutdown", "restart"} =>
    gone[r] = 0 \/ live[job[r].name] # gone[r]

\* The name given to an agent never shows on the session that takes its place,
\* also when the session was replaced while it was being named or PaneFleet was
\* started again (docs/features.md and customAgentDisplayName).
NewIsUnnamed == [][\A n \in Names : live'[n] # live[n] => Shown(n)' = "none"]_vars

---------------------------------------------------------------------------
(* Statements of the documentation that the code does not always keep.       *)

\* docs/architecture.md: scout mode "caps concurrent idea scouts".
ScoutsAreCapped == Cardinality({n \in Scouts : There(n)}) <= MaxScouts

=============================================================================
