----------------------------- MODULE ServerProofs -----------------------------
(****************************************************************************)
(* What the server keeps, for every number of sessions, requests, changes,  *)
(* entries, archives, logins, peers, keys and callers: proofs about         *)
(* Sessions, Histories, AuditLog, NetworkMonitor and ObservationCache, the  *)
(* parameters of whose instances in MCServer are constants.  Each of them   *)
(* has an invariant of its own.                                             *)
(****************************************************************************)
EXTENDS MCServer, FiniteSetTheorems, FunctionTheorems, SequenceTheorems, NaturalsInduction, WellFoundedInduction, TLAPS

---------------------------------------------------------------------------
(* Sessions.                                                               *)

Names  == Terminals!Names
NameRecords == [label : Labels \cup {"none"}, of : Nat]
Jobs   == [at    : {"idle", "look", "new", "wait", "type", "kill", "check", "start", "done",
                    "resume", "rename", "save"},
           what  : {"none", "create", "scout", "stop", "start", "shutdown", "restart", "resume",
                    "rename"},
           name  : Names \cup {"none"}, seen : Nat, label : Labels \cup {"none"}]

SessionsTyped ==
  /\ live \in [Names -> Nat] /\ born \in Nat
  /\ names \in [Names -> NameRecords] /\ namesFile \in [Names -> NameRecords]
  /\ request \in [Requests -> Jobs] /\ gone \in [Requests -> Nat]

\* A number that is known is of a session that began; what was asked to go is not there
\* once it was ended, since sessions that begin have other numbers.
JobIsSound(r) ==
  LET j == request[r]
  IN /\ j.at # "idle" => j.name \in Names
     /\ j.seen <= born /\ gone[r] <= born
     /\ j.at \in {"check", "start", "done"} /\ j.what \in {"shutdown", "restart"} =>
          gone[r] = 0 \/ live[j.name] # gone[r]

SessionsInv ==
  /\ SessionsTyped
  /\ \A n \in Names : live[n] <= born /\ names[n].of <= born /\ namesFile[n].of <= born
  /\ \A r \in Requests : JobIsSound(r)

\* Sessions begin and end while a request rests where it is.
LEMMA OtherJobsAreSound ==
  ASSUME SessionsInv, NEW q \in Requests, request'[q] = request[q], gone'[q] = gone[q],
         born' \in {born, born + 1}, \A n \in Names : live'[n] \in {live[n], 0, born + 1}
  PROVE  JobIsSound(q)'
<1>1. /\ JobIsSound(q) /\ born \in Nat /\ live \in [Names -> Nat] /\ gone[q] \in Nat
      /\ request[q] \in Jobs /\ request[q].seen \in Nat
  BY DEF SessionsInv, SessionsTyped, Jobs
<1>2. gone[q] <= born' /\ request[q].seen <= born' /\ gone[q] # born + 1
  BY <1>1 DEF JobIsSound
<1>3. request[q].at # "idle" => request[q].name \in Names
  BY <1>1 DEF JobIsSound
<1>4. ASSUME request[q].at \in {"check", "start", "done"}, request[q].what \in {"shutdown", "restart"}
      PROVE  gone[q] = 0 \/ live'[request[q].name] # gone[q]
  <2>1. request[q].name \in Names
    BY <1>3, <1>4
  <2>2. live'[request[q].name] \in {live[request[q].name], 0, born + 1}
    BY <2>1
  <2> QED BY <1>1, <1>2, <1>4, <2>2 DEF JobIsSound
<1> QED BY <1>2, <1>3, <1>4 DEF JobIsSound

\* A request takes a step, and perhaps a session begins or ends.
LEMMA JobSteps ==
  ASSUME SessionsInv, NEW r \in Requests, NEW j \in Jobs, Terminals!Goto(r, j),
         j.at # "idle" => j.name \in Names, j.seen <= born,
         gone' = gone,
         j.at \in {"check", "start", "done"} /\ j.what \in {"shutdown", "restart"} =>
           gone[r] = 0 \/ live'[j.name] # gone[r],
         \/ UNCHANGED <<live, born>>
         \/ \E n \in Names : live' = [live EXCEPT ![n] = 0] /\ born' = born
         \/ \E n \in Names : live' = [live EXCEPT ![n] = born + 1] /\ born' = born + 1,
         UNCHANGED <<names, namesFile>>
  PROVE  SessionsInv'
<1>1. SessionsTyped /\ born \in Nat /\ live \in [Names -> Nat] /\ gone \in [Requests -> Nat]
      /\ request \in [Requests -> Jobs]
  BY DEF SessionsInv, SessionsTyped
<1>2. request' = [request EXCEPT ![r] = j]
  BY DEF Terminals!Goto
<1>3. /\ live' \in [Names -> Nat] /\ born' \in {born, born + 1}
      /\ \A n \in Names : live'[n] \in {live[n], 0, born + 1} /\ (live'[n] = born + 1 => live'[n] = live[n] \/ born' = born + 1)
  BY <1>1
<1>4. request' \in [Requests -> Jobs] /\ request'[r] = j /\ \A q \in Requests : q # r => request'[q] = request[q]
  BY <1>1, <1>2
<1>5. SessionsTyped'
  BY <1>1, <1>3, <1>4 DEF SessionsTyped
<1>6. \A n \in Names : live'[n] <= born' /\ names'[n].of <= born' /\ namesFile'[n].of <= born'
  <2> TAKE n \in Names
  <2>1. live[n] <= born /\ names[n].of <= born /\ namesFile[n].of <= born
    BY DEF SessionsInv
  <2>2. live[n] \in Nat /\ names[n].of \in Nat /\ namesFile[n].of \in Nat
    BY <1>1 DEF SessionsTyped, NameRecords
  <2> QED BY <1>1, <1>3, <2>1, <2>2
<1>7. \A q \in Requests : q # r => JobIsSound(q)'
  BY <1>3, <1>4, OtherJobsAreSound
<1>8. JobIsSound(r)'
  <2>1. gone[r] <= born /\ gone[r] \in Nat /\ j.seen \in Nat
    BY <1>1 DEF SessionsInv, JobIsSound, Jobs
  <2>2. gone[r] <= born' /\ j.seen <= born'
    BY <1>1, <1>3, <2>1
  <2> QED BY <1>4, <2>2 DEF JobIsSound
<1> QED BY <1>5, <1>6, <1>7, <1>8 DEF SessionsInv

LEMMA IdleIsAJob == Terminals!Idle \in Jobs /\ Terminals!Idle.at = "idle" /\ Terminals!Idle.seen = 0
BY DEF Terminals!Idle, Jobs

LEMMA JobFacts ==
  ASSUME SessionsInv, NEW r \in Requests
  PROVE  /\ request[r] \in Jobs /\ request[r].seen <= born /\ gone[r] <= born
         /\ request[r].at # "idle" => request[r].name \in Names
         /\ born \in Nat /\ gone[r] \in Nat /\ live \in [Names -> Nat]
         /\ \A n \in Names : live[n] <= born
BY DEF SessionsInv, SessionsTyped, JobIsSound

\* The request is over, or goes on with another step.
LEMMA RestingIsSound ==
  ASSUME SessionsInv, NEW r \in Requests, Terminals!Rest(r), UNCHANGED <<gone, names, namesFile>>,
         \/ UNCHANGED <<live, born>>
         \/ \E n \in Names : live' = [live EXCEPT ![n] = 0] /\ born' = born
  PROVE  SessionsInv'
<1>1. Terminals!Goto(r, Terminals!Idle)
  BY DEF Terminals!Rest
<1>2. Terminals!Idle.seen <= born
  BY IdleIsAJob, JobFacts
<1> QED BY <1>1, <1>2, IdleIsAJob, JobSteps

LEMMA MovingIsSound ==
  ASSUME SessionsInv, NEW r \in Requests, request[r].at # "idle",
         NEW at, at \in {"new", "wait", "check", "start", "done", "save"},
         Terminals!Goto(r, [request[r] EXCEPT !.at = at]), UNCHANGED <<gone, names, namesFile>>,
         at \in {"check", "start", "done"} /\ request[r].what \in {"shutdown", "restart"} =>
           gone[r] = 0 \/ live'[request[r].name] # gone[r],
         \/ UNCHANGED <<live, born>>
         \/ \E n \in Names : live' = [live EXCEPT ![n] = 0] /\ born' = born
         \/ \E n \in Names : live' = [live EXCEPT ![n] = born + 1] /\ born' = born + 1
  PROVE  SessionsInv'
<1> DEFINE j == [request[r] EXCEPT !.at = at]
<1>1. /\ j \in Jobs /\ j.at = at /\ j.what = request[r].what /\ j.name = request[r].name
      /\ j.seen = request[r].seen
  BY JobFacts DEF Jobs
<1>2. j.seen <= born /\ j.name \in Names
  BY <1>1, JobFacts
<1> HIDE DEF j
<1>3. Terminals!Goto(r, j)
  BY DEF j
<1> QED BY <1>1, <1>2, <1>3, JobSteps

\* A request begins.
LEMMA AsksIsSound ==
  ASSUME SessionsInv, NEW r \in Requests, NEW n \in Names, NEW what, NEW at,
         Terminals!Asks(r, what, n, at), UNCHANGED <<live, born, names, namesFile>>,
         what \in {"create", "scout", "stop", "start", "shutdown", "restart", "resume"},
         at \in {"look", "kill", "resume"} \/ (at = "check" /\ what = "start")
  PROVE  SessionsInv'
<1> DEFINE j == [Terminals!Idle EXCEPT !.at = at, !.what = what, !.name = n, !.seen = live[n]]
<1>1. request' = [request EXCEPT ![r] = j] /\ gone' = [gone EXCEPT ![r] = live[n]]
  BY DEF Terminals!Asks, Terminals!Goto
<1>2. live[n] \in Nat /\ live[n] <= born /\ born \in Nat
  BY JobFacts
<1>3. /\ j \in Jobs /\ j.at = at /\ j.what = what /\ j.name = n /\ j.seen = live[n]
  BY <1>2 DEF Jobs, Terminals!Idle
<1> HIDE DEF j
<1>4. request \in [Requests -> Jobs] /\ gone \in [Requests -> Nat]
  BY DEF SessionsInv, SessionsTyped
<1>5. SessionsTyped'
  BY <1>1, <1>2, <1>3, <1>4 DEF SessionsInv, SessionsTyped
<1>6. \A q \in Requests : q # r => request'[q] = request[q] /\ gone'[q] = gone[q]
  BY <1>1, <1>4
<1>7. \A q \in Requests : q # r => JobIsSound(q)'
  BY <1>6, OtherJobsAreSound
<1>8. JobIsSound(r)'
  <2>1. request'[r] = j /\ gone'[r] = live[n]
    BY <1>1, <1>4
  <2>2. ~(at \in {"check", "start", "done"} /\ what \in {"shutdown", "restart"})
    OBVIOUS
  <2> QED BY <1>2, <1>3, <2>1, <2>2 DEF JobIsSound
<1>9. \A m \in Names : live'[m] <= born' /\ names'[m].of <= born' /\ namesFile'[m].of <= born'
  BY DEF SessionsInv
<1> QED BY <1>5, <1>7, <1>8, <1>9 DEF SessionsInv

\* Others act at a terminal, or a program in a pane does.
LEMMA OutsideIsSound ==
  ASSUME SessionsInv, UNCHANGED <<request, gone, names, namesFile>>,
         \/ UNCHANGED <<live, born>>
         \/ \E n \in Names : live' = [live EXCEPT ![n] = 0] /\ born' = born
         \/ \E n \in Names : live' = [live EXCEPT ![n] = born + 1] /\ born' = born + 1
  PROVE  SessionsInv'
<1>1. SessionsTyped /\ born \in Nat /\ live \in [Names -> Nat]
  BY DEF SessionsInv, SessionsTyped
<1>2. /\ live' \in [Names -> Nat] /\ born' \in {born, born + 1}
      /\ \A n \in Names : live'[n] \in {live[n], 0, born + 1} /\ (live'[n] = born + 1 => live'[n] = live[n] \/ born' = born + 1)
  BY <1>1
<1>3. SessionsTyped'
  BY <1>1, <1>2 DEF SessionsTyped
<1>4. \A n \in Names : live'[n] <= born' /\ names'[n].of <= born' /\ namesFile'[n].of <= born'
  <2> TAKE n \in Names
  <2>1. live[n] <= born /\ names[n].of <= born /\ namesFile[n].of <= born
    BY DEF SessionsInv
  <2>2. live[n] \in Nat /\ names[n].of \in Nat /\ namesFile[n].of \in Nat
    BY <1>1 DEF SessionsTyped, NameRecords
  <2> QED BY <1>1, <1>2, <2>1, <2>2
<1>5. \A q \in Requests : JobIsSound(q)'
  BY <1>2, OtherJobsAreSound
<1> QED BY <1>3, <1>4, <1>5 DEF SessionsInv

\* A tmux session begins, or ends, under its name.
LEMMA BeginsFacts ==
  ASSUME SessionsInv, NEW n \in Names, NEW what, Terminals!Begins(n, what)
  PROVE  /\ live' = [live EXCEPT ![n] = born + 1] /\ born' = born + 1
         /\ live'[n] = born + 1
BY JobFacts DEF Terminals!Begins, SessionsInv, SessionsTyped

LEMMA KillStep ==
  ASSUME SessionsInv, NEW r \in Requests, Terminals!Kill(r)
  PROVE  SessionsInv'
<1> DEFINE n == request[r].name
<1>1. /\ request[r].at = "kill" /\ Terminals!Killed(r)
      /\ live' = [live EXCEPT ![n] = 0] /\ UNCHANGED <<born, gone, names, namesFile>>
  BY DEF Terminals!Kill, Terminals!At, Terminals!Dies
<1>2. n \in Names /\ live'[n] = 0 /\ gone[r] \in Nat
  BY <1>1, JobFacts
<1>3. \/ Terminals!Rest(r)
      \/ Terminals!Goto(r, [request[r] EXCEPT !.at = "check"])
      \/ Terminals!Goto(r, [request[r] EXCEPT !.at = "done"])
  BY <1>1 DEF Terminals!Killed
<1>4. gone[r] = 0 \/ live'[n] # gone[r]
  BY <1>2
<1>5. CASE Terminals!Rest(r)
  BY <1>1, <1>2, <1>5, RestingIsSound
<1>6. CASE Terminals!Goto(r, [request[r] EXCEPT !.at = "check"])
  BY <1>1, <1>2, <1>4, <1>6, MovingIsSound
<1>7. CASE Terminals!Goto(r, [request[r] EXCEPT !.at = "done"])
  BY <1>1, <1>2, <1>4, <1>7, MovingIsSound
<1> QED BY <1>3, <1>5, <1>6, <1>7

\* A service's session is there already, or begins now, under a new number.
LEMMA CheckStep ==
  ASSUME SessionsInv, NEW r \in Requests, Terminals!Check(r)
  PROVE  SessionsInv'
<1>1. /\ request[r].at = "check" /\ UNCHANGED <<live, born, gone, names, namesFile>>
      /\ \E at \in {"done", "start"} : Terminals!Goto(r, [request[r] EXCEPT !.at = at])
  BY DEF Terminals!Check, Terminals!At
<1>2. request[r].what \in {"shutdown", "restart"} => gone[r] = 0 \/ live'[request[r].name] # gone[r]
  BY <1>1 DEF SessionsInv, JobIsSound
<1> QED BY <1>1, <1>2, MovingIsSound

LEMMA StartStep ==
  ASSUME SessionsInv, NEW r \in Requests, Terminals!Start(r)
  PROVE  SessionsInv'
<1> DEFINE n == request[r].name
<1>1. request[r].at = "start" /\ UNCHANGED <<gone, names, namesFile>>
  BY DEF Terminals!Start, Terminals!At
<1>2. n \in Names /\ gone[r] <= born /\ gone[r] \in Nat /\ born \in Nat
  BY <1>1, JobFacts
<1>3. CASE Terminals!Begins(n, "shell") /\ Terminals!Goto(r, [request[r] EXCEPT !.at = "done"])
  <2>1. /\ live' = [live EXCEPT ![n] = born + 1] /\ born' = born + 1 /\ live'[n] = born + 1
    BY <1>2, <1>3, BeginsFacts
  <2>2. live'[n] # gone[r]
    BY <1>2, <2>1
  <2> QED BY <1>1, <1>2, <1>3, <2>1, <2>2, MovingIsSound
<1>4. CASE Terminals!Rest(r) /\ UNCHANGED <<live, pane, born>>
  BY <1>1, <1>4, RestingIsSound
<1> QED BY <1>3, <1>4 DEF Terminals!Start

LEMMA NewStep ==
  ASSUME SessionsInv, NEW r \in Requests, Terminals!New(r)
  PROVE  SessionsInv'
<1> DEFINE n == request[r].name
<1>1. request[r].at = "new" /\ UNCHANGED <<gone, names, namesFile>>
  BY DEF Terminals!New, Terminals!At
<1>2. n \in Names
  BY <1>1, JobFacts
<1>3. CASE Terminals!Begins(n, "codex") /\ Terminals!Goto(r, [request[r] EXCEPT !.at = "wait"])
  <2>1. live' = [live EXCEPT ![n] = born + 1] /\ born' = born + 1
    BY <1>2, <1>3, BeginsFacts
  <2> QED BY <1>1, <1>2, <1>3, <2>1, MovingIsSound
<1>4. CASE Terminals!Rest(r) /\ UNCHANGED <<live, pane, born>>
  BY <1>1, <1>4, RestingIsSound
<1> QED BY <1>3, <1>4 DEF Terminals!New

LEMMA WaitStep ==
  ASSUME SessionsInv, NEW r \in Requests, Terminals!Wait(r)
  PROVE  SessionsInv'
<1> DEFINE j == [request[r] EXCEPT !.at = "type", !.seen = live[request[r].name]]
<1>1. /\ request[r].at = "wait" /\ UNCHANGED <<live, born, gone, names, namesFile>>
      /\ Terminals!Rest(r) \/ Terminals!Goto(r, j)
  BY DEF Terminals!Wait, Terminals!At
<1>2. request[r].name \in Names /\ live[request[r].name] \in Nat /\ live[request[r].name] <= born
  BY <1>1, JobFacts
<1>3. j \in Jobs /\ j.at = "type" /\ j.seen <= born /\ j.name \in Names
  BY <1>2, JobFacts DEF Jobs
<1> HIDE DEF j
<1>4. CASE Terminals!Rest(r)
  BY <1>1, <1>4, RestingIsSound
<1>5. CASE Terminals!Goto(r, j)
  BY <1>1, <1>3, <1>5, JobSteps
<1> QED BY <1>1, <1>4, <1>5

---------------------------------------------------------------------------
(* Names of sessions.                                                      *)

LEMMA AskRenameStep ==
  ASSUME SessionsInv, NEW r \in Requests, NEW n \in Names, NEW label \in Labels,
         Terminals!AskRename(r, n, label)
  PROVE  SessionsInv'
<1> DEFINE j == [Terminals!Idle EXCEPT !.at = "rename", !.what = "rename", !.name = n, !.seen = live[n],
                                       !.label = label]
<1>1. UNCHANGED <<live, born, gone, names, namesFile>> /\ Terminals!Goto(r, j)
  BY DEF Terminals!AskRename
<1>2. live[n] \in Nat /\ live[n] <= born
  BY JobFacts
<1>3. j \in Jobs /\ j.at = "rename" /\ j.seen <= born /\ j.name \in Names
  BY <1>2 DEF Jobs, Terminals!Idle
<1> HIDE DEF j
<1> QED BY <1>1, <1>3, JobSteps

LEMMA RenameStep ==
  ASSUME SessionsInv, NEW r \in Requests, Terminals!Rename(r)
  PROVE  SessionsInv'
<1> DEFINE j == [request[r] EXCEPT !.at = "save"]
           new == [label |-> request[r].label, of |-> request[r].seen]
<1>1. /\ request[r].at = "rename" /\ UNCHANGED <<live, born, gone, namesFile>>
      /\ names' = [names EXCEPT ![request[r].name] = new] /\ request' = [request EXCEPT ![r] = j]
  BY DEF Terminals!Rename, Terminals!At, Terminals!Goto
<1>2. /\ request[r].name \in Names /\ new \in NameRecords /\ new.of <= born
      /\ j \in Jobs /\ j.at = "save" /\ j.name = request[r].name /\ j.seen = request[r].seen
  BY <1>1, JobFacts DEF Jobs, NameRecords
<1> HIDE DEF j, new
<1>3. SessionsTyped'
  BY <1>1, <1>2 DEF SessionsInv, SessionsTyped
<1>4. \A m \in Names : live'[m] <= born' /\ names'[m].of <= born' /\ namesFile'[m].of <= born'
  BY <1>1, <1>2 DEF SessionsInv, SessionsTyped
<1>5. request \in [Requests -> Jobs]
  BY DEF SessionsInv, SessionsTyped
<1>6. \A q \in Requests : q # r => JobIsSound(q)'
  BY <1>1, <1>5, OtherJobsAreSound
<1>7. JobIsSound(r)'
  <2>1. request'[r] = j /\ gone'[r] <= born' /\ j.seen <= born'
    BY <1>1, <1>2, <1>5, JobFacts
  <2> QED BY <1>2, <2>1 DEF JobIsSound
<1> QED BY <1>3, <1>4, <1>6, <1>7 DEF SessionsInv

LEMMA SaveStep ==
  ASSUME SessionsInv, NEW r \in Requests, Terminals!Save(r)
  PROVE  SessionsInv'
<1>1. /\ request' = [request EXCEPT ![r] = Terminals!Idle] /\ namesFile' = names
      /\ UNCHANGED <<live, born, gone, names>>
  BY DEF Terminals!Save, Terminals!Rest, Terminals!Goto
<1>2. SessionsTyped'
  BY <1>1, IdleIsAJob DEF SessionsInv, SessionsTyped
<1>3. \A m \in Names : live'[m] <= born' /\ names'[m].of <= born' /\ namesFile'[m].of <= born'
  BY <1>1 DEF SessionsInv
<1>4. request \in [Requests -> Jobs]
  BY DEF SessionsInv, SessionsTyped
<1>5. \A q \in Requests : q # r => JobIsSound(q)'
  BY <1>1, <1>4, OtherJobsAreSound
<1>6. JobIsSound(r)'
  BY <1>1, <1>4, IdleIsAJob, JobFacts DEF JobIsSound
<1> QED BY <1>2, <1>3, <1>5, <1>6 DEF SessionsInv

\* Requests end with the process; the sessions, and the names that were saved, stay.
LEMMA SessionsRestartStep ==
  ASSUME SessionsInv, Terminals!Restart
  PROVE  SessionsInv'
<1>1. /\ request' = [r \in Requests |-> Terminals!Idle] /\ gone' = [r \in Requests |-> 0]
      /\ names' = namesFile /\ UNCHANGED <<live, born, namesFile>>
  BY DEF Terminals!Restart
<1>2. SessionsTyped'
  BY <1>1, IdleIsAJob DEF SessionsInv, SessionsTyped
<1>3. \A m \in Names : live'[m] <= born' /\ names'[m].of <= born' /\ namesFile'[m].of <= born'
  BY <1>1 DEF SessionsInv
<1>4. \A r \in Requests : JobIsSound(r)'
  <2> TAKE r \in Requests
  <2>1. request'[r] = Terminals!Idle /\ gone'[r] = 0 /\ born' \in Nat
    BY <1>1, JobFacts
  <2> QED BY <2>1, IdleIsAJob DEF JobIsSound
<1> QED BY <1>2, <1>3, <1>4 DEF SessionsInv

---------------------------------------------------------------------------
(* Every step.                                                             *)

LEMMA NamesOfKinds == Agents \subseteq Names /\ Scouts \subseteq Names /\ Services \subseteq Names /\ Tasks \subseteq Names
BY DEF Names, Terminals!Names

LEMMA AskSteps ==
  ASSUME SessionsInv, NEW r \in Requests,
         \/ \E n \in Agents : \/ Terminals!AskCreate(r, n) \/ Terminals!AskResume(r, n)
                              \/ Terminals!AskStop(r, n)
                              \/ \E label \in Labels : Terminals!AskRename(r, n, label)
         \/ \E n \in Scouts : Terminals!AskScout(r, n)
         \/ \E n \in Services, what \in {"start", "shutdown", "restart"} : Terminals!AskService(r, n, what)
  PROVE  SessionsInv'
<1>1. ASSUME NEW n \in Agents, Terminals!AskCreate(r, n) PROVE SessionsInv'
  BY <1>1, NamesOfKinds, AsksIsSound DEF Terminals!AskCreate
<1>2. ASSUME NEW n \in Agents, Terminals!AskResume(r, n) PROVE SessionsInv'
  BY <1>2, NamesOfKinds, AsksIsSound DEF Terminals!AskResume
<1>3. ASSUME NEW n \in Agents, Terminals!AskStop(r, n) PROVE SessionsInv'
  BY <1>3, NamesOfKinds, AsksIsSound DEF Terminals!AskStop
<1>4. ASSUME NEW n \in Agents, NEW label \in Labels, Terminals!AskRename(r, n, label) PROVE SessionsInv'
  BY <1>4, NamesOfKinds, AskRenameStep
<1>5. ASSUME NEW n \in Scouts, Terminals!AskScout(r, n) PROVE SessionsInv'
  <2>1. /\ UNCHANGED <<live, pane, born, names, namesFile>>
        /\ UNCHANGED <<request, gone>> \/ Terminals!Asks(r, "scout", n, "look")
    BY <1>5 DEF Terminals!AskScout
  <2>2. CASE UNCHANGED <<request, gone>>
    BY <2>1, <2>2, OutsideIsSound
  <2>3. CASE Terminals!Asks(r, "scout", n, "look")
    BY <2>1, <2>3, NamesOfKinds, AsksIsSound
  <2> QED BY <2>1, <2>2, <2>3
<1>6. ASSUME NEW n \in Services, NEW what \in {"start", "shutdown", "restart"}, Terminals!AskService(r, n, what)
      PROVE  SessionsInv'
  <2> DEFINE at == IF what = "start" THEN "check" ELSE "kill"
  <2>1. /\ UNCHANGED <<live, pane, born, names, namesFile>> /\ Terminals!Asks(r, what, n, at)
        /\ at = "kill" \/ (at = "check" /\ what = "start")
    BY <1>6 DEF Terminals!AskService
  <2> HIDE DEF at
  <2> QED BY <2>1, NamesOfKinds, AsksIsSound
<1> QED BY <1>1, <1>2, <1>3, <1>4, <1>5, <1>6

LEMMA LookStep ==
  ASSUME SessionsInv, NEW r \in Requests, Terminals!Look(r)
  PROVE  SessionsInv'
<1>1. /\ request[r].at = "look" /\ UNCHANGED <<live, born, gone, names, namesFile>>
      /\ Terminals!Rest(r) \/ Terminals!Goto(r, [request[r] EXCEPT !.at = "new"])
  BY DEF Terminals!Look, Terminals!At
<1>2. CASE Terminals!Rest(r)
  BY <1>1, <1>2, RestingIsSound
<1>3. CASE Terminals!Goto(r, [request[r] EXCEPT !.at = "new"])
  BY <1>1, <1>3, MovingIsSound
<1> QED BY <1>1, <1>2, <1>3

\* Steps that end a request, however it went.
LEMMA EndSteps ==
  ASSUME SessionsInv, NEW r \in Requests,
         \/ Terminals!GivesUp(r) \/ Terminals!Type(r) \/ Terminals!KillFails(r) \/ Terminals!Answer(r)
         \/ Terminals!Resume(r) \/ Terminals!SaveFails(r)
  PROVE  SessionsInv'
<1>1. Terminals!Rest(r) /\ UNCHANGED <<live, born, gone, names, namesFile>>
  BY DEF Terminals!GivesUp, Terminals!Type, Terminals!KillFails, Terminals!StopFailed, Terminals!Answer,
         Terminals!Resume, Terminals!SaveFails
<1> QED BY <1>1, RestingIsSound

\* Steps that no request takes.
LEMMA OutsideSteps ==
  ASSUME SessionsInv,
         \/ \E n \in Tasks : Terminals!RunAction(n)
         \/ \E n \in Agents \cup Services : Terminals!OutsideBegins(n)
         \/ \E n \in Terminals!Names : Terminals!OutsideEnds(n) \/ Terminals!Codex(n)
  PROVE  SessionsInv'
<1>1. ASSUME NEW n \in Names, Terminals!RunAction(n) \/ Terminals!OutsideBegins(n) PROVE SessionsInv'
  <2>1. Terminals!Begins(n, "shell") /\ UNCHANGED <<request, gone, names, namesFile>>
    BY <1>1 DEF Terminals!RunAction, Terminals!OutsideBegins
  <2>2. live' = [live EXCEPT ![n] = born + 1] /\ born' = born + 1
    BY <2>1 DEF Terminals!Begins
  <2> QED BY <2>1, <2>2, OutsideIsSound
<1>2. ASSUME NEW n \in Names, Terminals!OutsideEnds(n) PROVE SessionsInv'
  BY <1>2, OutsideIsSound DEF Terminals!OutsideEnds, Terminals!Dies
<1>3. ASSUME NEW n \in Names, Terminals!Codex(n) PROVE SessionsInv'
  BY <1>3, OutsideIsSound DEF Terminals!Codex
<1>4. CASE \E n \in Tasks : Terminals!RunAction(n)
  BY <1>1, <1>4, NamesOfKinds
<1>5. CASE \E n \in Agents \cup Services : Terminals!OutsideBegins(n)
  BY <1>1, <1>5, NamesOfKinds
<1>6. CASE \E n \in Terminals!Names : Terminals!OutsideEnds(n) \/ Terminals!Codex(n)
  BY <1>2, <1>3, <1>6 DEF Names
<1> QED BY <1>4, <1>5, <1>6

LEMMA SessionsStep ==
  ASSUME SessionsInv, Terminals!Next
  PROVE  SessionsInv'
<1>1. \/ \E r \in Requests :
           \/ \E n \in Agents : \/ Terminals!AskCreate(r, n) \/ Terminals!AskResume(r, n)
                                \/ Terminals!AskStop(r, n)
                                \/ \E label \in Labels : Terminals!AskRename(r, n, label)
           \/ \E n \in Scouts : Terminals!AskScout(r, n)
           \/ \E n \in Services, what \in {"start", "shutdown", "restart"} : Terminals!AskService(r, n, what)
      \/ \E r \in Requests : \/ Terminals!Look(r) \/ Terminals!New(r) \/ Terminals!Wait(r)
                             \/ Terminals!Kill(r) \/ Terminals!Check(r) \/ Terminals!Start(r)
                             \/ Terminals!Rename(r) \/ Terminals!Save(r)
      \/ \E r \in Requests : \/ Terminals!GivesUp(r) \/ Terminals!Type(r) \/ Terminals!KillFails(r)
                             \/ Terminals!Answer(r) \/ Terminals!Resume(r) \/ Terminals!SaveFails(r)
      \/ \E n \in Tasks : Terminals!RunAction(n)
      \/ \E n \in Agents \cup Services : Terminals!OutsideBegins(n)
      \/ \E n \in Terminals!Names : Terminals!OutsideEnds(n) \/ Terminals!Codex(n)
      \/ Terminals!Restart
  BY DEF Terminals!Next
<1> QED BY <1>1, AskSteps, LookStep, NewStep, WaitStep, KillStep, CheckStep, StartStep, RenameStep, SaveStep,
           EndSteps, OutsideSteps, SessionsRestartStep

LEMMA SessionsBegin == Terminals!Init => SessionsInv
<1> SUFFICES ASSUME Terminals!Init PROVE SessionsInv
  OBVIOUS
<1>1. /\ live = [n \in Names |-> 0] /\ born = 0 /\ names = Terminals!Unnamed /\ namesFile = Terminals!Unnamed
      /\ request = [r \in Requests |-> Terminals!Idle] /\ gone = [r \in Requests |-> 0]
  BY DEF Terminals!Init, Names
<1>2. Terminals!Unnamed \in [Names -> NameRecords] /\ \A n \in Names : Terminals!Unnamed[n].of = 0
  BY DEF Terminals!Unnamed, Names, NameRecords
<1>3. SessionsTyped
  BY <1>1, <1>2, IdleIsAJob DEF SessionsTyped
<1>4. \A r \in Requests : JobIsSound(r)
  BY <1>1, IdleIsAJob DEF JobIsSound
<1> QED BY <1>1, <1>2, <1>3, <1>4 DEF SessionsInv

\* Every session that is known began, and what a stop or a restart has ended is not there again.
THEOREM SessionsInvariant == Terminals!Spec => []SessionsInv
<1>1. SessionsInv /\ [Terminals!Next]_(Terminals!vars) => SessionsInv'
  <2> SUFFICES ASSUME SessionsInv, [Terminals!Next]_(Terminals!vars) PROVE SessionsInv'
    OBVIOUS
  <2>1. CASE Terminals!Next
    BY <2>1, SessionsStep
  <2>2. CASE UNCHANGED Terminals!vars
    BY <2>2, OutsideIsSound DEF Terminals!vars
  <2> QED BY <2>1, <2>2
<1> QED BY <1>1, SessionsBegin, PTL DEF Terminals!Spec

\* When a stop or a restart of a service is done, the session that ran when it was asked for is
\* gone, for any number of requests, whatever others did meanwhile (controlService).
THEOREM OldIsGoneHolds == Terminals!Spec => []OldIsGone
<1>1. SessionsInv => OldIsGone
  BY DEF SessionsInv, JobIsSound, OldIsGone, Terminals!OldIsGone, Terminals!At
<1> QED BY <1>1, SessionsInvariant, PTL

---------------------------------------------------------------------------
(* Names of new sessions.                                                  *)

\* The sessions of some names are other ones.
LEMMA LiveSteps ==
  ASSUME Terminals!Next
  PROVE  \/ live' = live
         \/ /\ names' = names
            /\ \/ \E n : live' = [live EXCEPT ![n] = 0]
               \/ \E n : live' = [live EXCEPT ![n] = born + 1]
<1>1. ASSUME NEW n, NEW what, Terminals!Begins(n, what)
      PROVE  live' = [live EXCEPT ![n] = born + 1]
  BY <1>1 DEF Terminals!Begins
<1>2. ASSUME NEW r \in Requests, Terminals!New(r) \/ Terminals!Start(r)
      PROVE  names' = names /\ (live' = live \/ \E n : live' = [live EXCEPT ![n] = born + 1])
  BY <1>1, <1>2 DEF Terminals!New, Terminals!Start
<1>3. ASSUME NEW r \in Requests, Terminals!Kill(r)
      PROVE  names' = names /\ \E n : live' = [live EXCEPT ![n] = 0]
  BY <1>3 DEF Terminals!Kill, Terminals!Dies
<1>4. ASSUME NEW n, Terminals!RunAction(n) \/ Terminals!OutsideBegins(n)
      PROVE  names' = names /\ \E m : live' = [live EXCEPT ![m] = born + 1]
  BY <1>1, <1>4 DEF Terminals!RunAction, Terminals!OutsideBegins
<1>5. ASSUME NEW n, Terminals!OutsideEnds(n)
      PROVE  names' = names /\ \E m : live' = [live EXCEPT ![m] = 0]
  BY <1>5 DEF Terminals!OutsideEnds, Terminals!Dies
<1>6. ASSUME NEW r \in Requests,
             \/ \E n \in Agents : \/ Terminals!AskCreate(r, n) \/ Terminals!AskResume(r, n)
                                  \/ Terminals!AskStop(r, n)
                                  \/ \E label \in Labels : Terminals!AskRename(r, n, label)
             \/ \E n \in Scouts : Terminals!AskScout(r, n)
             \/ \E n \in Services, what \in {"start", "shutdown", "restart"} : Terminals!AskService(r, n, what)
      PROVE  live' = live
  BY <1>6 DEF Terminals!AskCreate, Terminals!AskResume, Terminals!AskStop, Terminals!AskRename,
              Terminals!AskScout, Terminals!AskService
<1>7. ASSUME NEW r \in Requests,
             \/ Terminals!Look(r) \/ Terminals!Wait(r) \/ Terminals!GivesUp(r) \/ Terminals!Type(r)
             \/ Terminals!KillFails(r) \/ Terminals!Check(r) \/ Terminals!Answer(r)
             \/ Terminals!Resume(r) \/ Terminals!Rename(r) \/ Terminals!Save(r) \/ Terminals!SaveFails(r)
      PROVE  live' = live
  BY <1>7 DEF Terminals!Look, Terminals!Wait, Terminals!GivesUp, Terminals!Type, Terminals!KillFails,
              Terminals!Check, Terminals!Answer, Terminals!Resume, Terminals!Rename, Terminals!Save,
              Terminals!SaveFails
<1>8. ASSUME (\E n \in Terminals!Names : Terminals!Codex(n)) \/ Terminals!Restart
      PROVE  live' = live
  BY <1>8 DEF Terminals!Codex, Terminals!Restart
<1> QED BY <1>2, <1>3, <1>4, <1>5, <1>6, <1>7, <1>8 DEF Terminals!Next

\* The name given to an agent never shows on the session that takes its place: a name is of a
\* session that began earlier, and the new one's number is higher (customAgentDisplayName).
THEOREM NewIsUnnamedHolds == Terminals!Spec => NewIsUnnamed
<1>1. SessionsInv /\ [Terminals!Next]_(Terminals!vars) =>
        [\A n \in Terminals!Names : live'[n] # live[n] => Terminals!Shown(n)' = "none"]_(Terminals!vars)
  <2> SUFFICES ASSUME SessionsInv, Terminals!Next, NEW n \in Names, live'[n] # live[n]
               PROVE  Terminals!Shown(n)' = "none"
    BY DEF Names
  <2>1. /\ live \in [Names -> Nat] /\ born \in Nat /\ names[n].of \in Nat /\ names[n].of <= born
        /\ names \in [Names -> NameRecords]
    BY DEF SessionsInv, SessionsTyped, NameRecords
  <2>2. names' = names /\ live'[n] \in {0, born + 1}
    BY <2>1, LiveSteps
  <2>3. ~(live'[n] > 0 /\ names'[n].of = live'[n])
    BY <2>1, <2>2
  <2> QED BY <2>3 DEF Terminals!Shown, Terminals!Named, Terminals!There
<1> QED BY <1>1, SessionsInvariant, PTL DEF Terminals!Spec, NewIsUnnamed, Terminals!NewIsUnnamed

---------------------------------------------------------------------------
(* Histories.                                                              *)

Stores == [memory : Nat, disk : Nat]
Calls  == {Samples!No, Samples!About} \cup {Samples!Holds(n) : n \in Nat}

HistoriesTyped ==
  /\ samples \in Stores /\ talks \in Stores /\ writing \in Calls /\ saving \in Calls
  /\ dirty \in BOOLEAN /\ timer \in BOOLEAN /\ due \in BOOLEAN /\ again \in BOOLEAN /\ missed \in BOOLEAN

\* A write takes what memory has when it begins; what changed since is marked.
SamplesAreSound ==
  /\ samples.memory # samples.disk =>
       dirty \/ writing = Samples!About \/ writing = Samples!Holds(samples.memory)
  /\ dirty => writing # Samples!No \/ timer \/ recorded # {} \/ left
  /\ writing.at = "writes" /\ writing.value # samples.memory => dirty

TalksAreSound ==
  /\ talks.memory # talks.disk =>
       \/ saving = Samples!About \/ saving = Samples!Holds(talks.memory)
       \/ again /\ saving # Samples!No
       \/ missed
  /\ saving.at = "writes" /\ saving.value # talks.memory => again

HistoriesInv == HistoriesTyped /\ (Samples!Runs => SamplesAreSound /\ TalksAreSound)

LEMMA CallFacts ==
  /\ Samples!No.at = "no" /\ Samples!About.at = "about" /\ Samples!No # Samples!About
  /\ \A n : /\ Samples!Holds(n).at = "writes" /\ Samples!Holds(n).value = n
            /\ Samples!Holds(n) # Samples!No /\ Samples!Holds(n) # Samples!About
  /\ \A c \in Calls : c.at = "writes" => c.value \in Nat /\ c = Samples!Holds(c.value)
BY DEF Samples!No, Samples!About, Samples!Holds, Calls

LEMMA StoreFacts ==
  ASSUME NEW s \in Stores, NEW n \in Nat
  PROVE  /\ s.memory \in Nat /\ s.disk \in Nat
         /\ [s EXCEPT !.memory = n] \in Stores /\ [s EXCEPT !.memory = n].memory = n
         /\ [s EXCEPT !.memory = n].disk = s.disk
         /\ [s EXCEPT !.disk = n] \in Stores /\ [s EXCEPT !.disk = n].disk = n
         /\ [s EXCEPT !.disk = n].memory = s.memory
         /\ Samples!Stored(n) \in Stores /\ Samples!Stored(n).memory = n /\ Samples!Stored(n).disk = n
BY DEF Stores, Samples!Stored

\* saveAgentSamples keeps the mark, sets the timer or begins a write.
LEMMA SaveFacts ==
  ASSUME NEW c \in BOOLEAN, NEW t \in BOOLEAN, Samples!Save(c, t), dirty \in BOOLEAN, due \in BOOLEAN
  PROVE  /\ timer' \in BOOLEAN /\ dirty' \in BOOLEAN
         /\ \/ dirty' = c /\ writing' = writing /\ (c /\ writing = Samples!No => timer')
            \/ c /\ ~dirty' /\ writing = Samples!No /\ writing' = Samples!About
BY DEF Samples!Save

\* The interactions are left alone, and PaneFleet runs on or stops.
LEMMA SampleStep ==
  ASSUME HistoriesInv, UNCHANGED <<talks, again, saving, missed>>,
         Samples!Runs' => Samples!Runs,
         samples' \in Stores, writing' \in Calls, dirty' \in BOOLEAN, timer' \in BOOLEAN, due' \in BOOLEAN,
         Samples!Runs' => SamplesAreSound'
  PROVE  HistoriesInv'
BY DEF HistoriesInv, HistoriesTyped, TalksAreSound

LEMMA TalkStep ==
  ASSUME HistoriesInv, UNCHANGED <<samples, dirty, due, timer, writing, recorded, left, stopping>>,
         talks' \in Stores, saving' \in Calls, again' \in BOOLEAN, missed' \in BOOLEAN,
         Samples!Runs => TalksAreSound'
  PROVE  HistoriesInv'
BY DEF HistoriesInv, HistoriesTyped, SamplesAreSound, Samples!Runs

LEMMA RecordStep ==
  ASSUME HistoriesInv, NEW q \in Snapshots, Samples!Record(q)
  PROVE  HistoriesInv'
<1>1. /\ samples' = [samples EXCEPT !.memory = samples.memory + 1] /\ dirty' = TRUE
      /\ recorded' = recorded \cup {q}
      /\ UNCHANGED <<due, timer, writing, left, stopping, talks, again, saving, missed>>
  BY DEF Samples!Record, Samples!talkVars
<1>2. samples \in Stores /\ samples.memory + 1 \in Nat
  BY DEF HistoriesInv, HistoriesTyped, Stores
<1>3. samples' \in Stores
  BY <1>1, <1>2, StoreFacts
<1>4. SamplesAreSound'
  BY <1>1 DEF SamplesAreSound
<1> QED BY <1>1, <1>3, <1>4, SampleStep DEF HistoriesInv, HistoriesTyped, Samples!Runs

LEMMA SnapshotSavesStep ==
  ASSUME HistoriesInv, NEW q \in Snapshots, Samples!SnapshotSaves(q)
  PROVE  HistoriesInv'
<1>1. /\ Samples!Runs /\ left' = FALSE
      /\ UNCHANGED <<due, stopping, talks, again, saving, missed>>
  BY DEF Samples!SnapshotSaves, Samples!talkVars
<1>2. PICK pruned \in BOOLEAN : Samples!Prunes(pruned) /\ Samples!Save(dirty \/ pruned, timer)
  BY DEF Samples!SnapshotSaves
<1>3. HistoriesTyped /\ SamplesAreSound
  BY <1>1 DEF HistoriesInv
<1>4. samples' \in Stores /\ samples'.disk = samples.disk /\ (~pruned => samples' = samples)
  <2>1. samples \in Stores /\ samples.memory + 1 \in Nat
    BY <1>3 DEF HistoriesTyped, Stores
  <2>2. CASE pruned
    <3>1. samples' = [samples EXCEPT !.memory = samples.memory + 1]
      BY <1>2, <2>2 DEF Samples!Prunes
    <3> QED BY <2>1, <2>2, <3>1, StoreFacts
  <2>3. CASE ~pruned
    BY <1>2, <2>1, <2>3 DEF Samples!Prunes
  <2> QED BY <2>2, <2>3
<1>5. /\ timer' \in BOOLEAN /\ dirty' \in BOOLEAN
      /\ \/ dirty' = (dirty \/ pruned) /\ writing' = writing /\ ((dirty \/ pruned) /\ writing = Samples!No => timer')
         \/ ~dirty' /\ writing = Samples!No /\ writing' = Samples!About
  <2>1. dirty \in BOOLEAN /\ due \in BOOLEAN /\ timer \in BOOLEAN /\ (dirty \/ pruned) \in BOOLEAN
    BY <1>3 DEF HistoriesTyped
  <2> QED BY <1>2, <2>1, SaveFacts
<1>6. writing' \in Calls
  BY <1>3, <1>5 DEF HistoriesTyped, Calls
<1>7. SamplesAreSound'
  <2>1. CASE dirty' = (dirty \/ pruned) /\ writing' = writing /\ ((dirty \/ pruned) /\ writing = Samples!No => timer')
    BY <1>3, <1>4, <2>1 DEF SamplesAreSound
  <2>2. CASE ~dirty' /\ writing = Samples!No /\ writing' = Samples!About
    BY <2>2, CallFacts DEF SamplesAreSound
  <2> QED BY <1>5, <2>1, <2>2
<1> QED BY <1>1, <1>3, <1>4, <1>5, <1>6, <1>7, SampleStep DEF HistoriesTyped, Samples!Runs

LEMMA TimerFiresStep ==
  ASSUME HistoriesInv, Samples!TimerFires
  PROVE  HistoriesInv'
<1>1. /\ Samples!Runs /\ Samples!Save(dirty, FALSE)
      /\ UNCHANGED <<samples, due, recorded, left, stopping, talks, again, saving, missed>>
  BY DEF Samples!TimerFires, Samples!talkVars
<1>2. HistoriesTyped /\ SamplesAreSound
  BY <1>1 DEF HistoriesInv
<1>3. /\ timer' \in BOOLEAN /\ dirty' \in BOOLEAN
      /\ \/ dirty' = dirty /\ writing' = writing /\ (dirty /\ writing = Samples!No => timer')
         \/ ~dirty' /\ writing = Samples!No /\ writing' = Samples!About
  BY <1>1, <1>2, SaveFacts DEF HistoriesTyped
<1>4. writing' \in Calls
  BY <1>2, <1>3 DEF HistoriesTyped, Calls
<1>5. SamplesAreSound'
  <2>1. CASE dirty' = dirty /\ writing' = writing /\ (dirty /\ writing = Samples!No => timer')
    BY <1>1, <1>2, <2>1 DEF SamplesAreSound
  <2>2. CASE ~dirty' /\ writing = Samples!No /\ writing' = Samples!About
    BY <2>2, CallFacts DEF SamplesAreSound
  <2> QED BY <1>3, <2>1, <2>2
<1> QED BY <1>1, <1>2, <1>3, <1>4, <1>5, SampleStep DEF HistoriesTyped, Samples!Runs

\* A snapshot fails, time passes, or the file system answers.
LEMMA WriteSteps ==
  ASSUME HistoriesInv,
         \/ \E q \in Snapshots : Samples!SnapshotFails(q)
         \/ Samples!TimePasses \/ Samples!Write \/ Samples!Written \/ Samples!WriteFails
  PROVE  HistoriesInv'
<1>1. HistoriesTyped /\ (Samples!Runs => SamplesAreSound)
  BY DEF HistoriesInv
<1>2. ASSUME NEW q \in Snapshots, Samples!SnapshotFails(q) PROVE HistoriesInv'
  <2>1. left' = TRUE /\ UNCHANGED <<samples, dirty, due, timer, writing, stopping, talks, again, saving, missed>>
    BY <1>2 DEF Samples!SnapshotFails, Samples!talkVars
  <2> QED BY <1>1, <2>1, SampleStep DEF HistoriesTyped, SamplesAreSound, Samples!Runs
<1>3. CASE Samples!TimePasses
  <2>1. due' = TRUE /\ UNCHANGED <<samples, dirty, timer, writing, recorded, left, stopping, talks, again, saving, missed>>
    BY <1>3 DEF Samples!TimePasses, Samples!talkVars
  <2> QED BY <1>1, <2>1, SampleStep DEF HistoriesTyped, SamplesAreSound, Samples!Runs
<1>4. CASE Samples!Write
  <2>1. /\ writing' = Samples!Holds(samples.memory)
        /\ UNCHANGED <<samples, dirty, due, timer, recorded, left, stopping, talks, again, saving, missed>>
    BY <1>4 DEF Samples!Write, Samples!talkVars
  <2>2. writing' \in Calls
    BY <1>1, <2>1 DEF HistoriesTyped, Stores, Calls
  <2>3. SamplesAreSound'
    BY <2>1, CallFacts DEF SamplesAreSound
  <2> QED BY <1>1, <2>1, <2>2, <2>3, SampleStep DEF HistoriesTyped, Samples!Runs
<1>5. CASE Samples!Written
  <2>1. /\ Samples!Runs /\ writing.at = "writes"
        /\ samples' = [samples EXCEPT !.disk = writing.value] /\ writing' = Samples!No /\ due' = FALSE
        /\ dirty' = dirty /\ timer' = (timer \/ dirty)
        /\ UNCHANGED <<recorded, left, talks, again, saving, missed>>
    BY <1>5 DEF Samples!Written, Samples!StillDirty, Samples!talkVars
  <2>2. samples' \in Stores /\ samples'.memory = samples.memory /\ samples'.disk = writing.value
    BY <1>1, <2>1, CallFacts, StoreFacts DEF HistoriesTyped
  <2>3. writing' \in Calls /\ dirty' \in BOOLEAN /\ timer' \in BOOLEAN /\ due' \in BOOLEAN
    BY <1>1, <2>1 DEF HistoriesTyped, Calls
  <2>4. SamplesAreSound'
    BY <1>1, <2>1, <2>2, CallFacts DEF SamplesAreSound
  <2> QED BY <2>1, <2>2, <2>3, <2>4, SampleStep
<1>6. CASE Samples!WriteFails
  <2>1. /\ Samples!Runs /\ writing' = Samples!No /\ dirty' = TRUE /\ due' = FALSE /\ timer' = TRUE
        /\ UNCHANGED <<samples, recorded, left, talks, again, saving, missed>>
    BY <1>6 DEF Samples!WriteFails, Samples!talkVars
  <2>2. samples' \in Stores /\ writing' \in Calls
    BY <1>1, <2>1 DEF HistoriesTyped, Calls
  <2>3. SamplesAreSound'
    BY <2>1, CallFacts DEF SamplesAreSound
  <2> QED BY <2>1, <2>2, <2>3, SampleStep
<1> QED BY <1>2, <1>3, <1>4, <1>5, <1>6

\* The end of the process waits for a write in progress, or begins the last one.
LEMMA ShutdownStep ==
  ASSUME HistoriesInv, Samples!Shutdown
  PROVE  HistoriesInv'
<1>1. HistoriesTyped /\ SamplesAreSound /\ Samples!Runs
  BY DEF HistoriesInv, Samples!Shutdown, Samples!Runs
<1>2. UNCHANGED <<samples, due, recorded, left, talks, again, saving, missed>>
  BY DEF Samples!Shutdown, Samples!talkVars
<1>3. \/ UNCHANGED <<dirty, timer, writing>>
      \/ timer' = FALSE /\ writing' = Samples!About /\ dirty' = FALSE
  BY DEF Samples!Shutdown
<1>4. writing' \in Calls /\ dirty' \in BOOLEAN /\ timer' \in BOOLEAN /\ due' \in BOOLEAN /\ samples' \in Stores
  BY <1>1, <1>2, <1>3 DEF HistoriesTyped, Calls
<1>5. SamplesAreSound'
  BY <1>1, <1>2, <1>3, CallFacts DEF SamplesAreSound
<1> QED BY <1>1, <1>2, <1>4, <1>5, SampleStep

LEMMA InteractStep ==
  ASSUME HistoriesInv, Samples!Interact
  PROVE  HistoriesInv'
<1>1. /\ Samples!Runs /\ talks' = [talks EXCEPT !.memory = talks.memory + 1]
      /\ UNCHANGED <<samples, dirty, due, timer, writing, recorded, left, stopping, missed>>
      /\ \/ saving # Samples!No /\ again' = TRUE /\ saving' = saving
         \/ again' = FALSE /\ saving' = Samples!About
  BY DEF Samples!Interact, Samples!sampleVars
<1>2. talks \in Stores /\ talks.memory + 1 \in Nat /\ saving \in Calls /\ missed \in BOOLEAN
  BY DEF HistoriesInv, HistoriesTyped, Stores
<1>3. talks' \in Stores
  BY <1>1, <1>2, StoreFacts
<1>4. saving' \in Calls /\ again' \in BOOLEAN
  BY <1>1, <1>2 DEF Calls
<1>5. TalksAreSound'
  BY <1>1, CallFacts DEF TalksAreSound
<1> QED BY <1>1, <1>2, <1>3, <1>4, <1>5, TalkStep

LEMMA TalkSteps ==
  ASSUME HistoriesInv, Samples!SaveTalks \/ Samples!TalksSaved \/ Samples!SaveTalksFails
  PROVE  HistoriesInv'
<1>1. HistoriesTyped /\ (Samples!Runs => TalksAreSound)
  BY DEF HistoriesInv
<1>2. CASE Samples!SaveTalks
  <2>1. /\ Samples!Runs /\ saving' = Samples!Holds(talks.memory)
        /\ UNCHANGED <<samples, dirty, due, timer, writing, recorded, left, stopping, talks, again, missed>>
    BY <1>2 DEF Samples!SaveTalks, Samples!sampleVars
  <2>2. saving' \in Calls
    BY <1>1, <2>1 DEF HistoriesTyped, Stores, Calls
  <2>3. TalksAreSound'
    BY <2>1, CallFacts DEF TalksAreSound
  <2> QED BY <1>1, <2>1, <2>2, <2>3, TalkStep DEF HistoriesTyped
<1>3. CASE Samples!TalksSaved
  <2>1. /\ Samples!Runs /\ saving.at = "writes" /\ talks' = [talks EXCEPT !.disk = saving.value]
        /\ saving' = IF again THEN Samples!About ELSE Samples!No
        /\ again' = FALSE /\ missed' = FALSE
        /\ UNCHANGED <<samples, dirty, due, timer, writing, recorded, left, stopping>>
    BY <1>3 DEF Samples!TalksSaved, Samples!sampleVars
  <2>2. talks' \in Stores /\ talks'.memory = talks.memory /\ talks'.disk = saving.value
    BY <1>1, <2>1, CallFacts, StoreFacts DEF HistoriesTyped
  <2>3. saving' \in Calls
    BY <2>1 DEF Calls
  <2>4. TalksAreSound'
    BY <1>1, <2>1, <2>2, CallFacts DEF TalksAreSound
  <2> QED BY <2>1, <2>2, <2>3, <2>4, TalkStep
<1>4. CASE Samples!SaveTalksFails
  <2>1. /\ saving' = Samples!No /\ missed' = TRUE
        /\ UNCHANGED <<samples, dirty, due, timer, writing, recorded, left, stopping, talks, again>>
    BY <1>4 DEF Samples!SaveTalksFails, Samples!sampleVars
  <2>2. saving' \in Calls
    BY <2>1 DEF Calls
  <2>3. TalksAreSound'
    BY <2>1, CallFacts DEF TalksAreSound
  <2> QED BY <1>1, <2>1, <2>2, <2>3, TalkStep DEF HistoriesTyped
<1> QED BY <1>2, <1>3, <1>4

\* A process begins with what the files hold: nothing is marked, and nothing has to be.
LEMMA HistoriesStart ==
  ASSUME NEW s \in Stores, NEW t \in Stores
  PROVE  Samples!Stored(s.disk).memory = Samples!Stored(s.disk).disk
         /\ Samples!Stored(s.disk) \in Stores /\ Samples!Stored(t.disk) \in Stores
         /\ Samples!Stored(t.disk).memory = Samples!Stored(t.disk).disk
BY StoreFacts DEF Stores

LEMMA HistoriesRestartStep ==
  ASSUME HistoriesInv, Samples!Restart
  PROVE  HistoriesInv'
<1>1. /\ samples' = Samples!Stored(samples.disk) /\ talks' = Samples!Stored(talks.disk)
      /\ dirty' = FALSE /\ due' \in BOOLEAN /\ timer' = FALSE /\ writing' = Samples!No
      /\ again' = FALSE /\ saving' = Samples!No /\ missed' = FALSE
  BY DEF Samples!Restart
<1>2. samples' \in Stores /\ samples'.memory = samples'.disk /\ talks' \in Stores /\ talks'.memory = talks'.disk
  BY <1>1, HistoriesStart DEF HistoriesInv, HistoriesTyped
<1>3. HistoriesTyped'
  BY <1>1, <1>2 DEF HistoriesTyped, Calls
<1>4. SamplesAreSound' /\ TalksAreSound'
  BY <1>1, <1>2, CallFacts DEF SamplesAreSound, TalksAreSound
<1> QED BY <1>3, <1>4 DEF HistoriesInv

LEMMA HistoriesBegin == Samples!Init => HistoriesInv
<1> SUFFICES ASSUME Samples!Init PROVE HistoriesInv
  OBVIOUS
<1>1. /\ samples = Samples!Stored(0) /\ talks = Samples!Stored(0) /\ ~dirty /\ dirty \in BOOLEAN
      /\ due \in BOOLEAN /\ timer \in BOOLEAN /\ writing = Samples!No /\ again \in BOOLEAN
      /\ saving = Samples!No /\ missed \in BOOLEAN
  BY DEF Samples!Init
<1>2. Samples!Stored(0) \in Stores /\ Samples!Stored(0).memory = Samples!Stored(0).disk
  BY DEF Samples!Stored, Stores
<1>3. HistoriesTyped
  BY <1>1, <1>2 DEF HistoriesTyped, Calls
<1>4. SamplesAreSound /\ TalksAreSound
  BY <1>1, <1>2, CallFacts DEF SamplesAreSound, TalksAreSound
<1> QED BY <1>3, <1>4 DEF HistoriesInv

\* What is being written is what memory has, or what it had and is marked as changed.
THEOREM HistoriesInvariant == Samples!Spec => []HistoriesInv
<1>1. HistoriesInv /\ [Samples!Next]_(Samples!vars) => HistoriesInv'
  <2> SUFFICES ASSUME HistoriesInv, [Samples!Next]_(Samples!vars) PROVE HistoriesInv'
    OBVIOUS
  <2>1. CASE Samples!Next
    BY <2>1, RecordStep, SnapshotSavesStep, TimerFiresStep, WriteSteps, ShutdownStep, InteractStep, TalkSteps,
       HistoriesRestartStep DEF Samples!Next
  <2>2. CASE UNCHANGED Samples!vars
    BY <2>2 DEF HistoriesInv, HistoriesTyped, SamplesAreSound, TalksAreSound, Samples!Runs, Samples!vars
  <2> QED BY <2>1, <2>2
<1> QED BY <1>1, HistoriesBegin, PTL DEF Samples!Spec

\* While PaneFleet runs, samples and interactions that the file does not have are being written or
\* still marked, and the marked ones have a write, a timer or a snapshot to come (saveAgentSamples,
\* saveAgentInteractions), for any number of snapshots and changes.
THEOREM NothingIsForgottenHolds == Samples!Spec => []NothingIsForgotten
<1>1. HistoriesInv => NothingIsForgotten
  BY DEF HistoriesInv, SamplesAreSound, TalksAreSound, NothingIsForgotten, Samples!NothingIsForgotten
<1> QED BY <1>1, HistoriesInvariant, PTL

---------------------------------------------------------------------------
(* Least and greatest numbers, and the entries of logs and archives.       *)

LEMMA LeastNumber ==
  ASSUME NEW T \in SUBSET Nat, T # {}
  PROVE  \E x \in T : \A y \in T : x <= y
<1> DEFINE R == OpToRel(<, Nat)
<1>1. IsWellFoundedOn(R, Nat)
  BY NatLessThanWellFounded
<1>2. \A x \in Nat, y \in Nat : y < x => <<y, x>> \in R
  BY DEF OpToRel
<1> HIDE DEF R
<1>3. PICK x \in T : \A y \in T : ~(<<y, x>> \in R)
  BY <1>1, WFMin
<1>4. ASSUME NEW y \in T PROVE x <= y
  <2>1. x \in Nat /\ y \in Nat
    OBVIOUS
  <2>2. ~(y < x)
    BY <1>2, <1>3, <2>1, Zenon
  <2> QED BY <2>1, <2>2
<1> QED BY <1>4

LEMMA GreatestNumber ==
  ASSUME NEW B \in Nat, NEW T \in SUBSET (0 .. B), T # {}
  PROVE  \E x \in T : \A y \in T : y <= x
<1> DEFINE S == {B - n : n \in T}
<1>1. S \in SUBSET Nat /\ S # {}
  <2>1. PICK t \in T : TRUE
    OBVIOUS
  <2>2. B - t \in S
    BY <2>1
  <2>3. \A n \in T : n \in 0 .. B
    OBVIOUS
  <2>4. \A n \in 0 .. B : B - n \in Nat
    OBVIOUS
  <2> QED BY <2>2, <2>3, <2>4
<1>2. PICK x \in S : \A y \in S : x <= y
  BY <1>1, LeastNumber
<1>3. PICK n \in T : x = B - n
  BY <1>2
<1>4. ASSUME NEW m \in T PROVE m <= n
  <2>1. B - m \in S
    OBVIOUS
  <2> QED BY <1>2, <1>3, <2>1
<1> QED BY <1>4

EntriesOf(a) == UNION {a[n].entries : n \in DOMAIN a}

LEMMA EntryOf == ASSUME NEW a, NEW e PROVE e \in EntriesOf(a) <=> \E n \in DOMAIN a : e \in a[n].entries
BY DEF EntriesOf

LEMMA ToSetFacts ==
  ASSUME NEW s \in Seq(Nat), NEW e \in Nat
  PROVE  /\ Audit!ToSet(s) = {s[i] : i \in DOMAIN s} /\ Audit!ToSet(s) \subseteq Nat
         /\ Audit!ToSet(<<>>) = {} /\ Audit!ToSet(Append(s, e)) = Audit!ToSet(s) \cup {e}
<1>1. Audit!ToSet(s) = {s[i] : i \in DOMAIN s} /\ Audit!ToSet(s) \subseteq Nat
  BY DEF Audit!ToSet
<1>2. Audit!ToSet(<<>>) = {}
  BY EmptySeq DEF Audit!ToSet
<1>3. Audit!ToSet(Append(s, e)) = {Append(s, e)[i] : i \in 1 .. Len(s) + 1}
  BY AppendProperties DEF Audit!ToSet
<1>4. \A x : x \in Audit!ToSet(Append(s, e)) <=> x \in Audit!ToSet(s) \/ x = e
  <2> TAKE x
  <2>1. ASSUME x \in Audit!ToSet(s) \/ x = e PROVE x \in Audit!ToSet(Append(s, e))
    <3>1. CASE x = e
      BY <1>3, <3>1, AppendProperties
    <3>2. CASE x \in Audit!ToSet(s)
      <4>1. PICK i \in 1 .. Len(s) : x = s[i]
        BY <1>1, <3>2
      <4> QED BY <1>3, <4>1, AppendProperties
    <3> QED BY <2>1, <3>1, <3>2
  <2>2. ASSUME x \in Audit!ToSet(Append(s, e)) PROVE x \in Audit!ToSet(s) \/ x = e
    <3>1. PICK i \in 1 .. Len(s) + 1 : x = Append(s, e)[i]
      BY <1>3, <2>2
    <3> QED BY <1>1, <3>1, AppendProperties
  <2> QED BY <2>1, <2>2
<1> QED BY <1>1, <1>2, <1>4

---------------------------------------------------------------------------
(* AuditLog.                                                               *)

LastName == MaxAuditTime + MaxEntries
Operations ==
  [at : {"idle", "maintain", "list", "remove", "append"}, entry : Nat, begun : Nat, old : SUBSET Nat]

AuditTyped ==
  /\ auditNow \in Nat /\ changed \in Nat /\ asked \in Nat
  /\ auditLog \in Seq(Nat) /\ auditQueue \in Seq(Nat) /\ auditOp \in Operations
  /\ DOMAIN archives \subseteq 0 .. LastName
  /\ \A n \in DOMAIN archives : archives[n] \in [entries : SUBSET Nat, changed : Nat]
  /\ aged \subseteq Nat

Past   == EntriesOf(archives) \cup aged
Known  == Audit!ToSet(auditLog) \cup Past

\* Entries are appended in the order in which they were asked for.
EntriesInOrder ==
  /\ \A i \in DOMAIN auditLog, k \in DOMAIN auditLog : i < k => auditLog[i] < auditLog[k]
  /\ \A e \in Past, i \in DOMAIN auditLog : e < auditLog[i]
  /\ \A e \in Known : e <= asked /\ \A k \in DOMAIN auditQueue : e < auditQueue[k]
  /\ auditOp.entry # 0 => \A e \in Known : e < auditOp.entry
  /\ auditOp.entry <= asked
  /\ auditOp.at = "append" => auditOp.entry # 0

QueueInOrder ==
  /\ \A k \in DOMAIN auditQueue : 0 < auditQueue[k] /\ auditQueue[k] <= asked
  /\ auditOp.entry # 0 => \A k \in DOMAIN auditQueue : auditOp.entry < auditQueue[k]
  /\ \A i \in DOMAIN auditQueue, k \in DOMAIN auditQueue : i < k => auditQueue[i] < auditQueue[k]

\* Archives have later names than their entries, and are removed oldest ones only: those past the
\* retention when the maintenance began, or with as many newer ones that stay.
RemovalIsDue ==
  /\ auditOp.begun <= auditNow /\ changed <= auditNow
  /\ \A n \in DOMAIN archives : archives[n].changed <= n
  /\ auditOp.at = "remove" =>
       /\ auditOp.old \subseteq DOMAIN archives
       /\ \A n \in auditOp.old, k \in DOMAIN archives \ auditOp.old : n < k
       /\ \/ \A n \in auditOp.old : n + Retention < auditOp.begun
          \/ Cardinality(DOMAIN archives \ auditOp.old) >= ArchiveLimit

AuditInv == AuditTyped /\ written \subseteq Known /\ EntriesInOrder /\ QueueInOrder /\ RemovalIsDue

LEMMA AuditFacts ==
  ASSUME AuditInv
  PROVE  /\ auditNow \in Nat /\ changed \in Nat /\ asked \in Nat /\ LastName \in Nat
         /\ auditOp.entry \in Nat /\ auditOp.begun \in Nat /\ auditOp.old \in SUBSET Nat
         /\ Past \subseteq Nat /\ Known \subseteq Nat
         /\ \A n \in DOMAIN archives : archives[n].changed \in Nat /\ n \in Nat
<1>1. /\ auditNow \in Nat /\ changed \in Nat /\ asked \in Nat /\ LastName \in Nat
      /\ auditOp.entry \in Nat /\ auditOp.begun \in Nat /\ auditOp.old \in SUBSET Nat
  BY AuditBounds DEF AuditInv, AuditTyped, Operations, LastName
<1>2. \A n \in DOMAIN archives : archives[n].changed \in Nat /\ n \in Nat /\ archives[n].entries \subseteq Nat
  BY DEF AuditInv, AuditTyped
<1>3. EntriesOf(archives) \subseteq Nat
  BY <1>2, EntryOf
<1>4. Audit!ToSet(auditLog) \subseteq Nat
  BY ToSetFacts DEF AuditInv, AuditTyped
<1> QED BY <1>1, <1>2, <1>3, <1>4 DEF AuditInv, AuditTyped, Past, Known

LEMMA LogEntryIsKnown ==
  ASSUME AuditInv, NEW i \in DOMAIN auditLog
  PROVE  auditLog[i] \in Known
BY ToSetFacts DEF AuditInv, AuditTyped, Known

LEMMA ArchivesAreFinite ==
  ASSUME AuditInv
  PROVE  IsFiniteSet(DOMAIN archives) /\ \A T \in SUBSET DOMAIN archives : IsFiniteSet(T) /\ Cardinality(T) \in Nat
<1>1. IsFiniteSet(0 .. LastName)
  BY AuditFacts, FS_Interval
<1>2. IsFiniteSet(DOMAIN archives)
  BY <1>1, FS_Subset DEF AuditInv, AuditTyped
<1> QED BY <1>2, FS_Subset, FS_CardinalityType

\* The operation goes on or ends, time passes, and no entry moves.
LEMMA QuietStep ==
  ASSUME AuditInv, UNCHANGED <<auditLog, archives, changed, asked, auditQueue, written, aged>>,
         auditNow' \in Nat, auditNow <= auditNow', auditOp' \in Operations,
         auditOp'.entry \in {0, auditOp.entry}, auditOp'.at = "append" => auditOp'.entry # 0,
         auditOp'.begun <= auditNow',
         auditOp'.at = "remove" =>
           /\ auditOp'.old \subseteq DOMAIN archives
           /\ \A n \in auditOp'.old, k \in DOMAIN archives \ auditOp'.old : n < k
           /\ \/ \A n \in auditOp'.old : n + Retention < auditOp'.begun
              \/ Cardinality(DOMAIN archives \ auditOp'.old) >= ArchiveLimit
  PROVE  AuditInv'
<1>1. AuditTyped'
  BY DEF AuditInv, AuditTyped
<1>2. Known' = Known /\ Past' = Past
  BY DEF Known, Past
<1>3. written' \subseteq Known'
  BY <1>2 DEF AuditInv
<1>4. EntriesInOrder'
  <2>1. EntriesInOrder
    BY DEF AuditInv
  <2>2. auditOp'.entry <= asked
    BY <2>1, AuditFacts DEF EntriesInOrder
  <2> QED BY <1>2, <2>1, <2>2 DEF EntriesInOrder
<1>5. QueueInOrder'
  BY DEF AuditInv, QueueInOrder
<1>6. RemovalIsDue'
  BY AuditFacts DEF AuditInv, RemovalIsDue
<1> QED BY <1>1, <1>3, <1>4, <1>5, <1>6 DEF AuditInv

LEMMA OperationFacts ==
  ASSUME NEW o \in Operations
  PROVE  /\ Audit!Idle \in Operations /\ Audit!Idle.at = "idle" /\ Audit!Idle.entry = 0 /\ Audit!Idle.begun = 0
         /\ Audit!Startup \in Operations /\ Audit!Startup.at = "maintain" /\ Audit!Startup.entry = 0
         /\ Audit!Startup.begun = 0
         /\ o.entry \in Nat /\ o.begun \in Nat /\ o.old \in SUBSET Nat
BY DEF Operations, Audit!Idle, Audit!Startup

\* The operation begins or goes on with its entry, or ends.
LEMMA NextFacts ==
  ASSUME NEW e \in Nat, NEW at \in {"maintain", "append"}, NEW o, o = [Audit!Idle EXCEPT !.at = at, !.entry = e]
  PROVE  o \in Operations /\ o.at = at /\ o.entry = e /\ o.begun = 0 /\ o.old = {}
BY DEF Operations, Audit!Idle

LEMMA MaintainedFacts ==
  ASSUME AuditInv, Audit!Maintained
  PROVE  /\ auditOp' \in Operations /\ auditOp'.entry \in {0, auditOp.entry} /\ auditOp'.begun = 0
         /\ auditOp'.at \in {"idle", "append"} /\ (auditOp'.at = "append" => auditOp'.entry # 0)
<1> DEFINE o == [Audit!Idle EXCEPT !.at = "append", !.entry = auditOp.entry]
<1>1. /\ auditOp.entry \in Nat /\ Audit!Idle \in Operations /\ Audit!Idle.at = "idle" /\ Audit!Idle.entry = 0
      /\ Audit!Idle.begun = 0
  BY AuditFacts, OperationFacts DEF AuditInv, AuditTyped
<1>2. o \in Operations /\ o.at = "append" /\ o.entry = auditOp.entry /\ o.begun = 0
  BY <1>1 DEF Operations, Audit!Idle
<1>3. (auditOp.entry = 0 /\ auditOp' = Audit!Idle) \/ (auditOp.entry # 0 /\ auditOp' = o)
  BY DEF Audit!Maintained
<1> HIDE DEF o
<1> QED BY <1>1, <1>2, <1>3

LEMMA QuietSteps ==
  ASSUME AuditInv,
         Audit!Tick \/ Audit!NotYet \/ Audit!Removed \/ Audit!MaintenanceFails \/ Audit!WriteFails
  PROVE  AuditInv'
<1>1. AuditTyped /\ RemovalIsDue /\ EntriesInOrder /\ auditNow \in Nat /\ auditOp \in Operations
  BY DEF AuditInv, AuditTyped
<1>2. CASE Audit!Tick
  <2>1. /\ auditNow' = auditNow + 1
        /\ UNCHANGED <<auditLog, archives, changed, asked, auditQueue, written, aged, auditOp>>
    BY <1>2 DEF Audit!Tick
  <2>2. auditOp.begun <= auditNow'
    BY <1>1, <2>1, AuditFacts DEF RemovalIsDue
  <2> QED BY <1>1, <2>1, <2>2, QuietStep DEF EntriesInOrder, RemovalIsDue
<1>3. CASE Audit!NotYet \/ Audit!Removed \/ Audit!MaintenanceFails
  <2>1. /\ Audit!Maintained
        /\ UNCHANGED <<auditNow, auditLog, archives, changed, asked, auditQueue, written, aged>>
    BY <1>3 DEF Audit!NotYet, Audit!Removed, Audit!MaintenanceFails
  <2> QED BY <1>1, <2>1, MaintainedFacts, QuietStep
<1>4. CASE Audit!WriteFails
  <2>1. /\ auditOp' = Audit!Idle
        /\ UNCHANGED <<auditNow, auditLog, archives, changed, asked, auditQueue, written, aged>>
    BY <1>4 DEF Audit!WriteFails
  <2> QED BY <1>1, <2>1, OperationFacts, QuietStep
<1> QED BY <1>2, <1>3, <1>4

\* appendAudit: the entry is the last one of the line.
LEMMA AskStep ==
  ASSUME AuditInv, Audit!Ask
  PROVE  AuditInv'
<1>1. /\ asked' = asked + 1 /\ auditQueue' = Append(auditQueue, asked + 1)
      /\ UNCHANGED <<auditNow, auditLog, archives, changed, auditOp, written, aged>>
  BY DEF Audit!Ask
<1>2. AuditTyped /\ EntriesInOrder /\ QueueInOrder /\ auditQueue \in Seq(Nat) /\ asked \in Nat
  BY DEF AuditInv, AuditTyped
<1>3. /\ DOMAIN auditQueue' = DOMAIN auditQueue \cup {Len(auditQueue) + 1}
      /\ \A k \in DOMAIN auditQueue : k < Len(auditQueue) + 1 /\ k \in Nat /\ auditQueue'[k] = auditQueue[k]
      /\ auditQueue'[Len(auditQueue) + 1] = asked + 1
      /\ \A k \in DOMAIN auditQueue : auditQueue[k] \in Nat
      /\ auditQueue' \in Seq(Nat)
  <2>1. /\ DOMAIN auditQueue' = 1 .. Len(auditQueue) + 1 /\ DOMAIN auditQueue = 1 .. Len(auditQueue)
        /\ Len(auditQueue) \in Nat /\ auditQueue' \in Seq(Nat)
        /\ \A k \in 1 .. Len(auditQueue) : auditQueue'[k] = auditQueue[k]
        /\ auditQueue'[Len(auditQueue) + 1] = asked + 1
    BY <1>1, <1>2, AppendProperties, LenProperties
  <2>2. \A k \in DOMAIN auditQueue : auditQueue[k] \in Nat
    BY <1>2, ElementOfSeq, <2>1
  <2> QED BY <2>1, <2>2
<1>4. Known' = Known /\ Past' = Past /\ Known \subseteq Nat
  BY <1>1, AuditFacts DEF Known, Past
<1>5. AuditTyped'
  BY <1>1, <1>2, <1>3 DEF AuditTyped
<1>6. EntriesInOrder'
  <2>1. \A e \in Known : e <= asked + 1 /\ \A k \in DOMAIN auditQueue' : e < auditQueue'[k]
    BY <1>2, <1>3, <1>4 DEF EntriesInOrder
  <2>2. auditOp.entry <= asked + 1
    BY <1>2, AuditFacts DEF EntriesInOrder
  <2> QED BY <1>1, <1>2, <1>4, <2>1, <2>2 DEF EntriesInOrder
<1>7. QueueInOrder'
  <2>1. auditOp.entry <= asked /\ auditOp.entry \in Nat
    BY <1>2, AuditFacts DEF EntriesInOrder
  <2>2. \A k \in DOMAIN auditQueue' : 0 < auditQueue'[k] /\ auditQueue'[k] <= asked + 1
    BY <1>2, <1>3 DEF QueueInOrder
  <2>3. auditOp.entry # 0 => \A k \in DOMAIN auditQueue' : auditOp.entry < auditQueue'[k]
    BY <1>2, <1>3, <2>1 DEF QueueInOrder
  <2>4. ASSUME NEW i \in DOMAIN auditQueue', NEW k \in DOMAIN auditQueue', i < k
        PROVE  auditQueue'[i] < auditQueue'[k]
    BY <1>2, <1>3, <2>4 DEF QueueInOrder
  <2> QED BY <1>1, <2>2, <2>3, <2>4 DEF QueueInOrder
<1>8. RemovalIsDue' /\ written' \subseteq Known'
  BY <1>1, <1>4 DEF AuditInv, RemovalIsDue
<1> QED BY <1>5, <1>6, <1>7, <1>8 DEF AuditInv

\* The first of the line is the next one.
LEMMA BeginStep ==
  ASSUME AuditInv, Audit!Begin
  PROVE  AuditInv'
<1> DEFINE o == [Audit!Idle EXCEPT !.at = "maintain", !.entry = Head(auditQueue)]
<1>1. /\ auditQueue # <<>> /\ auditQueue' = Tail(auditQueue) /\ auditOp' = o
      /\ UNCHANGED <<auditNow, auditLog, archives, changed, asked, written, aged>>
  BY DEF Audit!Begin
<1>2. /\ AuditTyped /\ EntriesInOrder /\ QueueInOrder /\ RemovalIsDue
      /\ auditQueue \in Seq(Nat) /\ asked \in Nat /\ auditNow \in Nat
  BY DEF AuditInv, AuditTyped
<1>3. /\ 1 \in DOMAIN auditQueue /\ Head(auditQueue) = auditQueue[1] /\ Head(auditQueue) \in Nat
      /\ auditQueue' \in Seq(Nat)
      /\ \A k \in DOMAIN auditQueue' : /\ k \in Nat /\ 1 < k + 1 /\ k + 1 \in DOMAIN auditQueue
                                       /\ auditQueue'[k] = auditQueue[k + 1]
  <2>1. Len(auditQueue) \in Nat \ {0} /\ DOMAIN auditQueue = 1 .. Len(auditQueue)
    BY <1>1, <1>2, EmptySeq, LenProperties
  <2>2. /\ Head(auditQueue) = auditQueue[1] /\ auditQueue[1] \in Nat
    BY <1>1, <1>2, <2>1, ElementOfSeq, HeadTailProperties
  <2>3. auditQueue' \in Seq(Nat) /\ Len(auditQueue') = Len(auditQueue) - 1
    BY <1>1, <1>2, HeadTailProperties
  <2>4. \A k \in 1 .. Len(auditQueue) - 1 : auditQueue'[k] = auditQueue[k + 1]
    BY <1>1, <1>2, HeadTailProperties, <2>3
  <2>5. DOMAIN auditQueue' = 1 .. Len(auditQueue) - 1
    BY <2>3, LenProperties
  <2> QED BY <2>1, <2>2, <2>3, <2>4, <2>5
<1>4. o \in Operations /\ o.at = "maintain" /\ o.entry = Head(auditQueue) /\ o.begun = 0
  BY <1>3 DEF Operations, Audit!Idle
<1> HIDE DEF o
<1>5. Known' = Known /\ Past' = Past
  BY <1>1 DEF Known, Past
<1>6. AuditTyped'
  BY <1>1, <1>2, <1>3, <1>4 DEF AuditTyped
<1>7. EntriesInOrder'
  <2>1. \A e \in Known : e < Head(auditQueue) /\ \A k \in DOMAIN auditQueue' : e < auditQueue'[k]
    BY <1>2, <1>3 DEF EntriesInOrder
  <2>2. Head(auditQueue) <= asked
    BY <1>2, <1>3 DEF QueueInOrder
  <2> QED BY <1>1, <1>2, <1>4, <1>5, <2>1, <2>2 DEF EntriesInOrder
<1>8. QueueInOrder'
  <2>1. \A k \in DOMAIN auditQueue' : /\ 0 < auditQueue'[k] /\ auditQueue'[k] <= asked
                                      /\ Head(auditQueue) < auditQueue'[k]
    BY <1>2, <1>3 DEF QueueInOrder
  <2>2. ASSUME NEW i \in DOMAIN auditQueue', NEW k \in DOMAIN auditQueue', i < k
        PROVE  auditQueue'[i] < auditQueue'[k]
    <3>1. i + 1 < k + 1
      BY <1>3, <2>2
    <3> QED BY <1>2, <1>3, <3>1 DEF QueueInOrder
  <2> QED BY <1>1, <1>4, <2>1, <2>2 DEF QueueInOrder
<1>9. RemovalIsDue' /\ written' \subseteq Known'
  <2>1. auditOp'.begun <= auditNow /\ auditOp'.at # "remove"
    BY <1>1, <1>2, <1>4
  <2> QED BY <1>1, <1>2, <1>5, <2>1 DEF AuditInv, RemovalIsDue
<1> QED BY <1>6, <1>7, <1>8, <1>9 DEF AuditInv

\* What waited is not written; what is in the files stays.
LEMMA AuditRestartStep ==
  ASSUME AuditInv, Audit!Restart
  PROVE  AuditInv'
<1>1. /\ auditOp' = Audit!Startup /\ auditQueue' = <<>>
      /\ UNCHANGED <<auditNow, auditLog, archives, changed, asked, written, aged>>
  BY DEF Audit!Restart
<1>2. AuditTyped /\ EntriesInOrder /\ RemovalIsDue /\ auditOp \in Operations /\ auditNow \in Nat /\ asked \in Nat
  BY DEF AuditInv, AuditTyped
<1>3. DOMAIN auditQueue' = {} /\ auditQueue' \in Seq(Nat)
  BY <1>1, EmptySeq
<1>4. Known' = Known /\ Past' = Past
  BY <1>1 DEF Known, Past
<1>5. /\ auditOp' \in Operations /\ auditOp'.at = "maintain" /\ auditOp'.entry = 0 /\ auditOp'.begun <= auditNow
  BY <1>1, <1>2, OperationFacts
<1>6. AuditTyped'
  BY <1>1, <1>2, <1>3, <1>5 DEF AuditTyped
<1>7. EntriesInOrder'
  BY <1>1, <1>2, <1>3, <1>4, <1>5 DEF EntriesInOrder
<1>8. QueueInOrder'
  BY <1>3, <1>5 DEF QueueInOrder
<1>9. RemovalIsDue' /\ written' \subseteq Known'
  BY <1>1, <1>2, <1>4, <1>5 DEF AuditInv, RemovalIsDue
<1> QED BY <1>6, <1>7, <1>8, <1>9 DEF AuditInv

\* The entry is the newest one.
LEMMA AppendStep ==
  ASSUME AuditInv, Audit!Write
  PROVE  AuditInv'
<1> DEFINE e == auditOp.entry
<1>1. /\ auditOp.at = "append" /\ auditLog' = Append(auditLog, e) /\ changed' = auditNow
      /\ written' = written \cup {e} /\ auditOp' = Audit!Idle
      /\ UNCHANGED <<auditNow, archives, asked, auditQueue, aged>>
  BY DEF Audit!Write
<1>2. /\ AuditTyped /\ EntriesInOrder /\ QueueInOrder /\ RemovalIsDue
      /\ auditLog \in Seq(Nat) /\ auditOp \in Operations /\ auditNow \in Nat /\ e \in Nat
  BY AuditFacts DEF AuditInv, AuditTyped
<1>3. e # 0 /\ \A x \in Known : x < e
  BY <1>1, <1>2 DEF EntriesInOrder
<1>4. /\ Past' = Past /\ Known' = Known \cup {e} /\ Past \subseteq Known /\ Known \subseteq Nat
  <2>1. Audit!ToSet(auditLog') = Audit!ToSet(auditLog) \cup {e}
    BY <1>1, <1>2, ToSetFacts
  <2>2. Past' = Past
    BY <1>1 DEF Past
  <2> QED BY <2>1, <2>2, AuditFacts DEF Known
<1>5. /\ DOMAIN auditLog' = DOMAIN auditLog \cup {Len(auditLog) + 1} /\ auditLog' \in Seq(Nat)
      /\ \A i \in DOMAIN auditLog : i < Len(auditLog) + 1 /\ i \in Nat /\ auditLog'[i] = auditLog[i]
      /\ auditLog'[Len(auditLog) + 1] = e
  BY <1>1, <1>2, AppendProperties, LenProperties
<1>6. /\ auditOp' \in Operations /\ auditOp'.at = "idle" /\ auditOp'.entry = 0 /\ auditOp'.begun = 0
  BY <1>1, <1>2, OperationFacts
<1>7. AuditTyped'
  BY <1>1, <1>2, <1>5, <1>6 DEF AuditTyped
<1>8. EntriesInOrder'
  <2>1. \A i \in DOMAIN auditLog : auditLog[i] < e
    BY <1>3, LogEntryIsKnown
  <2>2. ASSUME NEW i \in DOMAIN auditLog', NEW k \in DOMAIN auditLog', i < k
        PROVE  auditLog'[i] < auditLog'[k]
    BY <1>2, <1>5, <2>1, <2>2 DEF EntriesInOrder
  <2>3. \A x \in Past, i \in DOMAIN auditLog' : x < auditLog'[i]
    BY <1>2, <1>3, <1>4, <1>5 DEF EntriesInOrder
  <2>4. \A x \in Known' : x <= asked /\ \A k \in DOMAIN auditQueue : x < auditQueue[k]
    BY <1>2, <1>3, <1>4 DEF EntriesInOrder, QueueInOrder
  <2>5. 0 <= asked
    BY AuditFacts
  <2> QED BY <1>1, <1>4, <1>6, <2>2, <2>3, <2>4, <2>5 DEF EntriesInOrder
<1>9. QueueInOrder'
  BY <1>1, <1>2, <1>6 DEF QueueInOrder
<1>10. RemovalIsDue'
  BY <1>1, <1>2, <1>6 DEF RemovalIsDue
<1>11. written' \subseteq Known'
  BY <1>1, <1>4 DEF AuditInv
<1> QED BY <1>7, <1>8, <1>9, <1>10, <1>11 DEF AuditInv

\* The log becomes an archive of a free name, which is none of an archive there is.
LEMMA ArchivedFacts ==
  ASSUME NEW a, NEW n, n \notin DOMAIN a, NEW t, NEW b,
         b = [k \in DOMAIN a \cup {n} |-> IF k = n THEN t ELSE a[k]]
  PROVE  /\ DOMAIN b = DOMAIN a \cup {n} /\ b[n] = t /\ \A k \in DOMAIN a : b[k] = a[k]
         /\ EntriesOf(b) = EntriesOf(a) \cup t.entries
<1>1. DOMAIN b = DOMAIN a \cup {n} /\ b[n] = t /\ \A k \in DOMAIN a : b[k] = a[k]
  OBVIOUS
<1>2. \A e : e \in EntriesOf(b) <=> e \in EntriesOf(a) \/ e \in t.entries
  <2> TAKE e
  <2>1. e \in EntriesOf(b) <=> \E k \in DOMAIN b : e \in b[k].entries
    BY EntryOf
  <2>2. e \in EntriesOf(a) <=> \E k \in DOMAIN a : e \in a[k].entries
    BY EntryOf
  <2> HIDE DEF EntriesOf
  <2> QED BY <1>1, <2>1, <2>2
<1> QED BY <1>1, <1>2

LEMMA RotateStep ==
  ASSUME AuditInv, Audit!Rotate
  PROVE  AuditInv'
<1>1. /\ auditOp.at = "maintain" /\ auditOp' = [auditOp EXCEPT !.at = "list", !.begun = auditNow]
      /\ UNCHANGED <<auditNow, changed, asked, auditQueue, written, aged>>
  BY DEF Audit!Rotate
<1>2. /\ AuditTyped /\ EntriesInOrder /\ QueueInOrder /\ RemovalIsDue
      /\ auditLog \in Seq(Nat) /\ auditOp \in Operations /\ auditNow \in Nat
  BY DEF AuditInv, AuditTyped
<1>3. auditOp' \in Operations /\ auditOp'.at = "list" /\ auditOp'.entry = auditOp.entry /\ auditOp'.begun = auditNow
  BY <1>1, <1>2 DEF Operations
<1>4. CASE UNCHANGED <<archives, auditLog>>
  BY <1>1, <1>2, <1>3, <1>4, QuietStep DEF EntriesInOrder
<1>5. CASE ~UNCHANGED <<archives, auditLog>>
  <2> DEFINE t == [entries |-> Audit!ToSet(auditLog), changed |-> changed]
  <2>1. auditLog' = <<>> /\ auditLog' \in Seq(Nat) /\ DOMAIN auditLog' = {} /\ Audit!ToSet(auditLog') = {}
    <3>1. auditLog' = <<>>
      BY <1>5 DEF Audit!Rotate
    <3>2. DOMAIN auditLog' = {} /\ auditLog' \in Seq(Nat)
      BY <3>1, EmptySeq
    <3> QED BY <3>1, <3>2 DEF Audit!ToSet
  <2>2. PICK n \in auditNow .. LastName :
          /\ Audit!FreeName(n)
          /\ archives' = [k \in DOMAIN archives \cup {n} |-> IF k = n THEN t ELSE archives[k]]
    BY <1>5 DEF Audit!Rotate, LastName
  <2>3. n \notin DOMAIN archives
    BY <2>2 DEF Audit!FreeName
  <2>4. /\ t \in [entries : SUBSET Nat, changed : Nat] /\ t.entries = Audit!ToSet(auditLog) /\ t.changed = changed
        /\ n \in 0 .. LastName /\ auditNow <= n /\ changed \in Nat /\ changed <= auditNow
    BY <1>2, <2>2, AuditFacts, ToSetFacts DEF RemovalIsDue
  <2> HIDE DEF t
  <2>5. /\ DOMAIN archives' = DOMAIN archives \cup {n} /\ archives'[n] = t
        /\ \A k \in DOMAIN archives : archives'[k] = archives[k]
        /\ EntriesOf(archives') = EntriesOf(archives) \cup t.entries
    BY <2>2, <2>3, ArchivedFacts
  <2>6. Known' = Known /\ Past' = Known
    BY <1>1, <2>1, <2>4, <2>5 DEF Known, Past
  <2>7. AuditTyped'
    BY <1>1, <1>2, <1>3, <2>1, <2>4, <2>5 DEF AuditTyped
  <2>8. EntriesInOrder'
    BY <1>1, <1>2, <1>3, <2>1, <2>6 DEF EntriesInOrder
  <2>9. QueueInOrder'
    BY <1>1, <1>2, <1>3 DEF QueueInOrder
  <2>10. RemovalIsDue'
    <3>1. \A k \in DOMAIN archives' : archives'[k].changed <= k
      BY <1>2, <2>4, <2>5 DEF RemovalIsDue
    <3> QED BY <1>1, <1>2, <1>3, <2>4, <3>1 DEF RemovalIsDue
  <2>11. written' \subseteq Known'
    BY <1>1, <2>6 DEF AuditInv
  <2> QED BY <2>7, <2>8, <2>9, <2>10, <2>11 DEF AuditInv
<1> QED BY <1>4, <1>5

---------------------------------------------------------------------------
(* What is removed.                                                        *)

\* AuditLog counts as this module does.
LEMMA CountsAlike == ASSUME NEW S PROVE Audit!Cardinality(S) = Cardinality(S)
BY Zenon DEF Audit!Cardinality, Cardinality

\* The names order the archives by age.
LEMMA NewerIsLater ==
  ASSUME AuditInv, NEW n \in DOMAIN archives, NEW k \in DOMAIN archives
  PROVE  Audit!Age(n) = n /\ (Audit!Newer(n, k) <=> k > n)
<1>1. \A m \in DOMAIN archives : m \in Nat /\ archives[m].changed \in Nat /\ archives[m].changed <= m
  BY AuditFacts DEF AuditInv, RemovalIsDue
<1>2. Audit!Age(n) = n /\ Audit!Age(k) = k
  BY <1>1 DEF Audit!Age
<1> QED BY <1>1, <1>2 DEF Audit!Newer

Later(n) == {k \in DOMAIN archives : k > n}

LEMMA LaterFacts ==
  ASSUME AuditInv, NEW n \in DOMAIN archives
  PROVE  /\ {k \in DOMAIN archives : Audit!Newer(n, k)} = Later(n)
         /\ Later(n) \in SUBSET DOMAIN archives /\ IsFiniteSet(Later(n)) /\ Cardinality(Later(n)) \in Nat
         /\ \A m \in DOMAIN archives : m > n => Cardinality(Later(m)) <= Cardinality(Later(n))
         /\ \A T \in SUBSET Later(n) : Cardinality(T) <= Cardinality(Later(n)) /\ Cardinality(T) \in Nat
<1>1. {k \in DOMAIN archives : Audit!Newer(n, k)} = Later(n)
  BY NewerIsLater DEF Later
<1>2. Later(n) \in SUBSET DOMAIN archives
  BY DEF Later
<1>3. IsFiniteSet(Later(n)) /\ Cardinality(Later(n)) \in Nat
  BY <1>2, ArchivesAreFinite
<1>4. \A T \in SUBSET Later(n) : Cardinality(T) <= Cardinality(Later(n)) /\ Cardinality(T) \in Nat
  BY <1>3, FS_Subset, FS_CardinalityType
<1>5. ASSUME NEW m \in DOMAIN archives, m > n PROVE Later(m) \in SUBSET Later(n)
  BY <1>5, AuditFacts DEF Later
<1> QED BY <1>1, <1>2, <1>3, <1>4, <1>5

\* The old archives are older than the others, and if one of them is not past the retention as
\* many as are kept are not among them.
LEMMA ListFacts ==
  ASSUME AuditInv, NEW S, S = {n \in DOMAIN archives : Audit!TooMany(n) \/ Audit!TooOld(n)}
  PROVE  /\ S \subseteq DOMAIN archives
         /\ \A n \in S, k \in DOMAIN archives \ S : n < k
         /\ \/ \A n \in S : n + Retention < auditOp.begun
            \/ Cardinality(DOMAIN archives \ S) >= ArchiveLimit
<1>1. /\ \A n \in DOMAIN archives : n \in Nat /\ (Audit!TooOld(n) <=> n + Retention < auditOp.begun)
      /\ Retention \in Nat /\ ArchiveLimit \in Nat /\ auditOp.begun \in Nat
  BY AuditFacts, AuditBounds, NewerIsLater DEF Audit!TooOld
<1>2. ASSUME NEW n \in DOMAIN archives PROVE Audit!TooMany(n) <=> Cardinality(Later(n)) >= ArchiveLimit
  <2>1. {k \in DOMAIN archives : Audit!Newer(n, k)} = Later(n)
    BY LaterFacts
  <2> QED BY <2>1, CountsAlike, Zenon DEF Audit!TooMany
<1>3. S \subseteq DOMAIN archives
  OBVIOUS
<1>4. ASSUME NEW n \in S, NEW k \in DOMAIN archives, k < n PROVE k \in S
  <2>1. CASE Audit!TooOld(n)
    BY <1>1, <1>3, <1>4, <2>1
  <2>2. CASE Audit!TooMany(n)
    <3>1. Cardinality(Later(n)) <= Cardinality(Later(k)) /\ Cardinality(Later(n)) \in Nat /\ Cardinality(Later(k)) \in Nat
      BY <1>3, <1>4, LaterFacts
    <3> QED BY <1>1, <1>2, <1>3, <2>2, <3>1
  <2> QED BY <2>1, <2>2
<1>5. \A n \in S, k \in DOMAIN archives \ S : n < k
  BY <1>1, <1>3, <1>4
<1>6. ASSUME NEW n \in S, ~(n + Retention < auditOp.begun)
      PROVE  Cardinality(DOMAIN archives \ S) >= ArchiveLimit
  <2>1. S \in SUBSET (0 .. LastName) /\ S # {} /\ LastName \in Nat
    BY <1>3, AuditFacts DEF AuditInv, AuditTyped
  <2>2. PICK m \in S : \A k \in S : k <= m
    BY <2>1, GreatestNumber
  <2>3. Audit!TooMany(m)
    BY <1>1, <1>3, <1>6, <2>2
  <2>4. Cardinality(Later(m)) >= ArchiveLimit /\ Later(m) \in SUBSET DOMAIN archives
    BY <1>2, <1>3, <2>2, <2>3, LaterFacts
  <2>5. Later(m) \in SUBSET (DOMAIN archives \ S)
    <3>1. \A k \in Later(m) : k \in DOMAIN archives /\ ~(k <= m)
      BY <1>1, <1>3, <2>2 DEF Later
    <3> QED BY <2>2, <3>1
  <2>6. IsFiniteSet(DOMAIN archives \ S)
    BY ArchivesAreFinite
  <2>7. /\ Cardinality(Later(m)) <= Cardinality(DOMAIN archives \ S)
        /\ Cardinality(Later(m)) \in Nat /\ Cardinality(DOMAIN archives \ S) \in Nat
    BY <2>5, <2>6, FS_Subset, FS_CardinalityType
  <2> QED BY <1>1, <2>4, <2>7
<1> QED BY <1>3, <1>5, <1>6

LEMMA ListStep ==
  ASSUME AuditInv, Audit!List
  PROVE  AuditInv'
<1> DEFINE S == {n \in DOMAIN archives : Audit!TooMany(n) \/ Audit!TooOld(n)}
<1>1. /\ auditOp' = [auditOp EXCEPT !.at = "remove", !.old = S]
      /\ UNCHANGED <<auditNow, auditLog, archives, changed, asked, auditQueue, written, aged>>
  BY DEF Audit!List
<1>2. /\ S \subseteq DOMAIN archives
      /\ \A n \in S, k \in DOMAIN archives \ S : n < k
      /\ \/ \A n \in S : n + Retention < auditOp.begun
         \/ Cardinality(DOMAIN archives \ S) >= ArchiveLimit
  BY ListFacts
<1>3. S \in SUBSET Nat /\ auditOp \in Operations /\ auditNow \in Nat /\ auditOp.begun <= auditNow
  BY <1>2, AuditFacts DEF AuditInv, AuditTyped, RemovalIsDue
<1> HIDE DEF S
<1>4. /\ auditOp' \in Operations /\ auditOp'.at = "remove" /\ auditOp'.old = S
      /\ auditOp'.entry = auditOp.entry /\ auditOp'.begun = auditOp.begun
  BY <1>1, <1>3 DEF Operations
<1> QED BY <1>1, <1>2, <1>3, <1>4, QuietStep

\* An archive that is removed may go.
LEMMA UnlinkStep ==
  ASSUME AuditInv, Audit!Unlink
  PROVE  AuditInv'
<1>1. PICK n \in auditOp.old :
        /\ \A k \in auditOp.old : k # n => Audit!Newer(k, n)
        /\ archives' = Audit!Restrict(archives, DOMAIN archives \ {n})
        /\ aged' = IF Audit!Goes(n) THEN aged \cup archives[n].entries ELSE aged
        /\ auditOp' = [auditOp EXCEPT !.old = auditOp.old \ {n}]
  BY DEF Audit!Unlink
<1>2. auditOp.at = "remove" /\ UNCHANGED <<auditNow, auditLog, changed, asked, auditQueue, written>>
  BY DEF Audit!Unlink
<1>3. /\ AuditTyped /\ EntriesInOrder /\ QueueInOrder /\ RemovalIsDue
      /\ auditOp \in Operations /\ auditNow \in Nat /\ auditOp.old \in SUBSET Nat
      /\ auditOp.begun \in Nat /\ auditOp.begun <= auditNow /\ Retention \in Nat /\ ArchiveLimit \in Nat
  BY AuditFacts, AuditBounds DEF AuditInv, AuditTyped, RemovalIsDue
<1>4. /\ auditOp.old \subseteq DOMAIN archives
      /\ \A m \in auditOp.old, k \in DOMAIN archives \ auditOp.old : m < k
      /\ \/ \A m \in auditOp.old : m + Retention < auditOp.begun
         \/ Cardinality(DOMAIN archives \ auditOp.old) >= ArchiveLimit
  BY <1>2, <1>3 DEF RemovalIsDue
<1>5. n \in DOMAIN archives /\ n \in Nat /\ archives[n].entries \subseteq Nat
  BY <1>3, <1>4 DEF AuditTyped
<1>6. Audit!Goes(n)
  <2>1. CASE n + Retention < auditOp.begun
    BY <1>3, <1>5, <2>1 DEF Audit!Goes
  <2>2. CASE Cardinality(DOMAIN archives \ auditOp.old) >= ArchiveLimit
    <3>1. DOMAIN archives \ auditOp.old \in SUBSET Later(n)
      BY <1>4 DEF Later
    <3>2. /\ Cardinality(DOMAIN archives \ auditOp.old) <= Cardinality(Later(n))
          /\ Cardinality(DOMAIN archives \ auditOp.old) \in Nat /\ Cardinality(Later(n)) \in Nat
      BY <1>5, <3>1, LaterFacts
    <3>3. Cardinality(Later(n)) >= ArchiveLimit
      BY <1>3, <2>2, <3>2
    <3> QED BY <3>3, CountsAlike, Zenon DEF Audit!Goes, Later
  <2> QED BY <1>4, <2>1, <2>2
<1>7. aged' = aged \cup archives[n].entries
  BY <1>1, <1>6
<1>8. DOMAIN archives' = DOMAIN archives \ {n} /\ \A k \in DOMAIN archives' : archives'[k] = archives[k]
  BY <1>1 DEF Audit!Restrict
<1>9. Past' = Past /\ Known' = Known
  <2>1. \A e : e \in EntriesOf(archives') <=> \E k \in DOMAIN archives' : e \in archives'[k].entries
    BY EntryOf
  <2>2. \A e : e \in EntriesOf(archives) <=> \E k \in DOMAIN archives : e \in archives[k].entries
    BY EntryOf
  <2>3. \A e : e \in EntriesOf(archives) <=> e \in EntriesOf(archives') \/ e \in archives[n].entries
    BY <1>5, <1>8, <2>1, <2>2
  <2>4. Past' = Past
    BY <1>7, <2>3 DEF Past
  <2> QED BY <1>2, <2>4 DEF Known
<1>10. /\ auditOp' \in Operations /\ auditOp'.at = "remove" /\ auditOp'.old = auditOp.old \ {n}
       /\ auditOp'.entry = auditOp.entry /\ auditOp'.begun = auditOp.begun
  BY <1>1, <1>2, <1>3 DEF Operations
<1>11. AuditTyped'
  <2>1. DOMAIN archives' \subseteq 0 .. LastName
    BY <1>3, <1>8 DEF AuditTyped
  <2>2. \A k \in DOMAIN archives' : archives'[k] \in [entries : SUBSET Nat, changed : Nat]
    BY <1>3, <1>8 DEF AuditTyped
  <2>3. aged' \subseteq Nat
    BY <1>3, <1>5, <1>7 DEF AuditTyped
  <2> QED BY <1>2, <1>3, <1>10, <2>1, <2>2, <2>3 DEF AuditTyped
<1>12. EntriesInOrder'
  BY <1>2, <1>3, <1>9, <1>10 DEF EntriesInOrder
<1>13. QueueInOrder'
  BY <1>2, <1>3, <1>10 DEF QueueInOrder
<1>14. RemovalIsDue'
  <2>1. DOMAIN archives' \ auditOp'.old = DOMAIN archives \ auditOp.old /\ auditOp'.old \subseteq DOMAIN archives'
    BY <1>4, <1>8, <1>10
  <2>2. \A k \in DOMAIN archives' : archives'[k].changed <= k
    BY <1>3, <1>8 DEF RemovalIsDue
  <2>3. \A m \in auditOp'.old, k \in DOMAIN archives' \ auditOp'.old : m < k
    BY <1>4, <1>10, <2>1
  <2>4. \/ \A m \in auditOp'.old : m + Retention < auditOp'.begun
        \/ Cardinality(DOMAIN archives' \ auditOp'.old) >= ArchiveLimit
    BY <1>4, <1>10, <2>1
  <2> QED BY <1>2, <1>3, <1>10, <2>1, <2>2, <2>3, <2>4 DEF RemovalIsDue
<1>15. written' \subseteq Known'
  BY <1>2, <1>9 DEF AuditInv
<1> QED BY <1>11, <1>12, <1>13, <1>14, <1>15 DEF AuditInv

LEMMA AuditBegins == Audit!Init => AuditInv
<1> SUFFICES ASSUME Audit!Init PROVE AuditInv
  OBVIOUS
<1>1. /\ auditNow = 1 /\ changed = 0 /\ asked = 0 /\ auditLog = <<>> /\ archives = [n \in {} |-> 0]
      /\ auditQueue = <<>> /\ auditOp = Audit!Startup /\ written = {} /\ aged = {}
  BY DEF Audit!Init
<1>2. /\ DOMAIN archives = {} /\ DOMAIN auditLog = {} /\ DOMAIN auditQueue = {}
      /\ auditLog \in Seq(Nat) /\ auditQueue \in Seq(Nat)
  BY <1>1, EmptySeq
<1>3. EntriesOf(archives) = {} /\ Audit!ToSet(auditLog) = {}
  BY <1>1, <1>2, EntryOf, EmptySeq DEF Audit!ToSet
<1>4. /\ auditOp \in Operations /\ auditOp.at = "maintain" /\ auditOp.entry = 0 /\ auditOp.begun = 0
  BY <1>1 DEF Operations, Audit!Startup
<1>5. AuditTyped
  BY <1>1, <1>2, <1>4 DEF AuditTyped
<1>6. Known = {} /\ Past = {}
  BY <1>1, <1>3 DEF Known, Past
<1>7. EntriesInOrder /\ QueueInOrder
  BY <1>1, <1>2, <1>4, <1>6 DEF EntriesInOrder, QueueInOrder
<1>8. RemovalIsDue
  BY <1>1, <1>2, <1>4 DEF RemovalIsDue
<1> QED BY <1>1, <1>5, <1>6, <1>7, <1>8 DEF AuditInv

\* Entries are appended in the order of the line, archives have names of their own, later ones than
\* when they were last written, and the oldest are removed first.
THEOREM AuditInvariant == Audit!Spec => []AuditInv
<1>1. AuditInv /\ [Audit!Next]_(Audit!vars) => AuditInv'
  <2> SUFFICES ASSUME AuditInv, [Audit!Next]_(Audit!vars) PROVE AuditInv'
    OBVIOUS
  <2>1. CASE Audit!Next
    BY <2>1, QuietSteps, AskStep, BeginStep, RotateStep, ListStep, UnlinkStep, AppendStep, AuditRestartStep
       DEF Audit!Next
  <2>2. CASE UNCHANGED Audit!vars
    BY <2>2, AuditFacts, QuietStep DEF Audit!vars, AuditInv, AuditTyped, EntriesInOrder, RemovalIsDue
  <2> QED BY <2>1, <2>2
<1> QED BY <1>1, AuditBegins, PTL DEF Audit!Spec

\* What appendAudit said is written is in the log or in an archive until its archive may go, and the
\* log is in order and newer than every archive, for any limits, failures and restarts.
THEOREM AuditIsKeptHolds == Audit!Spec => []AuditIsKept
<1>1. AuditInv => AuditIsKept
  BY DEF AuditInv, EntriesInOrder, Known, Past, EntriesOf, AuditIsKept, Audit!AuditIsKept, Audit!Archived
<1> QED BY <1>1, AuditInvariant, PTL

---------------------------------------------------------------------------
(* NetworkMonitor.                                                         *)

\* What is read again reaches back as far as a scan may take, and the events of that time are stored.
OverlapSuffices == ScanTakes <= Overlap /\ Overlap < EventLimit

Flagged == trusted \cup network.newPeer

\* The journal has one login a second.  The logins that the journal had when it was last read are from
\* before that scan ended, and others from after it began; the latest of them are still stored.
JournalIsRead ==
  /\ peersNow \in Nat /\ peersNow >= 1 /\ IsFiniteSet(journal)
  /\ \A e \in journal : e.at \in 1 .. peersNow /\ e.peer \in Peers
  /\ \A e, f \in journal : e.at = f.at => e = f
  /\ saw \subseteq journal /\ network.events \subseteq saw /\ network.last \in 0 .. peersNow
  /\ \A e \in saw : e.at <= network.last
  /\ \A e \in journal \ saw : e.at + ScanTakes >= network.last
  /\ \A e \in saw : e.at + Overlap >= network.last => e \in network.events

\* The peers that are known are flagged or trusted, and before the first scan there are none.
PeersAreKnown ==
  /\ \A p \in Peers : network.known[p] # 0 => p \in Flagged
  /\ \A e \in saw : e.kind = "accepted" => e.peer \in Flagged
  /\ network.last = 0 => saw = {} /\ \A p \in Peers : network.known[p] = 0

\* A scan in progress began with the stored state, and what it has not read was logged after it began.
ScanIsDue ==
  /\ scan.at \in {"rest", "runs", "read"}
  /\ scan.at # "rest" =>
       /\ scan.since = Network!Since /\ scan.bootstrap = (network.last = 0)
       /\ scan.ends \in peersNow .. peersNow + ScanTakes
  /\ scan.at = "runs" => scan.logged = {}
  /\ scan.at = "read" =>
       /\ saw \subseteq scan.logged /\ scan.logged \subseteq journal
       /\ \A e \in journal \ scan.logged : e.at + ScanTakes >= scan.ends

FailuresCount == \A p \in Peers : network.failed[p] = Cardinality(Network!By(saw, "failed", p))

NetworkInv == JournalIsRead /\ PeersAreKnown /\ ScanIsDue /\ FailuresCount

LEMMA NetworkCount == ASSUME NEW S PROVE Network!Cardinality(S) = Cardinality(S)
BY Zenon DEF Network!Cardinality, Cardinality

LEMMA UpTo ==
  ASSUME NEW n \in Nat
  PROVE  IsFiniteSet(1 .. n) /\ Cardinality(1 .. n) = n
<1>1. 1 \in Int /\ n \in Int
  OBVIOUS
<1>2. IsFiniteSet(1 .. n) /\ Cardinality(1 .. n) = IF 1 > n THEN 0 ELSE n - 1 + 1
  BY <1>1, FS_Interval
<1>3. (IF 1 > n THEN 0 ELSE n - 1 + 1) = n
  OBVIOUS
<1> QED BY <1>2, <1>3

\* An event that is not older than the overlap is kept, since fewer than the limit are newer.
LEMMA NewestKeeps ==
  ASSUME OverlapSuffices, NEW events, NEW last \in Nat,
         \A f \in events : f.at \in Nat /\ f.at <= last,
         \A f, g \in events : f.at = g.at => f = g,
         NEW e \in events, e.at + Overlap >= last
  PROVE  e \in Network!Newest(events, EventLimit)
<1> DEFINE F == {f \in events : f.at > e.at}
           after == [f \in F |-> f.at - e.at]
<1>1. Overlap \in Nat /\ EventLimit \in Nat /\ Overlap < EventLimit /\ e.at \in Nat
  BY NetworkBounds DEF OverlapSuffices
<1>2. \A f \in F : f.at - e.at \in 1 .. Overlap
  BY <1>1
<1>3. \A f, g \in F : f.at - e.at = g.at - e.at => f = g
  BY <1>1
<1>4. after \in [F -> 1 .. Overlap] /\ \A f, g \in F : after[f] = after[g] => f = g
  BY <1>2, <1>3
<1> HIDE DEF after, F
<1>5. after \in Injection(F, 1 .. Overlap)
  BY <1>4, Fun_IsInj
<1>6. IsFiniteSet(1 .. Overlap) /\ Cardinality(1 .. Overlap) = Overlap
  BY <1>1, UpTo
<1>7. IsFiniteSet(F) /\ Cardinality(F) <= Cardinality(1 .. Overlap)
  BY <1>5, <1>6, FS_Injection
<1>8. Cardinality(F) \in Nat
  BY <1>7, FS_CardinalityType
<1>9. Cardinality(F) < EventLimit
  BY <1>1, <1>6, <1>7, <1>8
<1>10. Network!Cardinality({f \in events : f.at > e.at}) < EventLimit
  BY <1>9, NetworkCount DEF F
<1> QED BY <1>10 DEF Network!Newest

\* Only peers with a login become known.
LEMMA KnownFacts ==
  ASSUME NEW known, NEW p \in Peers, NEW events, Network!KeptPeers(Network!Accepts(known, events))[p] # 0
  PROVE  known[p] # 0 \/ Network!By(events, "accepted", p) # {}
<1> DEFINE a == Network!Accepts(known, events)
<1>1. a[p] = Network!Latest(Network!By(events, "accepted", p), known[p])
  BY DEF Network!Accepts
<1> HIDE DEF a
<1>2. Network!KeptPeers(a)[p] \in {a[p], 0}
  BY DEF Network!KeptPeers
<1>3. a[p] # 0
  BY <1>2 DEF a
<1> QED BY <1>1, <1>3 DEF Network!Latest

LEMMA SavedState ==
  ASSUME Network!ScanSaved
  PROVE  /\ network'.last = IF scan.at = "read" THEN peersNow ELSE network.last
         /\ network'.known = Network!KeptPeers(Network!Accepts(Network!KnownAtFirst, Network!Unseen(Network!Events)))
         /\ network'.events = Network!Newest(network.events \cup Network!Events, EventLimit)
         /\ network'.newPeer = network.newPeer \cup {p \in Peers : Network!FromNewPeer(p, Network!Unseen(Network!Events))}
         /\ \A p \in Peers : network'.failed[p] = network.failed[p]
              + Network!Cardinality(Network!By(Network!Unseen(Network!Events), "failed", p))
         /\ scan' = Network!NoScan /\ scan'.at = "rest" /\ UNCHANGED <<peersNow, journal>>
<1>1. network' = Network!Reconciled
  BY DEF Network!ScanSaved
<1>2. scan' = Network!NoScan /\ scan'.at = "rest" /\ UNCHANGED <<peersNow, journal>>
  BY DEF Network!ScanSaved, Network!NoScan
<1> QED BY <1>1, <1>2 DEF Network!Reconciled

LEMMA NetworkNumbers ==
  ASSUME NetworkInv
  PROVE  /\ peersNow \in Nat /\ network.last \in Nat /\ network.last <= peersNow
         /\ ScanTakes \in Nat /\ Overlap \in Nat
         /\ \A e \in journal : e.at \in Nat /\ 1 <= e.at /\ e.at <= peersNow
         /\ saw \subseteq journal /\ network.events \subseteq saw
BY NetworkBounds DEF NetworkInv, JournalIsRead

\* journalctl has failed: nothing is added, and nothing that may be read again is dropped.
LEMMA SavedUnread ==
  ASSUME NetworkInv, OverlapSuffices, Network!ScanSaved, scan.at = "runs"
  PROVE  NetworkInv'
<1>1. Network!Events = {} /\ Network!Unseen(Network!Events) = {}
  BY DEF NetworkInv, ScanIsDue, Network!Events, Network!Unseen
<1>2. /\ network'.last = network.last /\ network'.newPeer = network.newPeer
      /\ network'.events = Network!Newest(network.events, EventLimit)
      /\ network'.known = Network!KeptPeers(Network!Accepts(network.known, {}))
      /\ \A p \in Peers : network'.failed[p] = network.failed[p]
           + Network!Cardinality(Network!By({}, "failed", p))
  BY <1>1, SavedState DEF Network!KnownAtFirst, Network!FromNewPeer, Network!By
<1>3. scan'.at = "rest" /\ UNCHANGED <<peersNow, journal, saw, trusted>>
  BY SavedState DEF Network!ScanSaved
<1>4. Flagged' = Flagged
  BY <1>2, <1>3 DEF Flagged
<1>5. JournalIsRead'
  <2>1. network'.events \subseteq network.events
    BY <1>2 DEF Network!Newest
  <2>2. ASSUME NEW e \in saw, e.at + Overlap >= network.last PROVE e \in network'.events
    <3>1. e \in network.events
      BY <2>2 DEF NetworkInv, JournalIsRead
    <3>2. \A f \in network.events : f.at \in Nat /\ f.at <= network.last
      BY NetworkNumbers DEF NetworkInv, JournalIsRead
    <3>3. \A f, g \in network.events : f.at = g.at => f = g
      BY NetworkNumbers DEF NetworkInv, JournalIsRead
    <3>4. e \in Network!Newest(network.events, EventLimit)
      BY <2>2, <3>1, <3>2, <3>3, NetworkNumbers, NewestKeeps
    <3> QED BY <1>2, <3>4
  <2> QED BY <1>2, <1>3, <2>1, <2>2 DEF NetworkInv, JournalIsRead
<1>6. PeersAreKnown'
  <2>1. Network!By({}, "accepted", "any") = {} /\ \A p \in Peers : Network!By({}, "accepted", p) = {}
    BY DEF Network!By
  <2>2. \A p \in Peers : network'.known[p] # 0 => network.known[p] # 0
    BY <1>2, <2>1, KnownFacts
  <2> QED BY <1>2, <1>3, <1>4, <2>2 DEF NetworkInv, PeersAreKnown
<1>7. FailuresCount'
  <2>1. \A p \in Peers : Network!By({}, "failed", p) = {}
    BY DEF Network!By
  <2>2. \A p \in Peers : network'.failed[p] = network.failed[p] + 0
    BY <1>2, <2>1, NetworkCount, FS_EmptySet
  <2>3. \A p \in Peers : Network!By(saw, "failed", p) \in SUBSET journal
    BY NetworkNumbers DEF Network!By
  <2>4. \A p \in Peers : Cardinality(Network!By(saw, "failed", p)) \in Nat
    BY <2>3, FS_Subset, FS_CardinalityType DEF NetworkInv, JournalIsRead
  <2>5. \A p \in Peers : network'.failed[p] = Cardinality(Network!By(saw, "failed", p))
    BY <2>2, <2>4 DEF NetworkInv, FailuresCount
  <2> QED BY <1>3, <2>5 DEF FailuresCount
<1>8. ScanIsDue'
  BY <1>3 DEF ScanIsDue
<1> QED BY <1>5, <1>6, <1>7, <1>8 DEF NetworkInv

\* What is new in a scan that has read the journal: what no earlier one saw.
LEMMA UnseenFacts ==
  ASSUME NetworkInv, OverlapSuffices, scan.at = "read"
  PROVE  /\ saw \cap Network!Unseen(Network!Events) = {}
         /\ scan.logged = saw \cup Network!Unseen(Network!Events)
         /\ \A e \in scan.logged : e.at + Overlap >= network.last => e \in Network!Events
         /\ Network!Events \subseteq scan.logged
<1>1. /\ scan.since = Network!Since /\ saw \subseteq scan.logged /\ scan.logged \subseteq journal
      /\ \A e \in journal : e \in saw \/ e.at + ScanTakes >= network.last
      /\ \A e \in saw : e.at + Overlap >= network.last => e \in network.events
  BY DEF NetworkInv, ScanIsDue, JournalIsRead
<1>2. \A e \in journal : e.at >= scan.since <=> e.at + Overlap >= network.last
  BY <1>1, NetworkNumbers DEF Network!Since
<1>3. Network!Events = {e \in scan.logged : e.at + Overlap >= network.last}
  BY <1>1, <1>2 DEF Network!Events
<1>4. \A e \in journal : e \in saw \/ e.at + Overlap >= network.last
  BY <1>1, NetworkNumbers DEF OverlapSuffices
<1>5. Network!Unseen(Network!Events) = Network!Events \ network.events
  BY DEF Network!Unseen
<1>6. saw \cap Network!Unseen(Network!Events) = {}
  BY <1>1, <1>3, <1>5
<1>7. \A e \in scan.logged : e \in saw \cup Network!Unseen(Network!Events)
  BY <1>1, <1>3, <1>4, <1>5, NetworkNumbers
<1> QED BY <1>1, <1>3, <1>5, <1>6, <1>7

LEMMA SavedJournal ==
  ASSUME NetworkInv, OverlapSuffices, Network!ScanSaved, scan.at = "read"
  PROVE  JournalIsRead'
<1> DEFINE U == network.events \cup Network!Events
<1>1. /\ network'.last = peersNow /\ network'.events = Network!Newest(U, EventLimit)
      /\ UNCHANGED <<peersNow, journal>> /\ saw' = scan.logged
  BY SavedState DEF Network!ScanSaved
<1>2. /\ saw \subseteq scan.logged /\ scan.logged \subseteq journal
      /\ \A e \in journal \ scan.logged : e.at + ScanTakes >= scan.ends
      /\ scan.ends \in Nat /\ scan.ends >= peersNow
  BY NetworkNumbers DEF NetworkInv, ScanIsDue
<1>3. Network!Events \subseteq scan.logged /\ \A e \in scan.logged : e.at + Overlap >= network.last => e \in Network!Events
  BY UnseenFacts
<1>4. U \subseteq scan.logged
  BY <1>2, <1>3, NetworkNumbers
<1>5. \A e \in journal \ scan.logged : e.at + ScanTakes >= peersNow
  BY <1>2, NetworkNumbers
<1>6. ASSUME NEW e \in scan.logged, e.at + Overlap >= peersNow PROVE e \in network'.events
  <2>1. e.at + Overlap >= network.last
    BY <1>2, <1>6, NetworkNumbers
  <2>2. e \in U
    BY <1>3, <2>1
  <2>3. \A f \in U : f.at \in Nat /\ f.at <= peersNow
    BY <1>2, <1>4, NetworkNumbers
  <2>4. \A f, g \in U : f.at = g.at => f = g
    BY <1>2, <1>4 DEF NetworkInv, JournalIsRead
  <2> HIDE DEF U
  <2>5. e \in Network!Newest(U, EventLimit)
    BY <1>6, <2>2, <2>3, <2>4, NetworkNumbers, NewestKeeps
  <2> QED BY <1>1, <2>5
<1>7. network'.events \subseteq scan.logged
  BY <1>1, <1>4 DEF Network!Newest
<1>8. \A e \in scan.logged : e.at <= peersNow
  BY <1>2, NetworkNumbers
<1>9. /\ peersNow \in Nat /\ peersNow >= 1 /\ IsFiniteSet(journal)
      /\ \A e \in journal : e.at \in 1 .. peersNow /\ e.peer \in Peers
      /\ \A e, f \in journal : e.at = f.at => e = f
  BY DEF NetworkInv, JournalIsRead
<1>10. peersNow \in 0 .. peersNow
  BY <1>9
<1> HIDE DEF U
<1> QED BY <1>1, <1>2, <1>5, <1>6, <1>7, <1>8, <1>9, <1>10 DEF JournalIsRead

LEMMA SavedPeers ==
  ASSUME NetworkInv, OverlapSuffices, Network!ScanSaved, scan.at = "read"
  PROVE  PeersAreKnown'
<1> DEFINE new == Network!Unseen(Network!Events)
<1>1. /\ network'.last = peersNow /\ saw' = scan.logged
      /\ network'.known = Network!KeptPeers(Network!Accepts(Network!KnownAtFirst, new))
      /\ network'.newPeer = network.newPeer \cup {p \in Peers : Network!FromNewPeer(p, new)}
  BY SavedState DEF Network!ScanSaved
<1>2. peersNow >= 1 /\ peersNow # 0
  BY NetworkNumbers DEF NetworkInv, JournalIsRead
<1>3. scan.logged = saw \cup new /\ Network!Events \subseteq scan.logged /\ new \subseteq Network!Events
  BY UnseenFacts DEF Network!Unseen
<1>4. \A e \in new : e.kind = "accepted" => e \in Network!By(new, "accepted", e.peer)
  BY DEF Network!By
<1> HIDE DEF new
<1>5. CASE scan.bootstrap
  <2>1. saw = {} /\ \A p \in Peers : network.known[p] = 0
    BY <1>5 DEF NetworkInv, ScanIsDue, PeersAreKnown
  <2>2. trusted' = {e.peer : e \in {f \in Network!Events : f.kind = "accepted"}}
    BY <1>5 DEF Network!ScanSaved
  <2>3. \A p \in Peers : Network!By(new, "accepted", p) # {} => p \in trusted'
    BY <1>3, <2>2 DEF Network!By
  <2>4. \A p \in Peers : Network!KnownAtFirst[p] # 0 => p \in trusted'
    <3>1. Network!KnownAtFirst = Network!Accepts(network.known, Network!Events)
      BY <1>5 DEF Network!KnownAtFirst
    <3>2. \A p \in Peers : Network!KnownAtFirst[p] = Network!Latest(Network!By(Network!Events, "accepted", p), network.known[p])
      BY <3>1 DEF Network!Accepts
    <3>3. \A p \in Peers : Network!KnownAtFirst[p] # 0 => Network!By(Network!Events, "accepted", p) # {}
      BY <2>1, <3>2 DEF Network!Latest
    <3> QED BY <2>2, <3>3 DEF Network!By
  <2>5. \A p \in Peers : network'.known[p] # 0 => p \in trusted'
    BY <1>1, <2>3, <2>4, KnownFacts
  <2>6. \A e \in scan.logged : e.kind = "accepted" => e.peer \in trusted'
    BY <1>3, <2>1, <2>2
  <2> QED BY <1>1, <1>2, <2>5, <2>6 DEF PeersAreKnown, Flagged
<1>6. CASE ~scan.bootstrap
  <2>1. trusted' = trusted /\ Network!KnownAtFirst = network.known
    BY <1>6 DEF Network!ScanSaved, Network!KnownAtFirst
  <2>2. Flagged \subseteq Flagged'
    BY <1>1, <2>1 DEF Flagged
  <2>3. \A p \in Peers : network.known[p] # 0 => p \in Flagged'
    BY <2>2 DEF NetworkInv, PeersAreKnown
  <2>4. ASSUME NEW p \in Peers, Network!By(new, "accepted", p) # {} PROVE p \in Flagged'
    <3>1. CASE network.known[p] # 0
      BY <2>3, <3>1
    <3>2. CASE network.known[p] = 0
      BY <1>1, <1>6, <2>1, <2>4, <3>2 DEF Network!FromNewPeer, Flagged
    <3> QED BY <3>1, <3>2
  <2>5. \A p \in Peers : network'.known[p] # 0 => p \in Flagged'
    BY <1>1, <2>1, <2>3, <2>4, KnownFacts
  <2>6. \A e \in saw : e.kind = "accepted" => e.peer \in Flagged'
    BY <2>2 DEF NetworkInv, PeersAreKnown
  <2>7. \A e \in new : e.peer \in Peers
    BY <1>3 DEF NetworkInv, JournalIsRead, ScanIsDue
  <2>8. \A e \in new : e.kind = "accepted" => e.peer \in Flagged'
    BY <1>4, <2>4, <2>7
  <2> QED BY <1>1, <1>2, <1>3, <2>5, <2>6, <2>8 DEF PeersAreKnown
<1> QED BY <1>5, <1>6

LEMMA SavedFailures ==
  ASSUME NetworkInv, OverlapSuffices, Network!ScanSaved, scan.at = "read"
  PROVE  FailuresCount'
<1> DEFINE new == Network!Unseen(Network!Events)
<1>1. /\ saw' = scan.logged
      /\ \A p \in Peers : network'.failed[p] = network.failed[p] + Network!Cardinality(Network!By(new, "failed", p))
  BY SavedState DEF Network!ScanSaved
<1>2. scan.logged = saw \cup new /\ saw \cap new = {} /\ new \subseteq journal /\ IsFiniteSet(journal) /\ saw \subseteq journal
  BY UnseenFacts, NetworkNumbers DEF NetworkInv, ScanIsDue, JournalIsRead
<1> HIDE DEF new
<1>3. ASSUME NEW p \in Peers PROVE network'.failed[p] = Cardinality(Network!By(scan.logged, "failed", p))
  <2> DEFINE S == Network!By(saw, "failed", p)
             T == Network!By(new, "failed", p)
  <2>1. Network!By(scan.logged, "failed", p) = S \cup T /\ S \cap T = {} /\ S \in SUBSET journal /\ T \in SUBSET journal
    BY <1>2 DEF Network!By
  <2>2. network.failed[p] = Cardinality(S)
    BY DEF NetworkInv, FailuresCount
  <2>3. network'.failed[p] = network.failed[p] + Cardinality(T)
    BY <1>1, NetworkCount
  <2> HIDE DEF S, T
  <2>4. IsFiniteSet(S) /\ IsFiniteSet(T)
    BY <1>2, <2>1, FS_Subset
  <2>5. Cardinality(S) \in Nat /\ Cardinality(T) \in Nat
    BY <2>4, FS_CardinalityType
  <2>6. Cardinality(S \cup T) = Cardinality(S) + Cardinality(T) - Cardinality({})
    BY <2>1, <2>4, FS_Union
  <2>7. Cardinality(S \cup T) = Cardinality(S) + Cardinality(T)
    BY <2>5, <2>6, FS_EmptySet
  <2> QED BY <2>1, <2>2, <2>3, <2>7
<1> QED BY <1>1, <1>3 DEF FailuresCount

LEMMA ScanSavedStep ==
  ASSUME NetworkInv, OverlapSuffices, Network!ScanSaved
  PROVE  NetworkInv'
<1>1. scan.at \in {"runs", "read"}
  BY DEF NetworkInv, ScanIsDue, Network!ScanSaved
<1>2. ScanIsDue'
  BY SavedState DEF ScanIsDue
<1> QED BY <1>1, <1>2, SavedUnread, SavedJournal, SavedPeers, SavedFailures DEF NetworkInv

LEMMA ScanSteps ==
  ASSUME NetworkInv, Network!ScanBegins \/ Network!ReadJournal \/ Network!ScanLost
  PROVE  NetworkInv'
<1>1. UNCHANGED <<peersNow, journal, network, saw, trusted>>
  BY DEF Network!ScanBegins, Network!ReadJournal, Network!ScanLost
<1>2. JournalIsRead' /\ PeersAreKnown' /\ FailuresCount'
  BY <1>1 DEF NetworkInv, JournalIsRead, PeersAreKnown, FailuresCount, Flagged
<1>3. Network!Since' = Network!Since
  BY <1>1 DEF Network!Since
<1>4. CASE Network!ScanBegins
  <2>1. /\ scan'.at = "runs" /\ scan'.since = Network!Since /\ scan'.bootstrap = (network.last = 0)
        /\ scan'.ends = peersNow + ScanTakes /\ scan'.logged = {}
    BY <1>4 DEF Network!ScanBegins
  <2>2. scan'.ends \in peersNow .. peersNow + ScanTakes
    BY <2>1, NetworkNumbers
  <2> QED BY <1>1, <1>2, <1>3, <2>1, <2>2 DEF NetworkInv, ScanIsDue
<1>5. CASE Network!ReadJournal
  <2>1. scan.at = "runs" /\ scan' = [scan EXCEPT !.at = "read", !.logged = journal]
    BY <1>5 DEF Network!ReadJournal
  <2> QED BY <1>1, <1>2, <1>3, <2>1 DEF NetworkInv, ScanIsDue, JournalIsRead
<1>6. CASE Network!ScanLost
  BY <1>2, <1>6 DEF NetworkInv, ScanIsDue, Network!ScanLost, Network!NoScan
<1> QED BY <1>4, <1>5, <1>6

LEMMA LoginStep ==
  ASSUME NetworkInv, NEW p \in Peers, NEW kind \in Network!Kinds, Network!Login(p, kind)
  PROVE  NetworkInv'
<1> DEFINE e0 == [at |-> peersNow, peer |-> p, kind |-> kind]
<1>1. /\ \A e \in journal : e.at # peersNow
      /\ journal' = journal \cup {e0} /\ UNCHANGED <<peersNow, network, scan, saw, trusted>>
  BY DEF Network!Login
<1>2. e0.at = peersNow /\ e0.peer = p
  OBVIOUS
<1> HIDE DEF e0
<1>3. IsFiniteSet(journal')
  BY <1>1, FS_AddElement DEF NetworkInv, JournalIsRead
<1>4. peersNow \in 1 .. peersNow /\ peersNow + ScanTakes >= network.last
  BY NetworkNumbers DEF NetworkInv, JournalIsRead
<1>5. e0 \notin journal
  BY <1>1, <1>2
<1>6. JournalIsRead'
  <2>1. \A e \in journal' : e.at \in 1 .. peersNow /\ e.peer \in Peers
    BY <1>1, <1>2, <1>4 DEF NetworkInv, JournalIsRead
  <2>2. \A e, f \in journal' : e.at = f.at => e = f
    BY <1>1, <1>2 DEF NetworkInv, JournalIsRead
  <2>3. \A e \in journal' \ saw : e.at + ScanTakes >= network.last
    BY <1>1, <1>2, <1>4 DEF NetworkInv, JournalIsRead
  <2> QED BY <1>1, <1>3, <2>1, <2>2, <2>3 DEF NetworkInv, JournalIsRead
<1>7. PeersAreKnown' /\ FailuresCount'
  BY <1>1 DEF NetworkInv, PeersAreKnown, FailuresCount, Flagged
<1>8. ScanIsDue'
  <2>1. Network!Since' = Network!Since
    BY <1>1 DEF Network!Since
  <2>2. scan.at = "read" => peersNow + ScanTakes >= scan.ends
    BY NetworkNumbers DEF NetworkInv, ScanIsDue
  <2>3. scan.at = "read" => \A e \in journal' \ scan.logged : e.at + ScanTakes >= scan.ends
    BY <1>1, <1>2, <2>2 DEF NetworkInv, ScanIsDue
  <2> QED BY <1>1, <2>1, <2>3 DEF NetworkInv, ScanIsDue
<1> QED BY <1>6, <1>7, <1>8 DEF NetworkInv

LEMMA NetworkTickStep ==
  ASSUME NetworkInv, Network!Tick
  PROVE  NetworkInv'
<1>1. /\ peersNow' = peersNow + 1 /\ (scan.at # "rest" => peersNow < scan.ends)
      /\ UNCHANGED <<journal, network, scan, saw, trusted>>
  BY DEF Network!Tick
<1>2. JournalIsRead'
  <2>1. peersNow' \in Nat /\ peersNow' >= 1 /\ network.last \in 0 .. peersNow'
    BY <1>1, NetworkNumbers
  <2>2. \A e \in journal : e.at \in 1 .. peersNow' /\ e.peer \in Peers
    BY <1>1, NetworkNumbers DEF NetworkInv, JournalIsRead
  <2> QED BY <1>1, <2>1, <2>2 DEF NetworkInv, JournalIsRead
<1>3. PeersAreKnown' /\ FailuresCount'
  BY <1>1 DEF NetworkInv, PeersAreKnown, FailuresCount, Flagged
<1>4. ScanIsDue'
  <2>1. Network!Since' = Network!Since
    BY <1>1 DEF Network!Since
  <2>2. scan.at # "rest" => scan.ends \in peersNow' .. peersNow' + ScanTakes
    BY <1>1, NetworkNumbers DEF NetworkInv, ScanIsDue
  <2> QED BY <1>1, <2>1, <2>2 DEF NetworkInv, ScanIsDue
<1> QED BY <1>2, <1>3, <1>4 DEF NetworkInv

LEMMA NetworkBegins == Network!Init => NetworkInv
<1> SUFFICES ASSUME Network!Init PROVE NetworkInv
  OBVIOUS
<1>1. /\ peersNow = 1 /\ journal = {} /\ scan = Network!NoScan /\ scan.at = "rest" /\ saw = {} /\ trusted = {}
      /\ network.last = 0 /\ network.events = {} /\ network.newPeer = {}
      /\ \A p \in Peers : network.known[p] = 0 /\ network.failed[p] = 0
  BY DEF Network!Init, Network!NoScan
<1>2. \A p \in Peers : Network!By(saw, "failed", p) = {}
  BY <1>1 DEF Network!By
<1>3. FailuresCount
  BY <1>1, <1>2, FS_EmptySet DEF FailuresCount
<1>4. JournalIsRead
  BY <1>1, FS_EmptySet DEF JournalIsRead
<1> QED BY <1>1, <1>3, <1>4 DEF NetworkInv, PeersAreKnown, ScanIsDue

LEMMA NetworkStep ==
  ASSUME OverlapSuffices, NetworkInv, [Network!Next]_(Network!vars)
  PROVE  NetworkInv'
<1>1. CASE Network!Next
  BY <1>1, ScanSteps, ScanSavedStep, LoginStep, NetworkTickStep DEF Network!Next
<1>2. CASE UNCHANGED Network!vars
  <2>1. UNCHANGED <<peersNow, journal, network, scan, saw, trusted>>
    BY <1>2 DEF Network!vars
  <2> QED BY <2>1 DEF NetworkInv, JournalIsRead, PeersAreKnown, ScanIsDue, FailuresCount, Flagged, Network!Since
<1> QED BY <1>1, <1>2

\* Whoever logged in before the journal was last read is trusted or flagged, and each failed login was
\* counted once, whatever scans fail or are lost, if the journal is read again as far back as a scan
\* takes and the events of that time are stored.
THEOREM LoginsAreSeenOnceHolds == OverlapSuffices => (Network!Spec => []LoginsAreSeenOnce)
<1> SUFFICES ASSUME OverlapSuffices PROVE Network!Spec => []LoginsAreSeenOnce
  OBVIOUS
<1>1. NetworkInv /\ [Network!Next]_(Network!vars) => NetworkInv'
  BY NetworkStep
<1>2. NetworkInv => LoginsAreSeenOnce
  <2>1. NetworkInv => Network!NewPeersAreFlagged
    BY DEF NetworkInv, PeersAreKnown, Flagged, Network!NewPeersAreFlagged
  <2>2. NetworkInv => Network!FailuresCountOnce
    BY NetworkCount DEF NetworkInv, FailuresCount, Network!FailuresCountOnce
  <2> QED BY <2>1, <2>2 DEF LoginsAreSeenOnce, Network!LoginsAreSeenOnce
<1> QED BY <1>1, <1>2, NetworkBegins, PTL DEF Network!Spec

---------------------------------------------------------------------------
(* ObservationCache.                                                       *)

OnePerKey(es) == \A i, j \in DOMAIN es : es[i].key = es[j].key => i = j

\* The entries of es are of the last loads of their keys.
EntryIsLatest(e, ls) ==
  /\ e.load \in DOMAIN ls /\ ls[e.load].key = e.key /\ (e.pending <=> ls[e.load].result = "running")
  /\ \A l \in DOMAIN ls : l > e.load => ls[l].key # e.key

\* Every load in progress has an entry, unless that was dropped.
EntriesSound(es, ls, dr) ==
  /\ es \in Seq(Cache!Entries) /\ Len(es) <= CachedKeys /\ OnePerKey(es)
  /\ \A e \in Cache!ToSet(es) : EntryIsLatest(e, ls)
  /\ \A l \in DOMAIN ls : ls[l].result = "running" => l \in dr \cup Cache!InFlight(es)

\* Who waits does so for a load in progress; who was answered got a recent result.
CallSound(c, ls, t) ==
  /\ c \in Cache!Calls /\ c.asked <= t
  /\ c.at = "waiting" => c.load \in DOMAIN ls /\ ls[c.load].result = "running"
  /\ c.at = "answered" =>
       /\ c.load \in DOMAIN ls /\ ls[c.load].result # "running"
       /\ \/ ls[c.load].ended >= c.asked
          \/ ~c.fresh /\ ls[c.load].ended + TTL > c.asked

LoadsTyped(ls) == ls \in Seq(Cache!Loads) /\ Len(ls) <= MaxLoads

CacheInv ==
  /\ cacheNow \in 0 .. MaxCacheTime /\ LoadsTyped(loads) /\ dropped \in SUBSET (1 .. MaxLoads)
  /\ EntriesSound(entries, loads, dropped)
  /\ DOMAIN caller = Callers /\ caller = [c \in Callers |-> caller[c]]
  /\ \A c \in Callers : CallSound(caller[c], loads, cacheNow)

LEMMA InSequence ==
  ASSUME NEW s, NEW e
  PROVE  e \in Cache!ToSet(s) <=> \E i \in DOMAIN s : e = s[i]
BY DEF Cache!ToSet

LEMMA InFlightFacts ==
  ASSUME NEW s, NEW l
  PROVE  l \in Cache!InFlight(s) <=> \E e \in Cache!ToSet(s) : e.pending /\ e.load = l
BY DEF Cache!InFlight

LEMMA EntryFacts ==
  ASSUME NEW es \in Seq(Cache!Entries), NEW e \in Cache!ToSet(es)
  PROVE  e \in Cache!Entries /\ e.key \in Keys /\ e.load \in 1 .. MaxLoads /\ e.pending \in BOOLEAN
<1>1. PICK i \in DOMAIN es : e = es[i]
  BY InSequence
<1>2. e \in Cache!Entries
  BY <1>1
<1> QED BY <1>2 DEF Cache!Entries

\* One entry is removed.
LEMMA RemovedFacts ==
  ASSUME NEW s \in Seq(Cache!Entries), OnePerKey(s), NEW i \in DOMAIN s
  PROVE  LET w == Cache!RemoveAt(s, i)
         IN  /\ w \in Seq(Cache!Entries) /\ Len(w) = Len(s) - 1 /\ OnePerKey(w)
             /\ Cache!ToSet(w) = {e \in Cache!ToSet(s) : e.key # s[i].key}
<1> DEFINE w == Cache!RemoveAt(s, i)
           a == SubSeq(s, 1, i - 1)
           b == SubSeq(s, i + 1, Len(s))
<1>1. /\ i \in 1 .. Len(s) /\ Len(s) \in Nat /\ i \in Nat /\ 1 <= i /\ i <= Len(s)
      /\ \A j \in 1 .. Len(s) : s[j] \in Cache!Entries
  OBVIOUS
<1>2. /\ a \in Seq(Cache!Entries) /\ Len(a) = i - 1 /\ \A j \in 1 .. i - 1 : a[j] = s[j]
  <2>1. 1 \in Int /\ i - 1 \in Int /\ \A j \in 1 .. i - 1 : s[j] \in Cache!Entries
    BY <1>1
  <2>2. /\ a \in Seq(Cache!Entries) /\ Len(a) = (IF 1 <= i - 1 THEN i - 1 - 1 + 1 ELSE 0)
        /\ \A j \in 1 .. i - 1 - 1 + 1 : a[j] = s[1 + j - 1]
    BY <2>1, SubSeqProperties
  <2>3. Len(a) = i - 1
    BY <1>1, <2>2
  <2>4. \A j \in 1 .. i - 1 : j \in 1 .. i - 1 - 1 + 1 /\ 1 + j - 1 = j
    BY <1>1
  <2> QED BY <2>2, <2>3, <2>4
<1>3. /\ b \in Seq(Cache!Entries) /\ Len(b) = Len(s) - i /\ \A j \in 1 .. Len(s) - i : b[j] = s[i + j]
  <2>1. i + 1 \in Int /\ Len(s) \in Int /\ \A j \in i + 1 .. Len(s) : s[j] \in Cache!Entries
    BY <1>1
  <2>2. /\ b \in Seq(Cache!Entries) /\ Len(b) = (IF i + 1 <= Len(s) THEN Len(s) - (i + 1) + 1 ELSE 0)
        /\ \A j \in 1 .. Len(s) - (i + 1) + 1 : b[j] = s[i + 1 + j - 1]
    BY <2>1, SubSeqProperties
  <2>3. Len(b) = Len(s) - i
    BY <1>1, <2>2
  <2>4. \A j \in 1 .. Len(s) - i : j \in 1 .. Len(s) - (i + 1) + 1 /\ i + 1 + j - 1 = i + j
    BY <1>1
  <2> QED BY <2>2, <2>3, <2>4
<1>4. w = a \o b
  BY DEF Cache!RemoveAt
<1> HIDE DEF w, a, b
<1>5. /\ w \in Seq(Cache!Entries) /\ Len(w) = Len(a) + Len(b)
      /\ \A j \in 1 .. Len(a) + Len(b) : w[j] = IF j <= Len(a) THEN a[j] ELSE b[j - Len(a)]
  BY <1>2, <1>3, <1>4, ConcatProperties
<1>6. Len(w) = Len(s) - 1 /\ DOMAIN w = 1 .. Len(s) - 1
  BY <1>1, <1>2, <1>3, <1>5
<1>0. Len(a) = i - 1 /\ Len(b) = Len(s) - i /\ Len(a) + Len(b) = Len(s) - 1
  BY <1>1, <1>2, <1>3
<1>7. ASSUME NEW j \in 1 .. Len(s) - 1, j < i PROVE w[j] = s[j]
  <2>1. j \in 1 .. i - 1 /\ j <= Len(a) /\ j \in 1 .. Len(a) + Len(b)
    BY <1>1, <1>7, <1>0
  <2>2. w[j] = a[j]
    BY <1>5, <2>1
  <2> QED BY <1>2, <2>1, <2>2
<1>8. ASSUME NEW j \in 1 .. Len(s) - 1, ~(j < i) PROVE w[j] = s[j + 1]
  <2>1. j - (i - 1) \in 1 .. Len(s) - i /\ j \in 1 .. Len(a) + Len(b) /\ ~(j <= Len(a))
    <3>1. Len(a) \in Nat /\ Len(b) \in Nat /\ Len(s) \in Nat /\ i \in Nat /\ j \in Nat /\ 1 <= j /\ j <= Len(s) - 1
      BY <1>1, <1>2, <1>3
    <3>2. i <= j
      BY <1>1, <1>8, <3>1
    <3>3. j - (i - 1) \in 1 .. Len(s) - i
      BY <3>1, <3>2
    <3>4. j \in 1 .. Len(a) + Len(b)
      BY <1>0
    <3>5. ~(j <= Len(a))
      BY <1>0, <3>1, <3>2
    <3> QED BY <3>3, <3>4, <3>5
  <2>3. w[j] = b[j - Len(a)]
    BY <1>5, <2>1
  <2>4. w[j] = b[j - (i - 1)]
    BY <1>0, <2>3
  <2>2. i + (j - (i - 1)) = j + 1
    BY <1>1
  <2> QED BY <1>3, <2>1, <2>2, <2>4
<1>9. \A j \in DOMAIN w : \E k \in DOMAIN s : k # i /\ w[j] = s[k] /\ k = IF j < i THEN j ELSE j + 1
  BY <1>1, <1>6, <1>7, <1>8
<1>10. OnePerKey(w)
  <2> SUFFICES ASSUME NEW j \in DOMAIN w, NEW k \in DOMAIN w, w[j].key = w[k].key PROVE j = k
    BY DEF OnePerKey
  <2>1. PICK m \in DOMAIN s : w[j] = s[m] /\ m = IF j < i THEN j ELSE j + 1
    BY <1>9
  <2>2. PICK n \in DOMAIN s : w[k] = s[n] /\ n = IF k < i THEN k ELSE k + 1
    BY <1>9
  <2>3. m = n
    BY <2>1, <2>2 DEF OnePerKey
  <2> QED BY <1>1, <1>6, <2>1, <2>2, <2>3
<1>11. \A e : e \in Cache!ToSet(w) <=> e \in Cache!ToSet(s) /\ e.key # s[i].key
  <2> TAKE e
  <2>1. ASSUME e \in Cache!ToSet(w) PROVE e \in Cache!ToSet(s) /\ e.key # s[i].key
    <3>1. PICK j \in DOMAIN w : e = w[j]
      BY <2>1, InSequence
    <3>2. PICK k \in DOMAIN s : k # i /\ w[j] = s[k]
      BY <1>9
    <3> QED BY <3>1, <3>2, InSequence DEF OnePerKey
  <2>2. ASSUME e \in Cache!ToSet(s), e.key # s[i].key PROVE e \in Cache!ToSet(w)
    <3>1. PICK k \in DOMAIN s : e = s[k]
      BY <2>2, InSequence
    <3>2. k # i /\ k \in 1 .. Len(s)
      BY <2>2, <3>1
    <3>3. CASE k < i
      <4>1. k \in 1 .. Len(s) - 1 /\ w[k] = s[k]
        BY <1>1, <1>7, <3>2, <3>3
      <4> QED BY <1>6, <3>1, <4>1, InSequence
    <3>4. CASE ~(k < i)
      <4>1. k - 1 \in 1 .. Len(s) - 1 /\ ~(k - 1 < i) /\ k - 1 + 1 = k
        BY <1>1, <3>2, <3>4
      <4>2. w[k - 1] = s[k]
        BY <1>8, <4>1
      <4> QED BY <1>6, <3>1, <4>1, <4>2, InSequence
    <3> QED BY <3>3, <3>4
  <2> QED BY <2>1, <2>2
<1>12. Cache!ToSet(w) = {e \in Cache!ToSet(s) : e.key # s[i].key}
  BY <1>11
<1> QED BY <1>5, <1>6, <1>10, <1>12 DEF w

LEMMA CurrentFacts ==
  ASSUME NEW k, NEW e
  PROVE  e \in Cache!Current(k) <=> e \in Cache!ToSet(entries) /\ e.key = k
BY DEF Cache!Current

LEMMA WithoutFacts ==
  ASSUME CacheInv, NEW k
  PROVE  /\ Cache!Without(k) \in Seq(Cache!Entries) /\ OnePerKey(Cache!Without(k))
         /\ Cache!ToSet(Cache!Without(k)) = {e \in Cache!ToSet(entries) : e.key # k}
         /\ Len(Cache!Without(k)) <= CachedKeys
         /\ Cache!Current(k) # {} => Len(Cache!Without(k)) < CachedKeys
<1>1. entries \in Seq(Cache!Entries) /\ Len(entries) <= CachedKeys /\ OnePerKey(entries) /\ CachedKeys \in Nat
  BY CacheBounds DEF CacheInv, EntriesSound
<1>2. CASE Cache!Current(k) = {}
  <2>1. Cache!Without(k) = entries
    BY <1>2 DEF Cache!Without
  <2>2. \A e \in Cache!ToSet(entries) : e.key # k
    BY <1>2, CurrentFacts
  <2> QED BY <1>1, <1>2, <2>1, <2>2
<1>3. CASE Cache!Current(k) # {}
  <2>1. \E e : e \in Cache!ToSet(entries) /\ e.key = k
    BY <1>3, CurrentFacts
  <2>2. \E i \in DOMAIN entries : entries[i].key = k
    BY <2>1, InSequence
  <2> DEFINE i == CHOOSE i \in DOMAIN entries : entries[i].key = k
  <2>3. i \in DOMAIN entries /\ entries[i].key = k
    BY <2>2
  <2>4. Cache!Without(k) = Cache!RemoveAt(entries, i)
    BY <1>3 DEF Cache!Without
  <2> HIDE DEF i
  <2>5. /\ Cache!Without(k) \in Seq(Cache!Entries) /\ OnePerKey(Cache!Without(k))
        /\ Cache!ToSet(Cache!Without(k)) = {e \in Cache!ToSet(entries) : e.key # k}
        /\ Len(Cache!Without(k)) = Len(entries) - 1
    BY <1>1, <2>3, <2>4, RemovedFacts
  <2>6. Len(Cache!Without(k)) < CachedKeys /\ Len(Cache!Without(k)) <= CachedKeys
    BY <1>1, <2>5
  <2> QED BY <2>5, <2>6
<1> QED BY <1>2, <1>3

LEMMA AddedFacts ==
  ASSUME NEW w \in Seq(Cache!Entries), OnePerKey(w), NEW e \in Cache!Entries,
         \A f \in Cache!ToSet(w) : f.key # e.key
  PROVE  /\ Append(w, e) \in Seq(Cache!Entries) /\ Len(Append(w, e)) = Len(w) + 1 /\ OnePerKey(Append(w, e))
         /\ Cache!ToSet(Append(w, e)) = Cache!ToSet(w) \cup {e}
<1> DEFINE a == Append(w, e)
<1>1. /\ a \in Seq(Cache!Entries) /\ Len(a) = Len(w) + 1 /\ Len(w) \in Nat /\ a[Len(w) + 1] = e
      /\ \A j \in 1 .. Len(w) : a[j] = w[j]
  BY AppendProperties
<1> HIDE DEF a
<1>2. DOMAIN a = 1 .. Len(w) + 1 /\ DOMAIN w = 1 .. Len(w)
  BY <1>1
<1>3. \A j \in DOMAIN a : (j \in DOMAIN w /\ a[j] = w[j]) \/ (j = Len(w) + 1 /\ a[j] = e)
  <2> TAKE j \in DOMAIN a
  <2>1. j \in 1 .. Len(w) \/ j = Len(w) + 1
    BY <1>1, <1>2
  <2> QED BY <1>1, <1>2, <2>1
<1>4. \A j \in DOMAIN w : w[j].key # e.key
  BY InSequence
<1>5. OnePerKey(a)
  BY <1>3, <1>4 DEF OnePerKey
<1>6. \A f : f \in Cache!ToSet(a) <=> f \in Cache!ToSet(w) \cup {e}
  <2> TAKE f
  <2>1. f \in Cache!ToSet(a) => f \in Cache!ToSet(w) \cup {e}
    BY <1>3, InSequence
  <2>2. f \in Cache!ToSet(w) => f \in Cache!ToSet(a)
    BY <1>1, <1>2, InSequence
  <2>3. Len(w) + 1 \in DOMAIN a
    BY <1>1, <1>2
  <2>4. e \in Cache!ToSet(a)
    BY <1>1, <2>3, InSequence
  <2> QED BY <2>1, <2>2, <2>4
<1> QED BY <1>1, <1>5, <1>6 DEF a

LEMMA TrimmedFacts ==
  ASSUME NEW s \in Seq(Cache!Entries), OnePerKey(s)
  PROVE  /\ Cache!Trimmed(s) \in Seq(Cache!Entries) /\ Len(Cache!Trimmed(s)) <= CachedKeys
         /\ OnePerKey(Cache!Trimmed(s)) /\ Cache!ToSet(Cache!Trimmed(s)) \subseteq Cache!ToSet(s)
<1> DEFINE t == Cache!Trimmed(s)
           d == Len(s) - CachedKeys
<1>1. CachedKeys \in Nat /\ Len(s) \in Nat /\ DOMAIN s = 1 .. Len(s) /\ \A j \in 1 .. Len(s) : s[j] \in Cache!Entries
  BY CacheBounds
<1>2. CASE Len(s) <= CachedKeys
  <2>1. t = s
    BY <1>1, <1>2 DEF Cache!Trimmed
  <2> QED BY <1>2, <2>1
<1>3. CASE Len(s) > CachedKeys
  <2>1. t = SubSeq(s, d + 1, Len(s)) /\ d \in Nat /\ d >= 1 /\ d <= Len(s)
    BY <1>1, <1>3 DEF Cache!Trimmed
  <2> HIDE DEF t
  <2>2. d + 1 \in Int /\ Len(s) \in Int /\ \A j \in d + 1 .. Len(s) : s[j] \in Cache!Entries
    BY <1>1, <2>1
  <2>3. /\ t \in Seq(Cache!Entries) /\ Len(t) = (IF d + 1 <= Len(s) THEN Len(s) - (d + 1) + 1 ELSE 0)
        /\ \A j \in 1 .. Len(s) - (d + 1) + 1 : t[j] = s[d + 1 + j - 1]
    BY <2>1, <2>2, SubSeqProperties
  <2>4. Len(t) = CachedKeys /\ DOMAIN t = 1 .. CachedKeys
    BY <1>1, <1>3, <2>1, <2>3
  <2>5. ASSUME NEW j \in DOMAIN t PROVE t[j] = s[d + j] /\ d + j \in DOMAIN s /\ j \in Nat
    <3>1. j \in 1 .. Len(s) - (d + 1) + 1 /\ d + 1 + j - 1 = d + j /\ d + j \in 1 .. Len(s) /\ j \in Nat
      BY <1>1, <1>3, <2>4
    <3> QED BY <1>1, <2>3, <3>1
  <2>6. d \in Nat
    BY <2>1
  <2> HIDE DEF d
  <2>7. OnePerKey(t)
    <3> SUFFICES ASSUME NEW j \in DOMAIN t, NEW k \in DOMAIN t, t[j].key = t[k].key PROVE j = k
      BY DEF OnePerKey
    <3>1. d + j = d + k /\ j \in Nat /\ k \in Nat
      BY <2>5 DEF OnePerKey
    <3> QED BY <2>6, <3>1
  <2>8. Cache!ToSet(t) \subseteq Cache!ToSet(s)
    BY <2>5, InSequence
  <2> QED BY <1>1, <2>3, <2>4, <2>7, <2>8 DEF t
<1> QED BY <1>1, <1>2, <1>3

LEMMA CacheFacts ==
  ASSUME CacheInv
  PROVE  /\ entries \in Seq(Cache!Entries) /\ Len(entries) <= CachedKeys /\ OnePerKey(entries)
         /\ loads \in Seq(Cache!Loads) /\ Len(loads) \in Nat /\ Len(loads) <= MaxLoads
         /\ DOMAIN loads = 1 .. Len(loads) /\ MaxLoads \in Nat /\ CachedKeys \in Nat /\ TTL \in Nat
         /\ cacheNow \in Nat /\ dropped \subseteq 1 .. MaxLoads
         /\ \A l \in DOMAIN loads : loads[l] \in Cache!Loads /\ l \in 1 .. MaxLoads /\ loads[l].ended \in Nat
         /\ \A e \in Cache!ToSet(entries) : EntryIsLatest(e, loads)
<1>1. /\ entries \in Seq(Cache!Entries) /\ Len(entries) <= CachedKeys /\ OnePerKey(entries)
      /\ loads \in Seq(Cache!Loads) /\ Len(loads) <= MaxLoads /\ dropped \subseteq 1 .. MaxLoads
      /\ cacheNow \in Nat /\ \A e \in Cache!ToSet(entries) : EntryIsLatest(e, loads)
  BY CacheBounds DEF CacheInv, EntriesSound, LoadsTyped
<1>2. Len(loads) \in Nat /\ DOMAIN loads = 1 .. Len(loads) /\ MaxLoads \in Nat /\ CachedKeys \in Nat /\ TTL \in Nat
  BY <1>1, CacheBounds
<1>3. \A l \in DOMAIN loads : loads[l] \in Cache!Loads /\ l \in 1 .. MaxLoads
  BY <1>1, <1>2
<1>4. \A l \in DOMAIN loads : loads[l].ended \in Nat
  BY <1>3, CacheBounds DEF Cache!Loads
<1> QED BY <1>1, <1>2, <1>3, <1>4

\* What one caller does leaves the others.
LEMMA CallersSound ==
  ASSUME CacheInv, NEW c \in Callers, NEW call, NEW ls, NEW t,
         caller' = [caller EXCEPT ![c] = call], CallSound(call, ls, t),
         \A d \in Callers : CallSound(caller[d], ls, t)
  PROVE  /\ DOMAIN caller' = Callers /\ caller' = [d \in Callers |-> caller'[d]]
         /\ \A d \in Callers : CallSound(caller'[d], ls, t)
<1>1. DOMAIN caller = Callers /\ caller = [d \in Callers |-> caller[d]]
  BY DEF CacheInv
<1>2. caller' = [d \in Callers |-> IF d = c THEN call ELSE caller[d]]
  BY <1>1
<1> QED BY <1>2

LEMMA AskedCall ==
  ASSUME CacheInv, NEW c \in Callers, NEW k \in Keys, NEW fresh \in BOOLEAN, NEW l \in 1 .. MaxLoads, NEW at,
         NEW ls, Cache!Asks(c, k, fresh, at, l), l \in DOMAIN ls,
         \A d \in Callers : CallSound(caller[d], ls, cacheNow),
         \/ at = "waiting" /\ ls[l].result = "running"
         \/ /\ at = "answered" /\ ls[l].result # "running"
            /\ ~fresh /\ ls[l].ended + TTL > cacheNow
  PROVE  /\ DOMAIN caller' = Callers /\ caller' = [d \in Callers |-> caller'[d]]
         /\ \A d \in Callers : CallSound(caller'[d], ls, cacheNow)
<1> DEFINE call == [at |-> at, key |-> k, fresh |-> fresh, asked |-> cacheNow, load |-> l]
<1>1. caller' = [caller EXCEPT ![c] = call]
  BY DEF Cache!Asks
<1>2. l \in 0 .. MaxLoads /\ cacheNow \in 0 .. MaxCacheTime /\ cacheNow <= cacheNow
  BY CacheFacts DEF CacheInv
<1>3. at \in {"idle", "waiting", "answered"}
  OBVIOUS
<1>4. call \in Cache!Calls
  BY <1>2, <1>3 DEF Cache!Calls
<1>5. call.at = at /\ call.fresh = fresh /\ call.asked = cacheNow /\ call.load = l
  OBVIOUS
<1> HIDE DEF call
<1>6. CallSound(call, ls, cacheNow)
  BY <1>2, <1>4, <1>5 DEF CallSound
<1>7. \A d \in Callers : CallSound(caller[d], ls, cacheNow)
  OBVIOUS
<1> QED BY <1>1, <1>6, <1>7, CallersSound

LEMMA ResultsAre ==
  ASSUME CacheInv, NEW e \in Cache!ToSet(entries)
  PROVE  /\ e \in Cache!Entries /\ e.key \in Keys /\ e.load \in 1 .. MaxLoads /\ e.load \in DOMAIN loads
         /\ loads[e.load].key = e.key /\ e.pending \in BOOLEAN
         /\ (e.pending <=> loads[e.load].result = "running")
         /\ \A l \in DOMAIN loads : l > e.load => loads[l].key # e.key
BY CacheFacts, EntryFacts DEF EntryIsLatest

LEMMA JoinStep ==
  ASSUME CacheInv, NEW c \in Callers, NEW k \in Keys, NEW fresh \in BOOLEAN, Cache!Join(c, k, fresh)
  PROVE  CacheInv'
<1>1. PICK e \in Cache!Current(k) : e.pending /\ Cache!Asks(c, k, fresh, "waiting", e.load)
  BY DEF Cache!Join, Cache!Shared
<1>2. UNCHANGED <<cacheNow, entries, loads, dropped>>
  BY <1>1 DEF Cache!Join, Cache!Asks
<1>3. e.load \in 1 .. MaxLoads /\ e.load \in DOMAIN loads /\ loads[e.load].result = "running"
  BY <1>1, CurrentFacts, ResultsAre
<1>4. /\ DOMAIN caller' = Callers /\ caller' = [d \in Callers |-> caller'[d]]
      /\ \A d \in Callers : CallSound(caller'[d], loads, cacheNow)
  BY <1>1, <1>3, AskedCall DEF CacheInv
<1> QED BY <1>2, <1>4 DEF CacheInv

LEMMA HitStep ==
  ASSUME CacheInv, NEW c \in Callers, NEW k \in Keys, NEW fresh \in BOOLEAN, Cache!Hit(c, k, fresh)
  PROVE  CacheInv'
<1>1. PICK e \in Cache!Current(k) : /\ Cache!Usable(e, fresh) /\ Cache!Asks(c, k, fresh, "answered", e.load)
                                    /\ entries' = Append(Cache!Without(k), e)
  BY DEF Cache!Hit
<1>2. UNCHANGED <<cacheNow, loads, dropped>>
  BY <1>1 DEF Cache!Hit, Cache!Asks
<1>3. e \in Cache!ToSet(entries) /\ e.key = k /\ Cache!Current(k) # {}
  BY <1>1, CurrentFacts
<1>4. ~e.pending /\ ~fresh /\ loads[e.load].ended + TTL > cacheNow
  BY <1>1 DEF Cache!Usable, Cache!Unexpired
<1>5. e.load \in 1 .. MaxLoads /\ e.load \in DOMAIN loads /\ loads[e.load].result # "running"
  BY <1>3, <1>4, ResultsAre
<1>6. /\ DOMAIN caller' = Callers /\ caller' = [d \in Callers |-> caller'[d]]
      /\ \A d \in Callers : CallSound(caller'[d], loads, cacheNow)
  BY <1>1, <1>4, <1>5, AskedCall DEF CacheInv
<1> DEFINE w == Cache!Without(k)
<1>7. /\ w \in Seq(Cache!Entries) /\ OnePerKey(w) /\ Len(w) < CachedKeys
      /\ Cache!ToSet(w) = {f \in Cache!ToSet(entries) : f.key # k}
  BY <1>3, WithoutFacts
<1>8. e \in Cache!Entries
  BY <1>3, ResultsAre
<1>9. entries' = Append(w, e)
  BY <1>1
<1> HIDE DEF w
<1>10. /\ entries' \in Seq(Cache!Entries) /\ Len(entries') = Len(w) + 1 /\ OnePerKey(entries')
       /\ Cache!ToSet(entries') = Cache!ToSet(w) \cup {e}
  BY <1>3, <1>7, <1>8, <1>9, AddedFacts
<1>11. Len(entries') <= CachedKeys
  BY <1>7, <1>10, CacheFacts
<1>12. ASSUME NEW f \in Cache!ToSet(entries), f.key = k PROVE f = e
  <2>1. PICK i \in DOMAIN entries : f = entries[i]
    BY InSequence
  <2>2. PICK j \in DOMAIN entries : e = entries[j]
    BY <1>3, InSequence
  <2> QED BY <1>3, <1>12, <2>1, <2>2, CacheFacts DEF OnePerKey
<1>13. Cache!ToSet(entries') = Cache!ToSet(entries)
  BY <1>3, <1>7, <1>10, <1>12
<1>14. Cache!InFlight(entries') = Cache!InFlight(entries)
  BY <1>13 DEF Cache!InFlight
<1>15. EntriesSound(entries', loads, dropped)
  BY <1>10, <1>11, <1>13, <1>14 DEF CacheInv, EntriesSound
<1> QED BY <1>2, <1>6, <1>15 DEF CacheInv

\* Loads that begin leave the calls as they are.
LEMMA GrowingLoads ==
  ASSUME CacheInv, NEW x \in Cache!Loads, NEW d \in Callers
  PROVE  CallSound(caller[d], Append(loads, x), cacheNow)
<1>1. CallSound(caller[d], loads, cacheNow) /\ loads \in Seq(Cache!Loads)
  BY DEF CacheInv, LoadsTyped
<1> DEFINE ls == Append(loads, x)
<1>2. \A l \in DOMAIN loads : l \in DOMAIN ls /\ ls[l] = loads[l]
  BY <1>1, AppendProperties
<1> HIDE DEF ls
<1>3. CallSound(caller[d], ls, cacheNow)
  BY <1>1, <1>2 DEF CallSound
<1> QED BY <1>3 DEF ls

LEMMA MissStep ==
  ASSUME CacheInv, NEW c \in Callers, NEW k \in Keys, NEW fresh \in BOOLEAN, Cache!Miss(c, k, fresh)
  PROVE  CacheInv'
<1> DEFINE x == [key |-> k, ended |-> 0, result |-> "running"]
           n == Len(loads) + 1
           e == [key |-> k, load |-> n, pending |-> TRUE]
           w == Cache!Without(k)
           s == Append(w, e)
<1>1. loads \in Seq(Cache!Loads) /\ Len(loads) \in Nat /\ Len(loads) < MaxLoads
  BY CacheFacts DEF Cache!Miss
<1>2. x \in Cache!Loads /\ x.key = k /\ x.result = "running"
  <2>1. 0 \in 0 .. MaxCacheTime
    BY CacheBounds
  <2> QED BY <2>1 DEF Cache!Loads
<1>3. loads' = Append(loads, x)
  BY DEF Cache!Miss
<1>4. /\ loads' \in Seq(Cache!Loads) /\ Len(loads') = n /\ loads'[n] = x /\ DOMAIN loads' = 1 .. n
      /\ \A l \in DOMAIN loads : loads'[l] = loads[l]
  <2> HIDE DEF x
  <2> QED BY <1>1, <1>2, <1>3, AppendProperties
<1>5. /\ n \in 1 .. MaxLoads /\ n \in DOMAIN loads' /\ \A l \in DOMAIN loads' : l = n \/ l \in DOMAIN loads
      /\ \A l \in DOMAIN loads : l \in DOMAIN loads' /\ n > l /\ l # n /\ l \in Nat
  BY <1>1, <1>4, CacheFacts
<1>6. e \in Cache!Entries /\ e.key = k /\ e.load = n /\ e.pending
  <2>1. TRUE \in BOOLEAN
    OBVIOUS
  <2> QED BY <1>5, <2>1 DEF Cache!Entries
<1>7. /\ entries' = Cache!Trimmed(s) /\ UNCHANGED cacheNow
      /\ dropped' = dropped \cup (Cache!InFlight(s) \ Cache!InFlight(entries'))
      /\ Cache!Asks(c, k, fresh, "waiting", n)
  BY <1>4 DEF Cache!Miss, Cache!Kept, Cache!Asks
<1>8. \A f \in Cache!ToSet(entries) : f.key = k => ~f.pending
  BY CurrentFacts DEF Cache!Miss, Cache!Shared
<1>9. /\ w \in Seq(Cache!Entries) /\ OnePerKey(w) /\ Cache!ToSet(w) = {f \in Cache!ToSet(entries) : f.key # k}
  BY WithoutFacts
<1> HIDE DEF x, e, w, n
<1>10. /\ s \in Seq(Cache!Entries) /\ OnePerKey(s) /\ Cache!ToSet(s) = Cache!ToSet(w) \cup {e}
  BY <1>6, <1>9, AddedFacts
<1> HIDE DEF s
<1>11. /\ entries' \in Seq(Cache!Entries) /\ Len(entries') <= CachedKeys /\ OnePerKey(entries')
       /\ Cache!ToSet(entries') \subseteq Cache!ToSet(s)
  BY <1>7, <1>10, TrimmedFacts
<1>12. \A f \in Cache!ToSet(s) : EntryIsLatest(f, loads')
  <2>1. EntryIsLatest(e, loads')
    BY <1>2, <1>4, <1>5, <1>6 DEF EntryIsLatest
  <2>2. ASSUME NEW f \in Cache!ToSet(entries), f.key # k PROVE EntryIsLatest(f, loads')
    <3>1. EntryIsLatest(f, loads)
      BY CacheFacts
    <3> QED BY <1>2, <1>4, <1>5, <2>2, <3>1 DEF EntryIsLatest
  <2> QED BY <1>9, <1>10, <2>1, <2>2
<1>13. ASSUME NEW l \in DOMAIN loads', loads'[l].result = "running"
       PROVE  l \in dropped' \cup Cache!InFlight(entries')
  <2>1. CASE l = n
    <3>1. l \in Cache!InFlight(s)
      BY <1>6, <1>10, <2>1, InFlightFacts
    <3> QED BY <1>7, <3>1
  <2>2. CASE l \in DOMAIN loads
    <3>1. l \in dropped \cup Cache!InFlight(entries)
      BY <1>4, <1>13, <2>2 DEF CacheInv, EntriesSound
    <3>2. CASE l \in Cache!InFlight(entries)
      <4>1. PICK f \in Cache!ToSet(entries) : f.pending /\ f.load = l
        BY <3>2, InFlightFacts
      <4>2. f \in Cache!ToSet(s)
        BY <1>8, <1>9, <1>10, <4>1
      <4>3. l \in Cache!InFlight(s)
        BY <4>1, <4>2, InFlightFacts
      <4> QED BY <1>7, <4>3
    <3> QED BY <1>7, <3>1, <3>2
  <2> QED BY <1>5, <2>1, <2>2
<1>14. EntriesSound(entries', loads', dropped')
  BY <1>11, <1>12, <1>13 DEF EntriesSound
<1>15. dropped' \in SUBSET (1 .. MaxLoads)
  <2>1. \A f \in Cache!ToSet(s) : f.load \in 1 .. MaxLoads
    BY <1>10, EntryFacts
  <2>2. Cache!InFlight(s) \subseteq 1 .. MaxLoads
    BY <2>1, InFlightFacts
  <2> QED BY <1>7, <2>2, CacheFacts
<1>16. /\ DOMAIN caller' = Callers /\ caller' = [d \in Callers |-> caller'[d]]
       /\ \A d \in Callers : CallSound(caller'[d], loads', cacheNow)
  <2>1. \A d \in Callers : CallSound(caller[d], loads', cacheNow)
    BY <1>2, <1>3, GrowingLoads
  <2>2. loads'[n].result = "running" /\ n \in DOMAIN loads' /\ n \in 1 .. MaxLoads
    BY <1>2, <1>4, <1>5
  <2> QED BY <1>7, <2>1, <2>2, AskedCall
<1>17. LoadsTyped(loads')
  <2>1. n \in 1 .. MaxLoads
    BY <1>5
  <2> QED BY <1>4, <2>1, CacheFacts DEF LoadsTyped
<1> QED BY <1>7, <1>14, <1>15, <1>16, <1>17 DEF CacheInv

\* The loads of the other entries are as they were.
LEMMA OtherEntries ==
  ASSUME CacheInv, NEW l \in DOMAIN loads, NEW result, Cache!LoadEnds(l, result), NEW e \in Cache!ToSet(entries)
  PROVE  /\ e.load = l => e.key = loads[l].key /\ e \in Cache!Current(loads[l].key)
         /\ e.load # l => EntryIsLatest(e, loads')
         /\ e.key = loads[l].key /\ e.load # l => ~(\E f \in Cache!ToSet(entries) : f.load = l)
<1>1. /\ DOMAIN loads' = DOMAIN loads /\ \A m \in DOMAIN loads : loads'[m].key = loads[m].key
      /\ \A m \in DOMAIN loads : m # l => loads'[m] = loads[m]
  <2>1. loads' = [loads EXCEPT ![l].ended = cacheNow, ![l].result = result]
    BY DEF Cache!LoadEnds
  <2>2. loads[l] \in Cache!Loads
    BY CacheFacts
  <2>3. loads'[l].key = loads[l].key
    BY <2>1, <2>2 DEF Cache!Loads
  <2> QED BY <2>1, <2>3
<1>2. EntryIsLatest(e, loads)
  BY CacheFacts
<1>3. e.load # l => EntryIsLatest(e, loads')
  BY <1>1, <1>2 DEF EntryIsLatest
<1>4. e.load = l => e.key = loads[l].key /\ e \in Cache!Current(loads[l].key)
  BY <1>2, CurrentFacts DEF EntryIsLatest
<1>5. ASSUME e.key = loads[l].key, NEW f \in Cache!ToSet(entries), f.load = l PROVE e = f
  <2>1. f.key = e.key
    BY <1>5, ResultsAre
  <2>2. PICK i \in DOMAIN entries : e = entries[i]
    BY InSequence
  <2>3. PICK j \in DOMAIN entries : f = entries[j]
    BY InSequence
  <2> QED BY <2>1, <2>2, <2>3, CacheFacts DEF OnePerKey
<1> QED BY <1>3, <1>4, <1>5

LEMMA EndedLoads ==
  ASSUME CacheInv, NEW l \in DOMAIN loads, NEW result \in {"useful", "useless", "error"}, Cache!LoadEnds(l, result)
  PROVE  /\ LoadsTyped(loads') /\ DOMAIN loads' = DOMAIN loads /\ loads[l].result = "running"
         /\ loads'[l].ended = cacheNow /\ loads'[l].result = result /\ loads'[l].key = loads[l].key
         /\ \A m \in DOMAIN loads : m # l => loads'[m] = loads[m]
<1>1. /\ loads' = [loads EXCEPT ![l].ended = cacheNow, ![l].result = result] /\ loads[l].result = "running"
  BY DEF Cache!LoadEnds, Cache!Running
<1>2. loads[l] \in Cache!Loads /\ loads \in Seq(Cache!Loads) /\ cacheNow \in 0 .. MaxCacheTime
  BY CacheFacts DEF CacheInv
<1>3. /\ DOMAIN loads' = DOMAIN loads /\ \A m \in DOMAIN loads : m # l => loads'[m] = loads[m]
      /\ loads'[l].ended = cacheNow /\ loads'[l].result = result /\ loads'[l].key = loads[l].key
  BY <1>1, <1>2 DEF Cache!Loads
<1> DEFINE x == [[loads[l] EXCEPT !.ended = cacheNow] EXCEPT !.result = result]
<1>4. x \in Cache!Loads
  BY <1>2 DEF Cache!Loads
<1>5. loads' = [loads EXCEPT ![l] = x]
  BY <1>1
<1> HIDE DEF x
<1>6. loads' \in Seq(Cache!Loads) /\ Len(loads') = Len(loads)
  BY <1>2, <1>4, <1>5
<1> QED BY <1>1, <1>3, <1>6 DEF CacheInv, LoadsTyped

\* Who waited for the load has its result, which is new.
LEMMA AnsweredCalls ==
  ASSUME CacheInv, NEW l \in DOMAIN loads, NEW result \in {"useful", "useless", "error"}, Cache!LoadEnds(l, result)
  PROVE  /\ DOMAIN caller' = Callers /\ caller' = [c \in Callers |-> caller'[c]]
         /\ \A c \in Callers : CallSound(caller'[c], loads', cacheNow)
<1>1. caller' = Cache!Answered(l)
  BY DEF Cache!LoadEnds
<1>2. /\ DOMAIN caller' = Callers /\ caller' = [c \in Callers |-> caller'[c]]
      /\ \A c \in Callers : caller'[c] = IF caller[c].at = "waiting" /\ caller[c].load = l
                                         THEN [caller[c] EXCEPT !.at = "answered"] ELSE caller[c]
  BY <1>1 DEF Cache!Answered
<1>3. ASSUME NEW c \in Callers PROVE CallSound(caller'[c], loads', cacheNow)
  <2>1. CallSound(caller[c], loads, cacheNow) /\ caller[c] \in Cache!Calls
    BY DEF CacheInv, CallSound
  <2>2. CASE caller[c].at = "waiting" /\ caller[c].load = l
    <3> DEFINE call == [caller[c] EXCEPT !.at = "answered"]
    <3>1. /\ call \in Cache!Calls /\ call.at = "answered" /\ call.asked = caller[c].asked
          /\ call.load = l /\ call.fresh = caller[c].fresh
      BY <2>1, <2>2 DEF Cache!Calls
    <3>2. caller'[c] = call
      BY <1>2, <2>2
    <3> HIDE DEF call
    <3>3. call.asked <= cacheNow
      BY <2>1, <3>1 DEF CallSound
    <3>4. loads'[l].ended >= call.asked /\ l \in DOMAIN loads' /\ loads'[l].result # "running"
      BY <3>3, EndedLoads, CacheFacts
    <3> QED BY <3>1, <3>2, <3>3, <3>4 DEF CallSound
  <2>3. CASE ~(caller[c].at = "waiting" /\ caller[c].load = l)
    <3>1. caller'[c] = caller[c]
      BY <1>2, <2>3
    <3>2. caller[c].at \in {"waiting", "answered"} => caller[c].load # l
      BY <2>1, <2>3, EndedLoads DEF CallSound
    <3> QED BY <2>1, <3>1, <3>2, EndedLoads DEF CallSound
  <2> QED BY <2>2, <2>3
<1> QED BY <1>2, <1>3

LEMMA LoadFails ==
  ASSUME CacheInv, NEW l \in DOMAIN loads, Cache!LoadEnds(l, "error")
  PROVE  EntriesSound(entries', loads', dropped)
<1> DEFINE k == loads[l].key
<1>1. /\ DOMAIN loads' = DOMAIN loads /\ loads'[l].result = "error"
      /\ \A m \in DOMAIN loads : m # l => loads'[m] = loads[m]
  BY EndedLoads
<1>2. \A m \in DOMAIN loads : loads'[m].result = "running" => m # l /\ m \in dropped \cup Cache!InFlight(entries)
  BY <1>1 DEF CacheInv, EntriesSound
<1>3. CASE \E e \in Cache!Current(k) : e.load = l
  <2>1. entries' = Cache!Without(k)
    BY <1>3 DEF Cache!LoadEnds, Cache!Stored
  <2>2. \E f \in Cache!ToSet(entries) : f.load = l
    BY <1>3, CurrentFacts
  <2>3. /\ entries' \in Seq(Cache!Entries) /\ Len(entries') <= CachedKeys /\ OnePerKey(entries')
        /\ Cache!ToSet(entries') = {e \in Cache!ToSet(entries) : e.key # k}
    BY <2>1, WithoutFacts
  <2>4. \A e \in Cache!ToSet(entries') : EntryIsLatest(e, loads')
    BY <2>3, OtherEntries
  <2>5. ASSUME NEW m \in DOMAIN loads', loads'[m].result = "running"
        PROVE  m \in dropped \cup Cache!InFlight(entries')
    <3>1. m # l /\ m \in dropped \cup Cache!InFlight(entries)
      BY <1>1, <1>2, <2>5
    <3>2. CASE m \in Cache!InFlight(entries)
      <4>1. PICK e \in Cache!ToSet(entries) : e.pending /\ e.load = m
        BY <3>2, InFlightFacts
      <4>2. e.key # k
        BY <2>2, <3>1, <4>1, OtherEntries
      <4> QED BY <2>3, <4>1, <4>2, InFlightFacts
    <3> QED BY <3>1, <3>2
  <2> QED BY <2>3, <2>4, <2>5 DEF EntriesSound
<1>4. CASE ~(\E e \in Cache!Current(k) : e.load = l)
  <2>1. entries' = entries
    BY <1>4 DEF Cache!LoadEnds, Cache!Stored
  <2>2. \A e \in Cache!ToSet(entries) : EntryIsLatest(e, loads')
    BY <1>4, OtherEntries
  <2> QED BY <1>1, <1>2, <2>1, <2>2, CacheFacts DEF EntriesSound
<1> QED BY <1>3, <1>4

LEMMA LoadSucceeds ==
  ASSUME CacheInv, NEW l \in DOMAIN loads, NEW result \in {"useful", "useless"}, Cache!LoadEnds(l, result)
  PROVE  EntriesSound(entries', loads', dropped)
<1>1. /\ DOMAIN loads' = DOMAIN loads /\ loads'[l].result = result /\ result # "running"
      /\ \A m \in DOMAIN loads : loads'[m].key = loads[m].key
      /\ \A m \in DOMAIN loads : m # l => loads'[m] = loads[m]
  BY EndedLoads
<1>2. entries' = [i \in DOMAIN entries |-> IF entries[i].load = l
                                           THEN [entries[i] EXCEPT !.pending = FALSE] ELSE entries[i]]
  BY DEF Cache!LoadEnds, Cache!Stored
<1>3. DOMAIN entries = 1 .. Len(entries) /\ Len(entries) \in Nat /\ \A i \in DOMAIN entries : entries[i] \in Cache!Entries
  BY CacheFacts
<1>4. ASSUME NEW i \in DOMAIN entries
      PROVE  /\ entries'[i] \in Cache!Entries /\ entries'[i].key = entries[i].key /\ entries'[i].load = entries[i].load
             /\ entries[i].load # l => entries'[i] = entries[i]
             /\ entries[i].load = l => ~entries'[i].pending
  <2>1. entries[i] \in Cache!Entries /\ FALSE \in BOOLEAN
    BY <1>3
  <2> DEFINE e == [entries[i] EXCEPT !.pending = FALSE]
  <2>2. e \in Cache!Entries /\ e.key = entries[i].key /\ e.load = entries[i].load /\ ~e.pending
    BY <2>1 DEF Cache!Entries
  <2>3. entries'[i] = IF entries[i].load = l THEN e ELSE entries[i]
    BY <1>2
  <2> HIDE DEF e
  <2> QED BY <2>1, <2>2, <2>3
<1>5. DOMAIN entries' = DOMAIN entries
  BY <1>2
<1>6. entries' = [i \in 1 .. Len(entries) |-> entries'[i]]
  BY <1>2, <1>3
<1>7. entries' \in Seq(Cache!Entries) /\ Len(entries') = Len(entries)
  BY <1>3, <1>4, <1>5, <1>6
<1>8. OnePerKey(entries')
  BY <1>4, <1>5, CacheFacts DEF OnePerKey
<1>9. ASSUME NEW f \in Cache!ToSet(entries') PROVE EntryIsLatest(f, loads')
  <2>1. PICK i \in DOMAIN entries : f = entries'[i]
    BY <1>5, InSequence
  <2>2. entries[i] \in Cache!ToSet(entries) /\ EntryIsLatest(entries[i], loads)
    BY InSequence, CacheFacts
  <2>3. CASE entries[i].load = l
    BY <1>1, <1>4, <2>1, <2>2, <2>3 DEF EntryIsLatest
  <2>4. CASE entries[i].load # l
    BY <1>4, <2>1, <2>2, <2>4, OtherEntries
  <2> QED BY <2>3, <2>4
<1>10. ASSUME NEW m \in DOMAIN loads', loads'[m].result = "running"
       PROVE  m \in dropped \cup Cache!InFlight(entries')
  <2>1. m # l /\ m \in dropped \cup Cache!InFlight(entries)
    BY <1>1, <1>10 DEF CacheInv, EntriesSound
  <2>2. CASE m \in Cache!InFlight(entries)
    <3>1. PICK e \in Cache!ToSet(entries) : e.pending /\ e.load = m
      BY <2>2, InFlightFacts
    <3>2. PICK i \in DOMAIN entries : e = entries[i]
      BY InSequence
    <3>3. e = entries'[i] /\ e \in Cache!ToSet(entries')
      BY <1>4, <1>5, <2>1, <3>1, <3>2, InSequence
    <3> QED BY <3>1, <3>3, InFlightFacts
  <2> QED BY <2>1, <2>2
<1> QED BY <1>7, <1>8, <1>9, <1>10, CacheFacts DEF EntriesSound

LEMMA LoadEndsStep ==
  ASSUME CacheInv, NEW l \in DOMAIN loads, NEW result \in {"useful", "useless", "error"}, Cache!LoadEnds(l, result)
  PROVE  CacheInv'
<1>1. UNCHANGED <<cacheNow, dropped>>
  BY DEF Cache!LoadEnds
<1>2. EntriesSound(entries', loads', dropped)
  BY LoadFails, LoadSucceeds
<1> QED BY <1>1, <1>2, EndedLoads, AnsweredCalls DEF CacheInv

LEMMA RestingCall == Cache!Resting \in Cache!Calls /\ Cache!Resting.at = "idle" /\ Cache!Resting.asked = 0
<1>1. (CHOOSE k \in Keys : TRUE) \in Keys
  BY CacheBounds
<1>2. 0 \in 0 .. MaxCacheTime /\ 0 \in 0 .. MaxLoads /\ FALSE \in BOOLEAN
  BY CacheBounds
<1> QED BY <1>1, <1>2 DEF Cache!Resting, Cache!Calls

LEMMA GoesStep ==
  ASSUME CacheInv, NEW c \in Callers, Cache!Goes(c)
  PROVE  CacheInv'
<1>1. UNCHANGED <<cacheNow, loads>> /\ caller' = [caller EXCEPT ![c] = Cache!Resting]
  BY DEF Cache!Goes
<1>2. /\ entries' = entries \/ entries' = Cache!Without(caller[c].key)
      /\ dropped' = dropped \cup (Cache!InFlight(entries) \ Cache!InFlight(entries'))
  BY DEF Cache!Goes, Cache!Kept
<1>3. /\ entries' \in Seq(Cache!Entries) /\ Len(entries') <= CachedKeys /\ OnePerKey(entries')
      /\ Cache!ToSet(entries') \subseteq Cache!ToSet(entries)
  BY <1>2, WithoutFacts, CacheFacts
<1>4. \A l \in DOMAIN loads : loads[l].result = "running" => l \in dropped' \cup Cache!InFlight(entries')
  BY <1>2 DEF CacheInv, EntriesSound
<1>5. EntriesSound(entries', loads, dropped')
  BY <1>3, <1>4, CacheFacts DEF EntriesSound
<1>6. dropped' \in SUBSET (1 .. MaxLoads)
  <2>1. \A f \in Cache!ToSet(entries) : f.load \in 1 .. MaxLoads
    BY ResultsAre
  <2>2. Cache!InFlight(entries) \subseteq 1 .. MaxLoads
    BY <2>1, InFlightFacts
  <2> QED BY <1>2, <2>2, CacheFacts
<1>7. CallSound(Cache!Resting, loads, cacheNow)
  BY RestingCall, CacheFacts DEF CallSound
<1>8. \A d \in Callers : CallSound(caller[d], loads, cacheNow)
  BY DEF CacheInv
<1>9. /\ DOMAIN caller' = Callers /\ caller' = [d \in Callers |-> caller'[d]]
      /\ \A d \in Callers : CallSound(caller'[d], loads, cacheNow)
  BY <1>1, <1>7, <1>8, CallersSound
<1> QED BY <1>1, <1>5, <1>6, <1>9 DEF CacheInv

LEMMA CacheTickStep ==
  ASSUME CacheInv, Cache!Tick
  PROVE  CacheInv'
<1>1. cacheNow' = cacheNow + 1 /\ cacheNow < MaxCacheTime /\ UNCHANGED <<entries, loads, dropped, caller>>
  BY DEF Cache!Tick
<1>2. cacheNow' \in 0 .. MaxCacheTime
  BY <1>1, CacheBounds DEF CacheInv
<1>3. \A c \in Callers : CallSound(caller[c], loads, cacheNow')
  <2> TAKE c \in Callers
  <2>1. CallSound(caller[c], loads, cacheNow) /\ caller[c].asked \in 0 .. MaxCacheTime
    BY DEF CacheInv, CallSound, Cache!Calls
  <2>2. caller[c].asked <= cacheNow'
    BY <1>1, <2>1, CacheFacts, CacheBounds DEF CallSound
  <2> QED BY <2>1, <2>2 DEF CallSound
<1> QED BY <1>1, <1>2, <1>3 DEF CacheInv

LEMMA CacheBegins == Cache!Init => CacheInv
<1> SUFFICES ASSUME Cache!Init PROVE CacheInv
  OBVIOUS
<1>1. cacheNow = 0 /\ entries = <<>> /\ loads = <<>> /\ dropped = {} /\ caller = [c \in Callers |-> Cache!Resting]
  BY DEF Cache!Init
<1>2. /\ DOMAIN entries = {} /\ DOMAIN loads = {} /\ Len(entries) = 0 /\ Len(loads) = 0
      /\ entries \in Seq(Cache!Entries) /\ loads \in Seq(Cache!Loads)
  BY <1>1, EmptySeq
<1>3. Cache!ToSet(entries) = {}
  BY <1>2 DEF Cache!ToSet
<1>4. EntriesSound(entries, loads, dropped)
  BY <1>2, <1>3, CacheBounds DEF EntriesSound, OnePerKey
<1>5. \A c \in Callers : CallSound(caller[c], loads, cacheNow)
  <2>1. CallSound(Cache!Resting, loads, 0)
    BY RestingCall DEF CallSound
  <2> QED BY <1>1, <2>1
<1>6. LoadsTyped(loads) /\ cacheNow \in 0 .. MaxCacheTime
  BY <1>1, <1>2, CacheBounds DEF LoadsTyped
<1> QED BY <1>1, <1>4, <1>5, <1>6 DEF CacheInv

LEMMA CacheStep ==
  ASSUME CacheInv, [Cache!Next]_(Cache!vars)
  PROVE  CacheInv'
<1>1. CASE Cache!Next
  BY <1>1, JoinStep, HitStep, MissStep, LoadEndsStep, GoesStep, CacheTickStep DEF Cache!Next
<1>2. CASE UNCHANGED Cache!vars
  BY <1>2 DEF Cache!vars, CacheInv
<1> QED BY <1>1, <1>2

LEMMA SoundCache ==
  ASSUME CacheInv
  PROVE  CacheIsSound
<1>1. Cache!TypeOK
  <2>1. \A c \in Callers : caller[c] \in Cache!Calls
    BY DEF CacheInv, CallSound
  <2>2. caller \in [Callers -> Cache!Calls]
    BY <2>1 DEF CacheInv
  <2> QED BY <2>2 DEF CacheInv, EntriesSound, LoadsTyped, Cache!TypeOK
<1>2. Cache!AnswersAreRecent
  <2> SUFFICES ASSUME NEW c \in Callers, caller[c].at = "answered"
               PROVE  LET ended == loads[caller[c].load].ended
                      IN IF caller[c].fresh THEN ended >= caller[c].asked
                         ELSE ended >= caller[c].asked \/ ended + TTL > caller[c].asked
    BY DEF Cache!AnswersAreRecent
  <2> QED BY DEF CacheInv, CallSound
<1>3. Cache!OneInProgress
  <2> SUFFICES ASSUME NEW l \in DOMAIN loads, NEW m \in DOMAIN loads, l < m, loads[l].result = "running",
                      loads[l].key = loads[m].key, l \notin dropped
               PROVE  FALSE
    BY DEF Cache!OneInProgress, Cache!Running
  <2>1. l \in Cache!InFlight(entries)
    BY DEF CacheInv, EntriesSound
  <2>2. PICK e \in Cache!ToSet(entries) : e.pending /\ e.load = l
    BY <2>1, InFlightFacts
  <2>3. m > l
    BY CacheFacts
  <2> QED BY <2>2, <2>3, ResultsAre
<1>4. Cache!NoneIsPoisoned /\ Cache!LatestIsKept
  BY ResultsAre DEF Cache!NoneIsPoisoned, Cache!LatestIsKept, Cache!Running
<1> QED BY <1>1, <1>2, <1>3, <1>4 DEF CacheIsSound, Cache!CacheIsSound

\* What the cache answers is recent, one load is in progress for a key, a failure is not kept and
\* an older load does not replace a newer one, for any keys, callers, limits and order of calls.
THEOREM CacheIsSoundHolds == Cache!Spec => []CacheIsSound
<1>1. CacheInv /\ [Cache!Next]_(Cache!vars) => CacheInv'
  BY CacheStep
<1> QED BY <1>1, CacheBegins, SoundCache, PTL DEF Cache!Spec
=============================================================================
