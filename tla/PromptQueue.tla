---------------------------- MODULE PromptQueue ----------------------------
(***************************************************************************)
(* The durable prompt queue of PaneFleet's server (server.js): FIFO lines  *)
(* of prompts, one line per tmux session, each prompt bound to one exact   *)
(* pane.  The module has the store in memory and on disk, the serialized   *)
(* processing cycle that samples, claims, types and records, the operator  *)
(* requests, the terminals, and crashes of the dashboard.                  *)
(*                                                                         *)
(* Store mutations go through one promise chain (enqueuePromptQueue-       *)
(* Operation), so an operator request is one step and is enabled only      *)
(* while no cycle is in progress; a cycle is many steps, because it awaits *)
(* tmux, and panes, manual input and crashes happen between them.          *)
(* Timestamps are abstracted to whether they are set, revisions to how     *)
(* many writes an item saw since an answer was confirmed, and a prompt's   *)
(* text to its kind.                                                       *)
(***************************************************************************)
EXTENDS Integers, FiniteSets

CONSTANTS
  Sessions,        \* tmux session names; each names one FIFO line
  Ids,             \* the item ids this behaviour may create
  Kinds,           \* the kinds of text the operator queues
  MaxQueueItems,   \* MAX_PROMPT_QUEUE_ITEMS
  HistoryLimit,    \* PROMPT_QUEUE_HISTORY_LIMIT
  MaxPosition,     \* bound: the code accepts positions below MAX_SAFE_INTEGER
  Events,          \* bound: the kinds of outside event that may happen
  MaxGen,          \* bound: panes created per session name
  MaxCrashes,      \* bound: crashes of the dashboard
  MaxFaults,       \* bound: failed writes of the store
  MaxInputs        \* bound: manual inputs and interrupts

\* "window" is a prompt whose envelope fits with the ten-zero attempt
\* placeholder used on creation but not with the thirteen-zero one used
\* before dispatch.
AllKinds == {"prompt", "window", "goal", "command"}

\* "exit": Codex leaves or returns to its pane; "replace": the pane goes and a
\* new one takes the session's name; "busy": work PaneFleet did not start;
\* "day": the completion window closes; "send", "interrupt": manual input;
\* "stale": an agents list taken while a cycle runs; "quick": cycles closer
\* than the stability interval; "throw": an exception in a delivery;
\* "clear": the operator clears history.
AllEvents == {"exit", "replace", "busy", "day", "send", "interrupt", "stale", "quick",
              "throw", "clear"}

\* tmux has finitely many sessions.
ASSUME SessionsAssumption == Sessions # {} /\ IsFiniteSet(Sessions)
ASSUME KindsAssumption  == Kinds \subseteq AllKinds
ASSUME BoundsAssumption ==
  /\ Events \subseteq AllEvents
  /\ MaxQueueItems \in Nat /\ HistoryLimit \in Nat \ {0} /\ MaxPosition \in Nat /\ MaxGen \in Nat
  /\ MaxCrashes \in Nat /\ MaxFaults \in Nat /\ MaxInputs \in Nat

---------------------------------------------------------------------------
(* The store: an item per id; an id that is not in it is Absent.           *)

Statuses == {"absent", "queued", "dispatching", "sent", "needs_review", "canceled"}
Summaries == {"pending", "captured", "returned", "command_submitted",
              "operator_released", "unavailable"}

PreTypingStages  == {"preflight", "lifecycle_guard"}
LiteralStages    == {"literal", "literal_unknown", "literal_confirmation"}
DeliveryFailures == PreTypingStages \cup LiteralStages \cup {"submit", "confirmation", "unknown"}
CompletionReviews ==
  {"final_boundary_missing", "completion_marker_missing", "goal_completion_review",
   "completion_superseded", "completion_timeout", "completion_target_replaced"}
Stages ==
  {"", "dispatching", "accepted", "accepted_late", "manual_submit_accepted",
   "goal_command_submitted", "slash_command_submitted", "return_marker_captured",
   "completion_recovered", "returned_to_ready", "monitoring_after_review",
   "monitoring_after_response", "operator_released", "waiting_for_manual_submit",
   "operator_requeued_after_replacement", "literal_review_dismissed",
   "dispatch_envelope_too_long", "restart_reconciliation"}
   \cup DeliveryFailures \cup CompletionReviews

\* claimed, sent and done stand for claimedAt (with attemptId), sentAt and
\* completedAt being set; footer for a saved snapshot that holds the
\* "Worked for" footer; target for the exact pane identity.
Item == [status : Statuses, session : Sessions, target : Nat, position : Nat,
         kind : AllKinds, stage : Stages, summary : Summaries,
         claimed : BOOLEAN, sent : BOOLEAN, done : BOOLEAN, footer : BOOLEAN]

NewItem(s, g, p, k) ==
  [status |-> "queued", session |-> s, target |-> g, position |-> p, kind |-> k,
   stage |-> "", summary |-> "pending",
   claimed |-> FALSE, sent |-> FALSE, done |-> FALSE, footer |-> FALSE]

Gone(it) == [NewItem(it.session, 0, 0, "prompt") EXCEPT !.status = "absent"]

\* validatePromptQueueStore's rules on one item's lifecycle fields.
ItemValid(it) ==
  \/ it.status = "absent"
  \/ /\ it.summary \in {"captured", "returned", "operator_released"} => it.status = "sent" /\ it.done
     /\ it.summary = "command_submitted" => it.status = "sent"
     /\ it.sent => it.claimed
     /\ it.done => it.sent
     /\ it.status = "queued" => ~it.claimed /\ ~it.sent /\ ~it.done
     /\ it.status = "dispatching" => it.claimed /\ ~it.sent /\ ~it.done
     /\ it.status = "sent" => it.claimed /\ it.sent
     /\ it.status = "needs_review" => it.claimed /\ ~it.done

Awaiting(it) == it.status = "sent" /\ it.summary = "pending"

\* Mistake: an unfinished prompt does not hold up its line.
OpenUntilSent(it) == it.status \in {"queued", "dispatching", "needs_review"}

Open(it)     == it.status \in {"queued", "dispatching", "needs_review"} \/ Awaiting(it)
Final(it)    == it.status = "canceled" \/ (it.status = "sent" /\ ~Awaiting(it))

Review(it, stages)      == /\ it.status = "needs_review"
                           /\ it.summary = "unavailable"
                           /\ it.stage \in stages
AcceptanceReview(it)    == Review(it, {"confirmation", "waiting_for_manual_submit"})
RecoverableReview(it)   == Review(it, {"final_boundary_missing", "completion_marker_missing"})
\* Mistake: only reviews are looked at again.
CandidateIfReviewed(it) == AcceptanceReview(it) \/ RecoverableReview(it)
Candidate(it)           == Awaiting(it) \/ AcceptanceReview(it) \/ RecoverableReview(it)

Present(store)   == {i \in Ids : store[i].status # "absent"}
Line(store, s)   == {i \in Ids : Open(store[i]) /\ store[i].session = s}
IsHead(store, i) == /\ Open(store[i])
                    /\ \A j \in Line(store, store[i].session) :
                          store[i].position <= store[j].position
Heads(store)     == {i \in Ids : IsHead(store, i)}

\* Mistake: positions are counted, so that a gap in the store repeats one.
CountedPosition(store, p) == p = Cardinality(Present(store)) + 1

\* The position after the highest one of the store.
NextPosition(store, p) ==
  /\ \A i \in Present(store) : store[i].position < p
  /\ p = 1 \/ \E i \in Present(store) : store[i].position = p - 1

\* trimPromptQueueHistory keeps the HistoryLimit most recently updated final
\* items: the one just updated, and others whose choice is left open.
Trimmings(store, updated) ==
  LET old  == {i \in Ids : Final(store[i])}
      keep == IF Cardinality(old) < HistoryLimit THEN Cardinality(old) ELSE HistoryLimit
  IN {[i \in Ids |-> IF i \in old \ kept THEN Gone(store[i]) ELSE store[i]] :
        kept \in {k \in SUBSET old : Cardinality(k) = keep /\ (updated \in old => updated \in k)}}

---------------------------------------------------------------------------
VARIABLES
  mem,       \* promptQueueStore: the store the server works on
  disk,      \* the contents of data/prompt-queue.json
  used,      \* ids given out so far (an id is never given out twice)
  proc,      \* the cycle in progress: where it is, heads to do, current head
  smp,       \* the agents list the cycle in progress was given
  pend,      \* the agents list of a caller waiting for the chain
  obs,       \* the in-memory stability observations of each item
  reserved,  \* promptQueueDispatchReservations, a Set of session names
  sending,   \* sessions a manual send is delivering to
  answer,    \* answers confirmed against an item and not linked yet
  live,      \* the pane of each session: its generation and what runs in it
  busy,      \* sessions whose agent works on something else than a queued prompt
  turn,      \* what the terminal shows of each item's attempt
  wire,      \* the input PaneFleet sent for each item: ghost counters
  activity,  \* newest recorded manual input relative to the item's timestamps
  overdue,   \* items sent more than PROMPT_QUEUE_COMPLETION_TIMEOUT_MS ago
  spent      \* how much of each bound the behaviour has used

storeVars  == <<mem, disk, used>>
cycleVars  == <<proc, smp, pend, obs>>
manualVars == <<reserved, sending, answer>>
paneVars   == <<live, busy>>
itemVars   == <<turn, wire, activity, overdue>>
vars == <<mem, disk, used, proc, smp, pend, obs, reserved, sending, answer,
          live, busy, turn, wire, activity, overdue, spent>>

\* "answering" and after: the operator submitted a newer prompt before the
\* attempt's first footer.  "marker": the dispatch marker left the history
\* and the explicit return marker closes the response.  "quiet": idle, marker
\* visible, no boundary.  "scrolled": idle and no marker in the capture.
Turns == {"none", "typed", "working", "final", "returned", "marker", "quiet",
          "scrolled", "answering", "answered", "answeredReturn"}
Signals == {"ready", "late", "final", "marker", "answered", "return", "quiet", "scrolled"}
StrictSignals == {"final", "marker", "answered"}
CompletionSignals == StrictSignals \cup {"return", "quiet", "scrolled"}
Phases == {"idle", "heads", "claiming", "preflight", "type", "render", "enter",
           "confirm", "record"}
Outcomes == DeliveryFailures \cup {"accepted", "submitted", "none"}

PaneSample == [gen : Nat, listed : BOOLEAN, green : BOOLEAN]
Sample == [panes : [Sessions -> PaneSample], acts : SUBSET Ids]

\* Mistake: any Codex pane of that session name will do.
SameName(i) == live[mem[i].session].state = "codex"
Exact(i)  == /\ live[mem[i].session].gen = mem[i].target
             /\ live[mem[i].session].state = "codex"
Bound(i)  == live[mem[i].session].gen = wire[i].at /\ live[mem[i].session].state = "codex"
Marked(i) == mem[i].kind \in {"prompt", "window"}
Working(s) == \E i \in Ids : /\ mem[i].session = s /\ wire[i].at = live[s].gen
                             /\ turn[i] \in {"typed", "working", "answering"}
Green(s) == live[s].state = "codex" /\ ~busy[s] /\ ~Working(s)

TypeOK ==
  /\ mem \in [Ids -> Item] /\ disk \in [Ids -> Item]
  /\ used \in SUBSET Ids
  /\ proc \in [pc : Phases, todo : SUBSET Ids, cur : SUBSET Ids, out : Outcomes,
              elapsed : BOOLEAN]
  /\ smp \in SUBSET Sample /\ pend \in SUBSET Sample
  /\ obs \in [Ids -> SUBSET Signals]
  /\ reserved \in SUBSET Sessions /\ sending \in SUBSET Sessions
  /\ answer \in [Ids -> {"none", "current", "behind", "stale"}]
  /\ live \in [Sessions -> [gen : Nat, state : {"codex", "shell", "gone"}]]
  /\ busy \in [Sessions -> BOOLEAN]
  /\ turn \in [Ids -> Turns]
  /\ wire \in [Ids -> [typed : Nat, entered : Nat, at : Nat]]
  /\ activity \in [Ids -> {"none", "seen", "new"}]
  /\ overdue \in SUBSET Ids
  /\ spent \in [crashes : Nat, faults : Nat, inputs : Nat]

---------------------------------------------------------------------------
(* Writing the store.  persistPromptQueue replaces the file and then the   *)
(* store in memory.  A write that fails before the rename changes neither; *)
(* one that fails after it (syncing the directory) leaves the new file and *)
(* the old store in memory.                                                *)

Faults == {"ok", "lost", "torn"}

Write(next, f) ==
  /\ mem'  = IF f = "ok" THEN next ELSE mem
  /\ disk' = IF f = "lost" THEN disk ELSE next
  /\ f # "ok" => spent.faults < MaxFaults
  /\ spent' = IF f = "ok" THEN spent ELSE [spent EXCEPT !.faults = @ + 1]

\* The revision an answer was confirmed against falls behind with every
\* write of its item.
Drifted(next, f) ==
  [i \in Ids |-> IF f # "ok" \/ next[i] = mem[i] \/ answer[i] = "none" THEN answer[i]
                 ELSE IF answer[i] = "current" THEN "behind" ELSE "stale"]

\* A completed request of the operator: one write, and the observations of
\* the items in cleared forgotten (even when the write then fails).
Request(next, cleared, f) ==
  /\ proc.pc = "idle"
  /\ Write(next, f)
  /\ obs' = [i \in Ids |-> IF i \in cleared THEN {} ELSE obs[i]]
  /\ UNCHANGED <<used, proc, smp, pend, reserved, sending, paneVars, turn, wire>>

Idle == [pc |-> "idle", todo |-> {}, cur |-> {}, out |-> "none", elapsed |-> FALSE]

---------------------------------------------------------------------------
(* Operator requests.  A request that names a stale revision is refused    *)
(* without effect, so a request is a step on the current item.             *)

\* The items of a creation request: one id, target and rank per session.
Added(id, target, rank, kind, p) ==
  [i \in Ids |->
     IF \E s \in DOMAIN id : id[s] = i
     THEN LET s == CHOOSE s \in DOMAIN id : id[s] = i
          IN NewItem(s, target[s], p + rank[s], kind)
     ELSE mem[i]]

Create(ss, id, target, rank, kind, f) ==
  \E p \in 1 .. MaxPosition :
    /\ NextPosition(mem, p)
    /\ \A s \in ss : target[s] <= live[s].gen /\ p + rank[s] <= MaxPosition
    /\ \E next \in Trimmings(Added(id, target, rank, kind, p), id[CHOOSE s \in ss : TRUE]) :
         /\ Cardinality(Present(next)) <= MaxQueueItems
         /\ proc.pc = "idle"
         /\ Write(next, f)
         /\ used' = used \cup {id[s] : s \in ss}
         /\ answer' = Drifted(next, f)
         /\ UNCHANGED <<proc, smp, pend, obs, reserved, sending, paneVars, itemVars>>

\* The pane was live when the request was made; it may be gone by now.
CreateItem(s, i, g, kind, f) ==
  /\ i \notin used
  /\ Create({s}, [x \in {s} |-> i], [x \in {s} |-> g], [x \in {s} |-> 0], kind, f)

\* Several sessions at once: the limit is checked before trimming.
CreateBatch(ss, id, target, rank, kind, f) ==
  /\ Cardinality(ss) > 1
  /\ \A s, t \in ss : s # t => id[s] # id[t] /\ rank[s] # rank[t]
  /\ Cardinality(Present(mem)) + Cardinality(ss) <= MaxQueueItems
  /\ Create(ss, id, target, rank, kind, f)

\* A request that replaces one item; trim says whether history is trimmed.
Replace(i, it, trim, f) ==
  \E next \in IF trim THEN Trimmings([mem EXCEPT ![i] = it], i) ELSE {[mem EXCEPT ![i] = it]} :
    /\ Request(next, {i}, f)
    /\ answer' = Drifted(next, f)

Cancel(i, f) ==
  /\ mem[i].status = "queued"
  /\ Replace(i, [mem[i] EXCEPT !.status = "canceled", !.summary = "unavailable"], TRUE, f)
  /\ UNCHANGED <<activity, overdue>>

DismissLiteralReview(i, f) ==
  /\ mem[i].status = "needs_review" /\ ~mem[i].sent
  /\ mem[i].stage \in {"literal_unknown", "literal_confirmation", "waiting_for_manual_submit"}
  /\ Exact(i)
  /\ Replace(i, [mem[i] EXCEPT !.status = "canceled", !.summary = "unavailable",
                               !.stage = "literal_review_dismissed"], TRUE, f)
  /\ UNCHANGED <<activity, overdue>>

WaitForManualSubmit(i, f) ==
  /\ Review(mem[i], {"literal_confirmation"}) /\ ~mem[i].sent
  /\ Exact(i)
  /\ \E next \in {[mem EXCEPT ![i].stage = "waiting_for_manual_submit"]} :
       /\ proc.pc = "idle"
       /\ Write(next, f)
       /\ obs' = [obs EXCEPT ![i] = @ \ CompletionSignals]
       /\ answer' = Drifted(next, f)
  /\ UNCHANGED <<used, proc, smp, pend, reserved, sending, paneVars, itemVars>>

Retarget(i, f) ==
  /\ mem[i].status = "queued"
  /\ live[mem[i].session].state = "codex"
  /\ Replace(i, [mem[i] EXCEPT !.target = live[mem[i].session].gen, !.stage = ""], FALSE, f)
  /\ UNCHANGED <<activity, overdue>>

\* The copy goes to the end of the line; the original is archived.
RequeueAfterReplacement(i, j, f) ==
  LET it   == mem[i]
      pane == live[it.session]
  IN /\ Review(it, {"completion_target_replaced"}) /\ it.sent
     /\ j \notin used
     /\ pane.state = "codex" /\ pane.gen # it.target
     /\ it.kind # "window"
     /\ Cardinality(Present(mem)) < MaxQueueItems
     /\ proc.pc = "idle"
     /\ \E p \in 1 .. MaxPosition :
          /\ NextPosition(mem, p)
          /\ \E next \in Trimmings(
                  [mem EXCEPT ![i].status = "sent", ![i].summary = "operator_released",
                              ![i].done = TRUE, ![i].footer = FALSE,
                              ![i].stage = "operator_requeued_after_replacement",
                              ![j] = NewItem(it.session, pane.gen, p, it.kind)], i) :
               /\ Write(next, f)
               /\ answer' = Drifted(next, f)
     /\ used' = used \cup {j}
     /\ obs' = [obs EXCEPT ![i] = {}]
     /\ UNCHANGED <<proc, smp, pend, reserved, sending, paneVars, itemVars>>

\* Newer manual input than the item's sentAt and acknowledgement, as far as
\* the agents list of the caller knows; an agents list names only the pane
\* it saw.
Superseded(i, known) == i \in known /\ activity[i] # "none"

Continuation(i) == mem[i].stage = "monitoring_after_response"

\* promptQueueCompletionEvidence and promptQueueReturnEvidence.
Strict(i, known) ==
  \/ turn[i] = "final" /\ ~Continuation(i)
  \/ turn[i] = "answered" /\ Continuation(i) /\ ~Superseded(i, known)
  \/ turn[i] = "marker" /\ ~Superseded(i, known)
ReturnEvidence(i, known) ==
  \/ turn[i] = "returned" /\ ~Continuation(i)
  \/ turn[i] = "answeredReturn" /\ Continuation(i) /\ ~Superseded(i, known)

Captured(i, stage) ==
  [mem[i] EXCEPT !.status = "sent", !.summary = "captured", !.done = TRUE,
                 !.footer = turn[i] # "marker", !.stage = stage]

ReleaseAfterReview(i, f) ==
  /\ mem[i].status = "needs_review"
  /\ mem[i].stage \in {"final_boundary_missing", "completion_marker_missing",
                       "goal_completion_review", "completion_superseded",
                       "completion_timeout"}
  /\ Exact(i)
  /\ Replace(i, IF Strict(i, Ids)
                THEN Captured(i, "completion_recovered")
                ELSE [mem[i] EXCEPT !.status = "sent", !.summary = "operator_released",
                                    !.done = TRUE, !.footer = FALSE,
                                    !.stage = "operator_released"], TRUE, f)
  /\ UNCHANGED <<activity, overdue>>

Monitored(i, stage) ==
  [mem[i] EXCEPT !.status = "sent", !.summary = "pending", !.done = FALSE,
                 !.footer = FALSE, !.stage = stage]

\* Acknowledges the input the review was about, not what came after it.
ContinueMonitoring(i, f) ==
  /\ Review(mem[i], {"completion_superseded"})
  /\ Exact(i)
  /\ Replace(i, Monitored(i, "monitoring_after_review"), FALSE, f)
  /\ activity' = IF f = "ok" /\ activity[i] = "seen"
                 THEN [activity EXCEPT ![i] = "none"] ELSE activity
  /\ UNCHANGED overdue

\* Mistake: an answer is linked to whatever became of its item.
LinkableAlways(i) == answer[i] # "none"

\* The item still awaits completion at the confirmed revision, or one write
\* later it was moved to the superseded review by the answer itself.
Linkable(i) ==
  \/ answer[i] = "current" /\ Awaiting(mem[i])
  \/ answer[i] = "behind" /\ Review(mem[i], {"completion_superseded"})

LinkAnswer(i, f) ==
  /\ answer[i] # "none" /\ mem[i].session \notin sending
  /\ Linkable(i) /\ Exact(i) /\ activity[i] # "none"
  /\ Request([mem EXCEPT ![i] = Monitored(i, "monitoring_after_response")], {i}, f)
  /\ answer' = [answer EXCEPT ![i] = "none"]
  /\ activity' = IF f = "ok" THEN [activity EXCEPT ![i] = "none"] ELSE activity
  /\ UNCHANGED overdue

\* The revision moved on, the pane changed or a later interrupt hides the
\* answer: the answer stays delivered but unlinked.
RefuseAnswer(i) ==
  /\ proc.pc = "idle"
  /\ answer[i] # "none" /\ mem[i].session \notin sending
  /\ answer' = [answer EXCEPT ![i] = "none"]
  /\ UNCHANGED <<storeVars, cycleVars, reserved, sending, paneVars, itemVars, spent>>

ClearHistory(f) ==
  LET history == {i \in Ids : Final(mem[i])}
      next    == [i \in Ids |-> IF i \in history THEN Gone(mem[i]) ELSE mem[i]]
  IN /\ "clear" \in Events
     /\ history # {}
     /\ Request(next, history, f)
     /\ answer' = Drifted(next, f)
     /\ UNCHANGED <<activity, overdue>>

---------------------------------------------------------------------------
(* Terminals and manual input, outside the promise chain.                  *)

Shows(t) ==
  CASE t = "typed"     -> {"working", "scrolled"}
    [] t = "working"   -> {"final", "returned", "marker", "quiet", "scrolled"}
    [] t = "quiet"     -> {"working", "scrolled"}
    [] t = "answering" -> {"answered", "answeredReturn", "marker", "scrolled"}
    [] t \in {"final", "answered"}          -> {"marker", "scrolled"}
    [] t \in {"returned", "answeredReturn"} -> {"scrolled"}
    [] OTHER -> {}

\* The agent works on, finishes or scrolls an attempt typed into its pane;
\* "typed" text is submitted or cleared by the operator in the terminal.  A
\* slash command carries no markers.  What a settled attempt shows matters only
\* while it keeps its pane from being ready.
AgentMoves(i, t) ==
  /\ Bound(i)
  /\ Open(mem[i]) \/ turn[i] \in {"typed", "working", "answering"}
  /\ t \in Shows(turn[i])
  /\ ~Marked(i) => t \in {"working", "scrolled"}
  /\ turn' = [turn EXCEPT ![i] = t]
  /\ UNCHANGED <<storeVars, cycleVars, manualVars, paneVars, wire, activity, overdue, spent>>

\* Other work begins, or ends.
BusyChange(s) ==
  /\ busy[s] \/ "busy" \in Events
  /\ live[s].state = "codex"
  /\ busy' = [busy EXCEPT ![s] = ~@]
  /\ UNCHANGED <<storeVars, cycleVars, manualVars, live, itemVars, spent>>

\* The items of a session whose attempt shows one of the turns in its pane.
Showing(s, ts) == {i \in Ids : /\ mem[i].session = s /\ wire[i].at = live[s].gen
                               /\ turn[i] \in ts}

PaneChange(s, gen, state) ==
  /\ live' = [live EXCEPT ![s] = [gen |-> gen, state |-> state]]
  /\ busy' = [busy EXCEPT ![s] = FALSE]
  /\ turn' = [i \in Ids |-> IF i \in Showing(s, {"typed", "working", "answering"})
                            THEN "scrolled" ELSE turn[i]]
  /\ UNCHANGED <<storeVars, cycleVars, manualVars, wire, activity, overdue, spent>>

CodexExits(s)   == "exit" \in Events /\ live[s].state = "codex" /\ PaneChange(s, live[s].gen, "shell")
CodexResumed(s) == "exit" \in Events /\ live[s].state = "shell" /\ PaneChange(s, live[s].gen, "codex")
PaneGone(s)     == "replace" \in Events /\ live[s].state # "gone"  /\ PaneChange(s, live[s].gen, "gone")
PaneCreated(s)  == /\ live[s].state = "gone" /\ live[s].gen < MaxGen
                   /\ PaneChange(s, live[s].gen + 1, "codex")

DayPasses(i) ==
  /\ "day" \in Events
  /\ mem[i].sent /\ Open(mem[i]) /\ i \notin overdue
  /\ overdue' = overdue \cup {i}
  /\ UNCHANGED <<storeVars, cycleVars, manualVars, paneVars, turn, wire, activity, spent>>

\* sendToAgent: a session with an open line needs a confirmation of its head
\* at the current revision; the answer resolution also links the send to an
\* item that awaits completion.
ManualBegin(s, heads) ==
  /\ "send" \in Events
  /\ s \notin reserved
  /\ live[s].state = "codex"
  /\ heads \subseteq {i \in Heads(mem) : mem[i].session = s /\ Awaiting(mem[i])}
  /\ spent.inputs < MaxInputs
  /\ spent' = [spent EXCEPT !.inputs = @ + 1]
  /\ reserved' = reserved \cup {s}
  /\ sending' = sending \cup {s}
  /\ answer' = [i \in Ids |-> IF i \in heads THEN "current" ELSE answer[i]]
  /\ UNCHANGED <<storeVars, cycleVars, paneVars, itemVars>>

Recorded(s) ==
  [i \in Ids |-> IF mem[i].claimed /\ mem[i].session = s THEN "new" ELSE activity[i]]

\* The submitted text is a newer prompt in the pane; a delivery that failed
\* records nothing.
ManualEnd(s, ok) ==
  /\ s \in sending
  /\ sending' = sending \ {s}
  /\ reserved' = reserved \ {s}
  /\ ok => live[s].state = "codex"
  /\ answer' = [i \in Ids |-> IF ~ok /\ mem[i].session = s THEN "none" ELSE answer[i]]
  /\ activity' = IF ok THEN Recorded(s) ELSE activity
  /\ busy' = IF ok THEN [busy EXCEPT ![s] = TRUE] ELSE busy
  /\ turn' = [i \in Ids |-> IF ok /\ i \in Showing(s, {"typed", "working"})
                            THEN "answering" ELSE turn[i]]
  /\ UNCHANGED <<storeVars, cycleVars, live, wire, overdue, spent>>

Interrupt(s) ==
  /\ "interrupt" \in Events
  /\ live[s].state = "codex"
  /\ spent.inputs < MaxInputs
  /\ spent' = [spent EXCEPT !.inputs = @ + 1]
  /\ activity' = Recorded(s)
  /\ UNCHANGED <<storeVars, cycleVars, manualVars, paneVars, turn, wire, overdue>>

---------------------------------------------------------------------------
(* The processing cycle.  Its agents list is sampled before the call waits *)
(* for the chain, so it can be old when the cycle uses it.                 *)

Sampled ==
  [panes |-> [s \in Sessions |-> [gen    |-> live[s].gen,
                                  listed |-> live[s].state # "gone",
                                  green  |-> Green(s)]],
   acts  |-> {i \in Ids : activity[i] # "none"}]

TakeSample ==
  /\ pend = {}
  /\ proc.pc = "idle" \/ "stale" \in Events
  /\ pend' = {Sampled}
  /\ UNCHANGED <<storeVars, proc, smp, obs, manualVars, paneVars, itemVars, spent>>

Pane(i, sample)     == sample.panes[mem[i].session]
Matched(i, sample)  == Pane(i, sample).listed /\ Pane(i, sample).gen = mem[i].target
Replaced(i, sample) == Pane(i, sample).listed /\ Pane(i, sample).gen # mem[i].target
\* The completion capture checks the identity again, now; readiness is the sample's.
Visible(i, sample)  == Matched(i, sample) /\ Exact(i)
Idling(i, sample)   == Visible(i, sample) /\ Pane(i, sample).green
Known(sample)       == {i \in sample.acts : Matched(i, sample)}

StrictNow(i, sample) == Visible(i, sample) /\ Strict(i, Known(sample))
ReturnNow(i, sample) == Idling(i, sample) /\ ReturnEvidence(i, Known(sample))
AcceptedNow(i, sample) ==
  Visible(i, sample) /\ turn[i] \notin {"none", "typed", "marker", "scrolled"}
MissingSignal(i) == IF turn[i] \in {"none", "marker", "scrolled"} THEN "scrolled" ELSE "quiet"
MissingNow(i, sample) ==
  /\ Awaiting(mem[i]) /\ Idling(i, sample)
  /\ ~Strict(i, Known(sample)) /\ ~ReturnEvidence(i, Known(sample))

\* Mistake: one observation is enough.
StableAtOnce(i, signal, elapsed) == elapsed

\* A second equal observation, at least the stability interval later.
Stable(i, signal, elapsed) == signal \in obs[i] /\ elapsed

MissingStage(i) ==
  IF mem[i].stage = "goal_command_submitted" THEN "goal_completion_review"
  ELSE IF MissingSignal(i) = "quiet" THEN "final_boundary_missing"
  ELSE "completion_marker_missing"

\* What capturePromptQueueCompletions decides about a candidate.
Verdict(i, sample, elapsed) ==
  LET when(signal, verdict) == IF Stable(i, signal, elapsed) THEN verdict ELSE "none"
  IN IF Awaiting(mem[i]) /\ Replaced(i, sample) THEN "completion_target_replaced"
     ELSE IF Awaiting(mem[i]) /\ i \in overdue THEN "completion_timeout"
     ELSE IF AcceptanceReview(mem[i])
       THEN IF AcceptedNow(i, sample) THEN when("late", "accepted") ELSE "none"
     ELSE IF StrictNow(i, sample) THEN when(turn[i], "captured")
     ELSE IF Awaiting(mem[i]) /\ Superseded(i, Known(sample)) THEN "completion_superseded"
     ELSE IF ReturnNow(i, sample) THEN when("return", "returned")
     ELSE IF MissingNow(i, sample) THEN when(MissingSignal(i), MissingStage(i))
     ELSE "none"

\* The item after the verdict.
Settled(i, verdict) ==
  LET it == mem[i]
  IN IF verdict = "none" THEN it
     ELSE IF verdict = "accepted"
       THEN [it EXCEPT !.status = "sent", !.summary = "pending", !.sent = TRUE,
                       !.stage = IF it.stage = "waiting_for_manual_submit"
                                 THEN "manual_submit_accepted" ELSE "accepted_late"]
     ELSE IF verdict = "captured"
       THEN Captured(i, IF RecoverableReview(it) THEN "completion_recovered"
                        ELSE IF turn[i] = "marker" THEN "return_marker_captured"
                        ELSE it.stage)
     ELSE IF verdict = "returned"
       THEN [it EXCEPT !.status = "sent", !.summary = "returned", !.done = TRUE,
                       !.footer = FALSE, !.stage = "returned_to_ready"]
     ELSE [it EXCEPT !.status = "needs_review", !.summary = "unavailable",
                     !.done = FALSE, !.footer = FALSE, !.stage = verdict]

\* Mistake: an item that is no candidate forgets that it was ready.
ObservedNothing(i, verdict, sample) == {}

\* The observations after the verdict.
Observed(i, verdict, sample) ==
  IF ~Candidate(mem[i]) THEN obs[i] \cap {"ready"}
  ELSE IF verdict = "accepted" THEN obs[i] \ {"late"}
  ELSE IF verdict # "none" THEN obs[i] \ CompletionSignals
  ELSE IF AcceptanceReview(mem[i])
    THEN IF AcceptedNow(i, sample) THEN obs[i] \cup {"late"} ELSE obs[i] \ {"late"}
  ELSE IF StrictNow(i, sample) THEN (obs[i] \ StrictSignals) \cup {turn[i]}
  ELSE (obs[i] \ CompletionSignals)
       \cup (IF ReturnNow(i, sample) THEN {"return"} ELSE {})
       \cup (IF MissingNow(i, sample) THEN {MissingSignal(i)} ELSE {})

Verdicts(sample, elapsed) ==
  [i \in Ids |-> IF Candidate(mem[i]) THEN Verdict(i, sample, elapsed) ELSE "none"]

\* The completions are captured and saved; then the heads are collected.  A
\* failed write ends the cycle.
BeginCycle(elapsed, f) ==
  /\ proc.pc = "idle"
  /\ elapsed \/ "quick" \in Events
  /\ \E sample \in pend :
       LET verdicts == Verdicts(sample, elapsed)
           next     == [i \in Ids |-> Settled(i, verdicts[i])]
       IN /\ next = mem => f = "ok"
          /\ Write(next, f)
          /\ obs' = [i \in Ids |-> Observed(i, verdicts[i], sample)]
          /\ answer' = Drifted(next, f)
          /\ activity' = [i \in Ids |->
               IF f # "ok" THEN activity[i]
               ELSE IF verdicts[i] = "completion_superseded" THEN "seen"
               ELSE IF next[i].stage = "manual_submit_accepted" /\ verdicts[i] = "accepted"
                 THEN "none"
               ELSE activity[i]]
          /\ smp' = IF f = "ok" THEN {[sample EXCEPT !.acts = {}]} ELSE {}
          /\ proc' = IF f = "ok"
                     THEN [pc |-> "heads", todo |-> Heads(next), cur |-> {},
                           out |-> "none", elapsed |-> elapsed]
                     ELSE Idle
  /\ pend' = {}
  /\ UNCHANGED <<used, reserved, sending, paneVars, turn, wire, overdue>>

\* The heads are visited in the order of their positions.
Next1(i) == /\ proc.pc = "heads" /\ i \in proc.todo
            /\ \A j \in proc.todo : mem[i].position <= mem[j].position

Skip(i) == proc' = [proc EXCEPT !.todo = @ \ {i}]

Available(i) == mem[i].status = "queued" /\ mem[i].session \notin reserved

HeadUnavailable(i) ==
  /\ Next1(i) /\ ~Available(i)
  /\ Skip(i)
  /\ obs' = [obs EXCEPT ![i] = @ \ {"ready"}]
  /\ UNCHANGED <<storeVars, smp, pend, manualVars, paneVars, itemVars, spent>>

HeadTooLong(i, f) ==
  /\ Next1(i) /\ Available(i) /\ mem[i].kind = "window"
  /\ \E next \in Trimmings([mem EXCEPT ![i].status = "canceled", ![i].summary = "unavailable",
                                       ![i].stage = "dispatch_envelope_too_long"], i) :
       /\ Write(next, f)
       /\ answer' = Drifted(next, f)
  /\ obs' = [obs EXCEPT ![i] = {}]
  /\ proc' = IF f = "ok" THEN [proc EXCEPT !.todo = @ \ {i}] ELSE Idle
  /\ smp' = IF f = "ok" THEN smp ELSE {}
  /\ UNCHANGED <<used, pend, reserved, sending, paneVars, itemVars>>

ReadySample(i) == \E sample \in smp : Matched(i, sample) /\ Pane(i, sample).green

HeadWaits(i) ==
  /\ Next1(i) /\ Available(i) /\ mem[i].kind # "window"
  /\ ~(ReadySample(i) /\ Stable(i, "ready", proc.elapsed))
  /\ Skip(i)
  /\ obs' = [obs EXCEPT ![i] = IF ReadySample(i) THEN @ \cup {"ready"} ELSE @ \ {"ready"}]
  /\ UNCHANGED <<storeVars, smp, pend, manualVars, paneVars, itemVars, spent>>

HeadReady(i) ==
  /\ Next1(i) /\ Available(i) /\ mem[i].kind # "window"
  /\ ReadySample(i) /\ Stable(i, "ready", proc.elapsed)
  /\ proc' = [proc EXCEPT !.pc = "claiming", !.todo = @ \ {i}, !.cur = {i}]
  /\ UNCHANGED <<storeVars, smp, pend, obs, manualVars, paneVars, itemVars, spent>>

\* Mistake: the delivery goes on although the claim was not saved.
ClaimUnsaved(i, f) ==
  /\ proc.pc = "claiming" /\ i \in proc.cur
  /\ Write([mem EXCEPT ![i].status = "dispatching", ![i].claimed = TRUE,
                       ![i].stage = "dispatching"], f)
  /\ obs' = [obs EXCEPT ![i] = @ \ {"ready"}]
  /\ reserved' = reserved \cup {mem[i].session}
  /\ proc' = [proc EXCEPT !.pc = "preflight"]
  /\ UNCHANGED <<used, smp, pend, sending, answer, paneVars, itemVars>>

\* The claim is on disk before anything is typed; the reservation is added
\* once the write has returned.
Claim(i, f) ==
  /\ proc.pc = "claiming" /\ i \in proc.cur
  /\ LET next == [mem EXCEPT ![i].status = "dispatching", ![i].claimed = TRUE,
                             ![i].stage = "dispatching"]
     IN Write(next, f) /\ answer' = Drifted(next, f)
  /\ obs' = IF f = "ok" THEN [obs EXCEPT ![i] = @ \ {"ready"}] ELSE obs
  /\ activity' = IF f = "ok" THEN [activity EXCEPT ![i] = "none"] ELSE activity
  /\ reserved' = IF f = "ok" THEN reserved \cup {mem[i].session} ELSE reserved
  /\ proc' = IF f = "ok" THEN [proc EXCEPT !.pc = "preflight"] ELSE Idle
  /\ smp' = IF f = "ok" THEN smp ELSE {}
  /\ UNCHANGED <<used, pend, sending, paneVars, turn, wire, overdue>>

EndCycle ==
  /\ proc.pc = "heads" /\ proc.todo = {}
  /\ proc' = Idle /\ smp' = {}
  /\ UNCHANGED <<storeVars, pend, obs, manualVars, paneVars, itemVars, spent>>

---------------------------------------------------------------------------
(* Delivery: deliverTextToAgent for the current head.                      *)

At(phase, i) == proc.pc = phase /\ i \in proc.cur

Advance(i, phase) ==
  /\ proc' = [proc EXCEPT !.pc = phase]
  /\ UNCHANGED reserved

\* Mistake: a failed delivery keeps its reservation.
FinishReserved(i, outcome) ==
  /\ proc' = [proc EXCEPT !.pc = "record", !.out = outcome]
  /\ reserved' = IF outcome \in DeliveryFailures THEN reserved ELSE reserved \ {mem[i].session}

\* The delivery has its outcome; the reservation is dropped before it is saved.
Finish(i, outcome) ==
  /\ proc' = [proc EXCEPT !.pc = "record", !.out = outcome]
  /\ reserved' = reserved \ {mem[i].session}

deliveryRest == <<storeVars, smp, pend, obs, sending, answer, paneVars, activity, overdue, spent>>

Typed(i, gen)   == wire' = [wire EXCEPT ![i] = [typed |-> @.typed + 1, entered |-> @.entered,
                                                at |-> gen]]
Entered(i, gen) == wire' = [wire EXCEPT ![i] = [typed |-> @.typed, entered |-> @.entered + 1,
                                                at |-> gen]]

PreflightPasses(i) ==
  /\ At("preflight", i) /\ Exact(i)
  /\ Advance(i, "type")
  /\ UNCHANGED <<deliveryRest, turn, wire>>

PreflightFails(i, outcome) ==
  /\ At("preflight", i)
  /\ outcome \in PreTypingStages
  /\ outcome = "preflight" => ~Exact(i)
  /\ Finish(i, outcome)
  /\ UNCHANGED <<deliveryRest, turn, wire>>

\* Marked text goes to the tmux pane id, each chunk after an identity check.
TypeMarked(i) ==
  /\ At("type", i) /\ Marked(i) /\ Exact(i)
  /\ Typed(i, mem[i].target)
  /\ turn' = [turn EXCEPT ![i] = "typed"]
  /\ Advance(i, "render")
  /\ UNCHANGED deliveryRest

\* A slash command goes to the coordinate, with no check since preflight.
TypeCommand(i) ==
  /\ At("type", i) /\ ~Marked(i) /\ live[mem[i].session].state # "gone"
  /\ Typed(i, live[mem[i].session].gen)
  /\ turn' = [turn EXCEPT ![i] = "typed"]
  /\ Advance(i, "enter")
  /\ UNCHANGED deliveryRest

\* A chunk check or a tmux call failed, possibly after part was typed.
TypeFails(i, partial) ==
  /\ At("type", i)
  /\ partial => Marked(i) /\ Exact(i)
  /\ IF partial
     THEN Typed(i, mem[i].target) /\ turn' = [turn EXCEPT ![i] = "typed"]
     ELSE UNCHANGED <<wire, turn>>
  /\ Finish(i, IF Marked(i) THEN "literal_unknown" ELSE "literal")
  /\ UNCHANGED deliveryRest

RenderConfirmed(i) ==
  /\ At("render", i) /\ Exact(i) /\ turn[i] = "typed"
  /\ Advance(i, "enter")
  /\ UNCHANGED <<deliveryRest, turn, wire>>

RenderUnconfirmed(i) ==
  /\ At("render", i)
  /\ Finish(i, "literal_confirmation")
  /\ UNCHANGED <<deliveryRest, turn, wire>>

\* Codex may swallow the Enter.
EnterMarked(i, t) ==
  /\ At("enter", i) /\ Marked(i) /\ Exact(i)
  /\ t \in {turn[i], "working"}
  /\ Entered(i, mem[i].target)
  /\ turn' = [turn EXCEPT ![i] = t]
  /\ Advance(i, "confirm")
  /\ UNCHANGED deliveryRest

EnterCommand(i) ==
  /\ At("enter", i) /\ ~Marked(i) /\ live[mem[i].session].state # "gone"
  /\ Entered(i, live[mem[i].session].gen)
  /\ turn' = [turn EXCEPT ![i] = "working"]
  /\ Finish(i, "submitted")
  /\ UNCHANGED deliveryRest

EnterFails(i) ==
  /\ At("enter", i)
  /\ Finish(i, IF Marked(i) /\ ~Exact(i) THEN "literal_confirmation" ELSE "submit")
  /\ UNCHANGED <<deliveryRest, turn, wire>>

Confirmed(i) ==
  /\ At("confirm", i) /\ Exact(i)
  /\ turn[i] \notin {"none", "typed", "marker", "scrolled"}
  /\ Finish(i, "accepted")
  /\ UNCHANGED <<deliveryRest, turn, wire>>

Unconfirmed(i) ==
  /\ At("confirm", i)
  /\ Finish(i, "confirmation")
  /\ UNCHANGED <<deliveryRest, turn, wire>>

\* An exception anywhere in the delivery.
DeliveryThrows(i) ==
  /\ "throw" \in Events
  /\ proc.pc \in {"preflight", "type", "render", "enter", "confirm"} /\ i \in proc.cur
  /\ Finish(i, "unknown")
  /\ UNCHANGED <<deliveryRest, turn, wire>>

\* Mistake: the outcome is recorded under its own name.
DeliveredAs(i, outcome) ==
  [mem[i] EXCEPT !.status = "sent", !.sent = TRUE, !.summary = "pending", !.stage = outcome]

Delivered(i, outcome) ==
  CASE outcome = "accepted" ->
         [mem[i] EXCEPT !.status = "sent", !.sent = TRUE, !.summary = "pending",
                        !.stage = "accepted"]
    [] outcome = "submitted" ->
         [mem[i] EXCEPT !.status = "sent", !.sent = TRUE,
                        !.summary = IF mem[i].kind = "goal" THEN "pending" ELSE "command_submitted",
                        !.stage = IF mem[i].kind = "goal" THEN "goal_command_submitted"
                                  ELSE "slash_command_submitted"]
    [] OTHER ->
         [mem[i] EXCEPT !.status = "needs_review", !.summary = "unavailable",
                        !.stage = outcome]

\* The outcome is saved, with one retry; when both writes fail the item stays
\* dispatching and the cycle ends.
Record(i, f) ==
  /\ At("record", i)
  /\ \E next \in Trimmings([mem EXCEPT ![i] = Delivered(i, proc.out)], i) :
       /\ Write(next, f)
       /\ answer' = Drifted(next, f)
  /\ activity' = IF f = "ok" /\ proc.out \in {"accepted", "submitted"}
                 THEN [activity EXCEPT ![i] = "none"] ELSE activity
  /\ proc' = IF f = "ok" THEN [proc EXCEPT !.pc = "heads", !.cur = {}, !.out = "none"] ELSE Idle
  /\ smp' = IF f = "ok" THEN smp ELSE {}
  /\ UNCHANGED <<used, pend, obs, reserved, sending, paneVars, turn, wire, overdue>>

---------------------------------------------------------------------------
(* A crash loses everything in memory; on start the file is read and       *)
(* reconciled before the server listens.                                   *)

\* Mistake: an interrupted delivery waits again.
ReconciledToQueue(it) ==
  IF it.status = "dispatching"
  THEN [it EXCEPT !.status = "queued", !.stage = "", !.claimed = FALSE] ELSE it

Reconciled(it) ==
  IF it.status = "dispatching"
  THEN [it EXCEPT !.status = "needs_review", !.summary = "unavailable",
                  !.stage = "restart_reconciliation"]
  ELSE IF it.status = "sent" /\ it.summary = "captured" /\ ~it.footer
  THEN [it EXCEPT !.status = "needs_review", !.summary = "unavailable", !.done = FALSE,
                  !.stage = "final_boundary_missing"]
  ELSE it

Restart ==
  /\ spent.crashes < MaxCrashes
  /\ spent' = [spent EXCEPT !.crashes = @ + 1]
  /\ mem' = [i \in Ids |-> Reconciled(disk[i])]
  /\ disk' = [i \in Ids |-> Reconciled(disk[i])]
  /\ proc' = Idle /\ smp' = {} /\ pend' = {}
  /\ obs' = [i \in Ids |-> {}]
  /\ reserved' = {} /\ sending' = {}
  /\ answer' = [i \in Ids |-> "none"]
  /\ UNCHANGED <<used, paneVars, itemVars>>

---------------------------------------------------------------------------
Blank == Gone(NewItem(CHOOSE s \in Sessions : TRUE, 0, 0, "prompt"))

Init ==
  /\ mem = [i \in Ids |-> Blank] /\ disk = [i \in Ids |-> Blank] /\ used = {}
  /\ proc = Idle /\ smp = {} /\ pend = {}
  /\ obs = [i \in Ids |-> {}]
  /\ reserved = {} /\ sending = {}
  /\ answer = [i \in Ids |-> "none"]
  /\ live = [s \in Sessions |-> [gen |-> 1, state |-> "codex"]]
  /\ busy = [s \in Sessions |-> FALSE]
  /\ turn = [i \in Ids |-> "none"]
  /\ wire = [i \in Ids |-> [typed |-> 0, entered |-> 0, at |-> 0]]
  /\ activity = [i \in Ids |-> "none"]
  /\ overdue = {}
  /\ spent = [crashes |-> 0, faults |-> 0, inputs |-> 0]

CreateRequest(f) ==
  \/ \E s \in Sessions, i \in Ids, g \in 1 .. MaxGen, k \in Kinds : CreateItem(s, i, g, k, f)
  \/ \E ss \in SUBSET Sessions : Cardinality(ss) > 1 /\
       \E id \in [ss -> Ids \ used], target \in [ss -> 1 .. MaxGen],
          rank \in [ss -> 0 .. Cardinality(ss) - 1], k \in Kinds :
         CreateBatch(ss, id, target, rank, k, f)

OperatorRequest(i, f) ==
  \/ Cancel(i, f)
  \/ DismissLiteralReview(i, f)
  \/ WaitForManualSubmit(i, f)
  \/ Retarget(i, f)
  \/ \E j \in Ids : RequeueAfterReplacement(i, j, f)
  \/ ReleaseAfterReview(i, f)
  \/ ContinueMonitoring(i, f)
  \/ LinkAnswer(i, f)

Terminal ==
  \/ \E i \in Ids : (\E t \in Turns : AgentMoves(i, t)) \/ DayPasses(i) \/ RefuseAnswer(i)
  \/ \E s \in Sessions :
       \/ BusyChange(s) \/ CodexExits(s) \/ CodexResumed(s) \/ PaneGone(s) \/ PaneCreated(s)
       \/ Interrupt(s)
       \/ \E heads \in SUBSET Ids : ManualBegin(s, heads)
       \/ \E ok \in BOOLEAN : ManualEnd(s, ok)

CycleStep(i) ==
  \/ HeadUnavailable(i) \/ HeadWaits(i) \/ HeadReady(i)
  \/ \E f \in Faults : HeadTooLong(i, f) \/ Claim(i, f) \/ Record(i, f)

DeliveryStep(i) ==
  \/ PreflightPasses(i) \/ (\E o \in PreTypingStages : PreflightFails(i, o))
  \/ TypeMarked(i) \/ TypeCommand(i) \/ (\E partial \in BOOLEAN : TypeFails(i, partial))
  \/ RenderConfirmed(i) \/ RenderUnconfirmed(i)
  \/ (\E t \in Turns : EnterMarked(i, t)) \/ EnterCommand(i) \/ EnterFails(i)
  \/ Confirmed(i) \/ Unconfirmed(i) \/ DeliveryThrows(i)

Next ==
  \/ \E f \in Faults : CreateRequest(f) \/ ClearHistory(f)
  \/ \E i \in Ids, f \in Faults : OperatorRequest(i, f)
  \/ Terminal
  \/ TakeSample
  \/ \E elapsed \in BOOLEAN, f \in Faults : BeginCycle(elapsed, f)
  \/ \E i \in Ids : CycleStep(i) \/ DeliveryStep(i)
  \/ EndCycle
  \/ Restart

Spec == Init /\ [][Next]_vars

\* The cycle in progress moves on.
Proceed ==
  \/ EndCycle
  \/ \E i \in Ids :
       \/ HeadUnavailable(i) \/ HeadWaits(i) \/ HeadReady(i) \/ HeadTooLong(i, "ok")
       \/ Claim(i, "ok") \/ Record(i, "ok") \/ DeliveryStep(i)

\* The monitor runs for ever, at intervals longer than the stability interval, and
\* the chain serves its callers in turn; tmux calls return; agents finish, or the
\* operator finishes in the terminal; time passes.  Failures, crashes and operator
\* requests are not fair, but the operator does not restart the readiness check
\* by retargeting for ever.
Fairness ==
  /\ WF_vars(TakeSample)
  /\ SF_vars(BeginCycle(TRUE, "ok"))
  /\ WF_vars(Proceed)
  /\ \A i \in Ids :
       /\ WF_vars(\E t \in Turns : AgentMoves(i, t))
       /\ WF_vars(DayPasses(i))
  /\ \A s \in Sessions :
       /\ WF_vars(\E ok \in BOOLEAN : ManualEnd(s, ok))
       /\ WF_vars(busy[s] /\ BusyChange(s))
  /\ <>[][\A i \in Ids : ~Retarget(i, "ok")]_vars

FairSpec == Spec /\ Fairness

---------------------------------------------------------------------------
(* Safety.                                                                 *)

\* Whatever crashes, write failures and uncertain deliveries happen, PaneFleet
\* types an item's text and presses Enter for it at most once.
AtMostOnce == \A i \in Ids : wire[i].typed <= 1 /\ wire[i].entered <= 1

\* Nothing is typed for an item that the file still holds as queued: a restart
\* at any moment finds every item that may have reached a terminal claimed.
ClaimIsDurable ==
  \A i \in Ids : wire[i].typed > 0 => disk[i].status # "queued" /\ mem[i].status # "queued"

InFlight(it) == it.status = "dispatching" \/ Awaiting(it)

\* A line never has two items at work in its terminal.
OneInFlight ==
  \A i, j \in Ids : i # j /\ mem[i].session = mem[j].session => ~(InFlight(mem[i]) /\ InFlight(mem[j]))

\* Both copies of the store pass validatePromptQueueStore, so no save of the
\* queue and no start of the server is ever refused.
StoreIsValid ==
  \A store \in {mem, disk} :
    /\ \A i \in Ids : ItemValid(store[i])
    /\ \A i, j \in Present(store) : i # j => store[i].position # store[j].position
    /\ Cardinality(Present(store)) <= MaxQueueItems

\* A dispatch reservation always has a delivery that will drop it: a session is
\* never left reserved, and its line blocked, by nobody.
ReservationsHaveOwners ==
  \A s \in reserved :
    \/ s \in sending
    \/ /\ proc.pc \in {"preflight", "type", "render", "enter", "confirm"}
       /\ \E i \in proc.cur : mem[i].session = s

\* While no write has failed, an item is dispatching only in the hands of the
\* cycle that claimed it.
NoOrphanedDispatch ==
  spent.faults = 0 =>
    \A i \in Ids : mem[i].status = "dispatching" => i \in proc.cur /\ proc.pc \notin {"idle", "heads"}

\* What the file holds can always be loaded and saved again, a line never has two
\* prompts at work, and one that is being dispatched is in the hands of a cycle.
QueueIsSound == StoreIsValid /\ OneInFlight /\ NoOrphanedDispatch

\* A review, once entered, is resolved only while the pane the prompt was bound to
\* still holds its session's name, or by the requeue meant for replaced panes.  (A
\* restart may find such a decision in the file that memory never learned of.)
OnOwnPane ==
  \A i \in Ids :
    /\ mem[i].status = "needs_review" /\ mem'[i].status \in {"sent", "canceled"}
    => \/ mem[i].target = live[mem[i].session].gen
       \/ mem'[i].stage = "operator_requeued_after_replacement"
ReviewResolvedOnOwnPane == [][OnOwnPane \/ Restart]_vars

\* Nothing is typed while an earlier item of the line is still at work in its terminal,
\* whatever the operator decided about that item and whatever became of its record,
\* though the agents list that called the pane ready may be older than the work.
AtWork(i) == turn[i] \in {"typed", "working", "answering"}
NotOverWork ==
  \A i, j \in Ids :
    i # j /\ mem[i].session = mem[j].session /\ AtWork(i) => wire'[j].typed <= wire[j].typed
NothingTypedOverWork == [][NotOverWork]_vars

\* The abstract promise.
StageOf(it) ==
  IF it.status = "absent" THEN "unknown"
  ELSE IF it.status = "queued" THEN "waiting"
  ELSE IF it.status = "dispatching" THEN "claimed"
  ELSE IF it.status = "needs_review" THEN "review"
  ELSE IF Awaiting(it) THEN "working"
  ELSE "settled"

DL == INSTANCE DispatchLine WITH
        Prompts <- Ids, Lines <- Sessions,
        stage   <- [i \in Ids |-> StageOf(mem[i])],
        line    <- [i \in Ids |-> mem[i].session],
        place   <- [i \in Ids |-> mem[i].position],
        presses <- [i \in Ids |-> wire[i].entered]

\* The queue implements the abstract lines.
ImplementsLine == DL!Spec

---------------------------------------------------------------------------
(* Liveness.                                                               *)

\* Every queued prompt is taken up, unless its line waits for a review or its
\* pane is no longer the one it is bound to.
QueuedIsTakenUp ==
  \A i \in Ids :
    mem[i].status = "queued" ~>
      \/ mem[i].status # "queued"
      \/ ~Exact(i)
      \/ \E j \in Line(mem, mem[i].session) : mem[j].status = "needs_review"

\* Every delivered prompt stops blocking its line by itself: it is completed
\* or, at the latest when the window closes, moved to review.
AwaitingEnds == \A i \in Ids : Awaiting(mem[i]) ~> ~Awaiting(mem[i])

---------------------------------------------------------------------------
(* Statements of the documentation and the tests the code does not keep.   *)

\* Input goes only to the exact pane the prompt is bound to.
InputReachesBoundPane ==
  \A i \in Ids : wire[i].typed > 0 /\ mem[i].status # "absent" => wire[i].at = mem[i].target

\* A completion that was captured stays one until history drops it.
CompletionIsPermanent ==
  [][\A i \in Ids : mem[i].summary = "captured" /\ mem[i].status = "sent" =>
       \/ mem'[i].summary = "captured"
       \/ mem'[i].status = "absent"]_vars
=============================================================================
