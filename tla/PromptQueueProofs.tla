------------------------- MODULE PromptQueueProofs -------------------------
(***************************************************************************)
(* Proofs about the prompt queue for every number of sessions, items,      *)
(* panes, crashes and failed writes: the types, and that a prompt is typed *)
(* and submitted at most once and never before its claim is on disk.       *)
(***************************************************************************)
EXTENDS PromptQueue, TLAPS

---------------------------------------------------------------------------
(* The inductive invariant.  The two properties are not inductive alone:   *)
(* that a second Enter is impossible rests on what the phase of the cycle  *)
(* says about its head, and that an item never waits again after it was    *)
(* typed rests on ids being given out once.                                *)

\* Neither copy of the store may hold an item that was typed as waiting.
TypedIsClaimed ==
  \A i \in Ids : wire[i].typed > 0 \/ wire[i].entered > 0 =>
                   mem[i].status # "queued" /\ disk[i].status # "queued"

\* An id that was not given out names nothing.
UnusedIsBlank ==
  \A i \in Ids \ used : /\ mem[i].status = "absent" /\ disk[i].status = "absent"
                        /\ wire[i].typed = 0 /\ wire[i].entered = 0

\* What the phase says about the head being delivered.
PhaseOfHead ==
  /\ \A i, j \in proc.cur : i = j
  /\ proc.pc \in {"idle", "heads"} => proc.cur = {}
  /\ proc.pc = "claiming" => \A i \in proc.cur : mem[i].status = "queued"
  /\ proc.pc \in {"preflight", "type"} =>
       \A i \in proc.cur : wire[i].typed = 0 /\ wire[i].entered = 0
  /\ proc.pc \in {"render", "enter"} => \A i \in proc.cur : wire[i].entered = 0
  /\ proc.pc \notin {"idle", "heads", "claiming"} =>
       \A i \in proc.cur : mem[i].status = "dispatching" /\ disk[i].status = "dispatching"

\* A delivery that is being recorded has an outcome.
OutcomeIsKnown == proc.pc = "record" => proc.out # "none"

QueueInv == /\ TypeOK
            /\ OutcomeIsKnown
            /\ AtMostOnce
            /\ TypedIsClaimed
            /\ UnusedIsBlank
            /\ PhaseOfHead

---------------------------------------------------------------------------
(* What the operators on the store return.                                 *)

\* A new item is an item.
LEMMA NewItemType ==
  ASSUME NEW s \in Sessions, NEW g \in Nat, NEW p \in Nat, NEW k \in AllKinds
  PROVE  NewItem(s, g, p, k) \in Item
BY DEF NewItem, Item, Statuses, Stages, Summaries

\* Forgetting an item leaves an absent record.
LEMMA GoneType ==
  ASSUME NEW it \in Item
  PROVE  Gone(it) \in Item /\ Gone(it).status = "absent" /\ Gone(it).session = it.session
BY DEF Gone, NewItem, Item, Statuses, Stages, Summaries, AllKinds

\* Trimming keeps items or makes final ones absent.
LEMMA TrimmingsType ==
  ASSUME NEW store \in [Ids -> Item], NEW updated, NEW next \in Trimmings(store, updated)
  PROVE  /\ next \in [Ids -> Item]
         /\ \A i \in Ids : next[i] = store[i] \/ next[i].status = "absent"
<1> DEFINE old == {i \in Ids : Final(store[i])}
<1>1. PICK kept \in SUBSET old :
         next = [i \in Ids |-> IF i \in old \ kept THEN Gone(store[i]) ELSE store[i]]
  BY DEF Trimmings
<1>2. \A i \in Ids : Gone(store[i]) \in Item /\ Gone(store[i]).status = "absent"
  BY GoneType
<1> HIDE DEF old
<1> QED BY <1>1, <1>2

\* A write leaves each copy as it was or replaces it.
LEMMA WriteType ==
  ASSUME TypeOK, NEW next \in [Ids -> Item], NEW f, Write(next, f)
  PROVE  /\ mem' \in [Ids -> Item] /\ disk' \in [Ids -> Item]
         /\ spent' \in [crashes : Nat, faults : Nat, inputs : Nat]
         /\ mem' \in {mem, next} /\ disk' \in {disk, next}
BY DEF TypeOK, Write

\* An answer drifts to one of its values.
LEMMA DriftedType ==
  ASSUME TypeOK, NEW next, NEW f
  PROVE  Drifted(next, f) \in [Ids -> {"none", "current", "behind", "stale"}]
BY DEF TypeOK, Drifted

---------------------------------------------------------------------------
(* The requests of the operator preserve the types.                        *)

\* A creation request adds items to the store.
LEMMA AddedType ==
  ASSUME TypeOK, NEW ss \in SUBSET Sessions, NEW id \in [ss -> Ids],
         NEW target \in [ss -> Nat], NEW rank \in [ss -> Nat], NEW kind \in AllKinds,
         NEW p \in 1 .. MaxPosition
  PROVE  Added(id, target, rank, kind, p) \in [Ids -> Item]
<1>1. ASSUME NEW i \in Ids, \E s \in DOMAIN id : id[s] = i
      PROVE  LET s == CHOOSE s \in DOMAIN id : id[s] = i
             IN NewItem(s, target[s], p + rank[s], kind) \in Item
  <2> DEFINE s == CHOOSE s \in DOMAIN id : id[s] = i
  <2>1. s \in ss
    BY <1>1
  <2>2. s \in Sessions /\ target[s] \in Nat /\ p + rank[s] \in Nat
    BY <2>1, BoundsAssumption
  <2> HIDE DEF s
  <2>3. NewItem(s, target[s], p + rank[s], kind) \in Item
    BY <2>2, NewItemType
  <2> QED BY <2>3 DEF s
<1> QED BY <1>1 DEF Added, TypeOK

\* A creation request preserves the types.
LEMMA CreateType ==
  ASSUME TypeOK, NEW ss \in SUBSET Sessions, NEW id \in [ss -> Ids],
         NEW target \in [ss -> Nat], NEW rank \in [ss -> Nat], NEW kind \in AllKinds, NEW f,
         Create(ss, id, target, rank, kind, f)
  PROVE  TypeOK'
<1>0. PICK p \in 1 .. MaxPosition :
        \E next \in Trimmings(Added(id, target, rank, kind, p), id[CHOOSE s \in ss : TRUE]) :
          /\ Write(next, f)
          /\ used' = used \cup {id[s] : s \in ss}
          /\ answer' = Drifted(next, f)
          /\ UNCHANGED <<proc, smp, pend, obs, reserved, sending, paneVars, itemVars>>
  BY DEF Create
<1>1. PICK next \in Trimmings(Added(id, target, rank, kind, p), id[CHOOSE s \in ss : TRUE]) :
        /\ Write(next, f)
        /\ used' = used \cup {id[s] : s \in ss}
        /\ answer' = Drifted(next, f)
        /\ UNCHANGED <<proc, smp, pend, obs, reserved, sending, paneVars, itemVars>>
  BY <1>0
<1>2. Added(id, target, rank, kind, p) \in [Ids -> Item]
  BY AddedType
<1>3. next \in [Ids -> Item]
  BY <1>1, <1>2, TrimmingsType
<1>4. /\ mem' \in [Ids -> Item] /\ disk' \in [Ids -> Item]
      /\ spent' \in [crashes : Nat, faults : Nat, inputs : Nat]
  BY <1>1, <1>3, WriteType
<1>5. answer' \in [Ids -> {"none", "current", "behind", "stale"}]
  BY <1>1, DriftedType
<1>6. used' \in SUBSET Ids
  BY <1>1 DEF TypeOK
<1> QED BY <1>1, <1>4, <1>5, <1>6 DEF TypeOK, paneVars, itemVars

\* A request that writes items leaves everything else typed.
LEMMA RequestType ==
  ASSUME TypeOK, NEW next \in [Ids -> Item], NEW cleared, NEW f, Request(next, cleared, f),
         answer' \in [Ids -> {"none", "current", "behind", "stale"}],
         activity' \in [Ids -> {"none", "seen", "new"}], overdue' \in SUBSET Ids
  PROVE  TypeOK'
<1>1. /\ mem' \in [Ids -> Item] /\ disk' \in [Ids -> Item]
      /\ spent' \in [crashes : Nat, faults : Nat, inputs : Nat]
  BY WriteType DEF Request
<1>2. obs' \in [Ids -> SUBSET Signals]
  BY DEF Request, TypeOK
<1> QED BY <1>1, <1>2 DEF Request, TypeOK, paneVars

\* So does a request that replaces one item by another.
LEMMA ReplaceType ==
  ASSUME TypeOK, NEW i \in Ids, NEW it \in Item, NEW trim \in BOOLEAN, NEW f,
         Replace(i, it, trim, f),
         activity' \in [Ids -> {"none", "seen", "new"}], overdue' \in SUBSET Ids
  PROVE  TypeOK'
<1> DEFINE changed == [mem EXCEPT ![i] = it]
<1>1. changed \in [Ids -> Item]
  BY DEF TypeOK
<1>2. PICK next : /\ next = changed \/ next \in Trimmings(changed, i)
                  /\ Request(next, {i}, f)
                  /\ answer' = Drifted(next, f)
  BY DEF Replace
<1> HIDE DEF changed
<1>3. next \in [Ids -> Item]
  BY <1>1, <1>2, TrimmingsType
<1>4. answer' \in [Ids -> {"none", "current", "behind", "stale"}]
  BY <1>2, DriftedType
<1> QED BY <1>2, <1>3, <1>4, RequestType

\* The items that requests write are items.
LEMMA ResolvedType ==
  ASSUME NEW it \in Item, NEW st \in Statuses, NEW sm \in Summaries, NEW sg \in Stages,
         NEW done \in BOOLEAN, NEW footer \in BOOLEAN
  PROVE  /\ [it EXCEPT !.status = st, !.summary = sm] \in Item
         /\ [it EXCEPT !.status = st, !.summary = sm, !.stage = sg] \in Item
         /\ [it EXCEPT !.stage = sg] \in Item
         /\ [it EXCEPT !.status = st, !.summary = sm, !.done = done, !.footer = footer,
                       !.stage = sg] \in Item
BY DEF Item

\* ... with the status they were given.
LEMMA ResolvedStatus ==
  ASSUME NEW it \in Item, NEW st, NEW sm, NEW sg, NEW done, NEW footer
  PROVE  /\ [it EXCEPT !.status = st, !.summary = sm].status = st
         /\ [it EXCEPT !.status = st, !.summary = sm, !.stage = sg].status = st
         /\ [it EXCEPT !.stage = sg].status = it.status
         /\ [it EXCEPT !.status = st, !.summary = sm, !.done = done, !.footer = footer,
                       !.stage = sg].status = st
BY DEF Item

\* An item monitored again, or captured, is an item with status "sent".
LEMMA MonitoredType ==
  ASSUME TypeOK, NEW i \in Ids, NEW sg \in Stages
  PROVE  /\ Monitored(i, sg) \in Item /\ Monitored(i, sg).status = "sent"
         /\ Captured(i, sg) \in Item /\ Captured(i, sg).status = "sent"
<1>1. mem[i] \in Item /\ (turn[i] # "marker") \in BOOLEAN
  BY DEF TypeOK
<1>2. "sent" \in Statuses /\ "pending" \in Summaries /\ "captured" \in Summaries
  BY DEF Statuses, Summaries
<1>3. Monitored(i, sg) \in Item /\ Captured(i, sg) \in Item
  BY <1>1, <1>2, ResolvedType DEF Monitored, Captured
<1>4. Monitored(i, sg).status = "sent" /\ Captured(i, sg).status = "sent"
  BY <1>1, ResolvedStatus DEF Monitored, Captured
<1> QED BY <1>3, <1>4

\* Every request of the operator on an item preserves the types.
LEMMA OperatorRequestType ==
  ASSUME TypeOK, NEW i \in Ids, NEW f, OperatorRequest(i, f)
  PROVE  TypeOK'
<1> USE DEF Stages, Statuses, Summaries
<1>0. mem[i] \in Item /\ activity \in [Ids -> {"none", "seen", "new"}] /\ overdue \in SUBSET Ids
  BY DEF TypeOK
<1>1. CASE Cancel(i, f)
  <2>1. [mem[i] EXCEPT !.status = "canceled", !.summary = "unavailable"] \in Item
    BY <1>0, ResolvedType
  <2> QED BY <1>0, <1>1, <2>1, ReplaceType DEF Cancel
<1>2. CASE DismissLiteralReview(i, f)
  <2>1. [mem[i] EXCEPT !.status = "canceled", !.summary = "unavailable",
                       !.stage = "literal_review_dismissed"] \in Item
    BY <1>0, ResolvedType
  <2> QED BY <1>0, <1>2, <2>1, ReplaceType DEF DismissLiteralReview
<1>3. CASE WaitForManualSubmit(i, f)
  <2> DEFINE next == [mem EXCEPT ![i].stage = "waiting_for_manual_submit"]
  <2>1. next \in [Ids -> Item]
    BY <1>0, ResolvedType DEF TypeOK
  <2>2. Write(next, f) /\ answer' = Drifted(next, f)
    BY <1>3 DEF WaitForManualSubmit
  <2> HIDE DEF next
  <2>3. /\ mem' \in [Ids -> Item] /\ disk' \in [Ids -> Item]
        /\ spent' \in [crashes : Nat, faults : Nat, inputs : Nat]
    BY <2>1, <2>2, WriteType
  <2>4. answer' \in [Ids -> {"none", "current", "behind", "stale"}]
    BY <2>2, DriftedType
  <2>5. obs' \in [Ids -> SUBSET Signals]
    BY <1>3 DEF WaitForManualSubmit, TypeOK
  <2> QED BY <1>3, <2>3, <2>4, <2>5 DEF WaitForManualSubmit, TypeOK, paneVars, itemVars
<1>4. CASE Retarget(i, f)
  <2>1. live[mem[i].session].gen \in Nat
    BY <1>0 DEF TypeOK, Item
  <2>2. [mem[i] EXCEPT !.target = live[mem[i].session].gen, !.stage = ""] \in Item
    BY <1>0, <2>1 DEF Item
  <2> QED BY <1>0, <1>4, <2>2, ReplaceType DEF Retarget
<1>5. CASE \E j \in Ids : RequeueAfterReplacement(i, j, f)
  <2>1. PICK j \in Ids : RequeueAfterReplacement(i, j, f)
    BY <1>5
  <2>2. PICK p \in 1 .. MaxPosition :
          \E next \in Trimmings(
              [mem EXCEPT ![i].status = "sent", ![i].summary = "operator_released",
                          ![i].done = TRUE, ![i].footer = FALSE,
                          ![i].stage = "operator_requeued_after_replacement",
                          ![j] = NewItem(mem[i].session, live[mem[i].session].gen, p,
                                         mem[i].kind)], i) :
            Write(next, f) /\ answer' = Drifted(next, f)
    BY <2>1 DEF RequeueAfterReplacement
  <2> DEFINE copy    == NewItem(mem[i].session, live[mem[i].session].gen, p, mem[i].kind)
             changed == [mem EXCEPT ![i].status = "sent", ![i].summary = "operator_released",
                                    ![i].done = TRUE, ![i].footer = FALSE,
                                    ![i].stage = "operator_requeued_after_replacement",
                                    ![j] = copy]
  <2>3. copy \in Item
    <3>1. mem[i].session \in Sessions /\ mem[i].kind \in AllKinds
      BY <1>0 DEF Item
    <3>2. live[mem[i].session].gen \in Nat
      BY <3>1 DEF TypeOK
    <3>3. p \in Nat
      BY BoundsAssumption
    <3> QED BY <3>1, <3>2, <3>3, NewItemType
  <2>4. [mem[i] EXCEPT !.status = "sent", !.summary = "operator_released", !.done = TRUE,
                       !.footer = FALSE, !.stage = "operator_requeued_after_replacement"] \in Item
    BY <1>0 DEF Item
  <2> HIDE DEF copy
  <2>5. changed \in [Ids -> Item]
    BY <2>3, <2>4 DEF TypeOK
  <2>6. PICK next \in Trimmings(changed, i) : Write(next, f) /\ answer' = Drifted(next, f)
    BY <2>2 DEF copy
  <2> HIDE DEF changed
  <2>10. next \in [Ids -> Item]
    BY <2>5, <2>6, TrimmingsType
  <2>7. /\ mem' \in [Ids -> Item] /\ disk' \in [Ids -> Item]
        /\ spent' \in [crashes : Nat, faults : Nat, inputs : Nat]
    BY <2>6, <2>10, WriteType
  <2>8. answer' \in [Ids -> {"none", "current", "behind", "stale"}]
    BY <2>6, DriftedType
  <2>9. used' \in SUBSET Ids /\ obs' \in [Ids -> SUBSET Signals]
    BY <2>1 DEF RequeueAfterReplacement, TypeOK
  <2> QED BY <2>1, <2>7, <2>8, <2>9 DEF RequeueAfterReplacement, TypeOK, paneVars, itemVars
<1>6. CASE ReleaseAfterReview(i, f)
  <2>1. Captured(i, "completion_recovered") \in Item
    BY MonitoredType
  <2>2. [mem[i] EXCEPT !.status = "sent", !.summary = "operator_released", !.done = TRUE,
                       !.footer = FALSE, !.stage = "operator_released"] \in Item
    BY <1>0 DEF Item
  <2> QED BY <1>0, <1>6, <2>1, <2>2, ReplaceType DEF ReleaseAfterReview
<1>7. CASE ContinueMonitoring(i, f)
  <2>1. Monitored(i, "monitoring_after_review") \in Item
    BY MonitoredType
  <2>2. activity' \in [Ids -> {"none", "seen", "new"}] /\ overdue' \in SUBSET Ids
    BY <1>0, <1>7 DEF ContinueMonitoring
  <2> QED BY <1>7, <2>1, <2>2, ReplaceType DEF ContinueMonitoring
<1>8. CASE LinkAnswer(i, f)
  <2>1. Monitored(i, "monitoring_after_response") \in Item
    BY MonitoredType
  <2>2. [mem EXCEPT ![i] = Monitored(i, "monitoring_after_response")] \in [Ids -> Item]
    BY <2>1 DEF TypeOK
  <2>3. /\ answer' \in [Ids -> {"none", "current", "behind", "stale"}]
        /\ activity' \in [Ids -> {"none", "seen", "new"}] /\ overdue' \in SUBSET Ids
    BY <1>8 DEF LinkAnswer, TypeOK
  <2> QED BY <1>8, <2>2, <2>3, RequestType DEF LinkAnswer
<1> QED BY <1>1, <1>2, <1>3, <1>4, <1>5, <1>6, <1>7, <1>8 DEF OperatorRequest

---------------------------------------------------------------------------
(* What happens outside the chain preserves the types.                     *)

\* A change of a pane preserves the types.
LEMMA PaneChangeType ==
  ASSUME TypeOK, NEW s \in Sessions, NEW gen \in Nat, NEW state \in {"codex", "shell", "gone"},
         PaneChange(s, gen, state)
  PROVE  TypeOK'
<1>1. live' \in [Sessions -> [gen : Nat, state : {"codex", "shell", "gone"}]]
  BY DEF PaneChange, TypeOK
<1>2. busy' \in [Sessions -> BOOLEAN]
  BY DEF PaneChange, TypeOK
<1>3. turn' \in [Ids -> Turns]
  BY DEF PaneChange, TypeOK, Turns
<1> QED BY <1>1, <1>2, <1>3 DEF PaneChange, TypeOK, storeVars, cycleVars, manualVars

\* What happens in terminals, and manual input, preserves the types.
LEMMA TerminalType ==
  ASSUME TypeOK, Terminal
  PROVE  TypeOK'
<1> USE DEF storeVars, cycleVars, manualVars, paneVars, itemVars
<1>1. CASE \E i \in Ids, t \in Turns : AgentMoves(i, t)
  <2>1. PICK i \in Ids, t \in Turns : AgentMoves(i, t)
    BY <1>1
  <2> QED BY <2>1 DEF AgentMoves, TypeOK
<1>2. CASE \E i \in Ids : DayPasses(i) \/ RefuseAnswer(i)
  BY <1>2 DEF DayPasses, RefuseAnswer, TypeOK
<1>3. ASSUME NEW s \in Sessions,
             CodexExits(s) \/ CodexResumed(s) \/ PaneGone(s) \/ PaneCreated(s)
      PROVE  TypeOK'
  <2>1. live[s].gen \in Nat /\ live[s].gen + 1 \in Nat
    BY DEF TypeOK
  <2> QED BY <1>3, <2>1, PaneChangeType DEF CodexExits, CodexResumed, PaneGone, PaneCreated
<1>4. ASSUME NEW s \in Sessions, BusyChange(s)
      PROVE  TypeOK'
  BY <1>4 DEF BusyChange, TypeOK
<1>5. ASSUME NEW s \in Sessions, Interrupt(s)
      PROVE  TypeOK'
  <2>1. activity' \in [Ids -> {"none", "seen", "new"}]
    BY <1>5 DEF Interrupt, Recorded, TypeOK
  <2>2. spent' \in [crashes : Nat, faults : Nat, inputs : Nat]
    BY <1>5 DEF Interrupt, TypeOK
  <2> QED BY <1>5, <2>1, <2>2 DEF Interrupt, TypeOK
<1>6. ASSUME NEW s \in Sessions, NEW heads \in SUBSET Ids, ManualBegin(s, heads)
      PROVE  TypeOK'
  <2>1. spent' \in [crashes : Nat, faults : Nat, inputs : Nat]
    BY <1>6 DEF ManualBegin, TypeOK
  <2> QED BY <1>6, <2>1 DEF ManualBegin, TypeOK
<1>7. ASSUME NEW s \in Sessions, NEW ok \in BOOLEAN, ManualEnd(s, ok)
      PROVE  TypeOK'
  <2>1. activity' \in [Ids -> {"none", "seen", "new"}]
    BY <1>7 DEF ManualEnd, Recorded, TypeOK
  <2>2. turn' \in [Ids -> Turns]
    BY <1>7 DEF ManualEnd, TypeOK, Turns
  <2>3. busy' \in [Sessions -> BOOLEAN]
    BY <1>7 DEF ManualEnd, TypeOK
  <2> QED BY <1>7, <2>1, <2>2, <2>3 DEF ManualEnd, TypeOK
<1> QED BY <1>1, <1>2, <1>3, <1>4, <1>5, <1>6, <1>7 DEF Terminal

---------------------------------------------------------------------------
(* The cycle preserves the types.                                          *)

\* An agents list is a sample.
LEMMA TakeSampleType ==
  ASSUME TypeOK, TakeSample
  PROVE  TypeOK'
<1>1. Sampled \in Sample
  <2>1. ASSUME NEW s \in Sessions
        PROVE  /\ live[s].gen \in Nat
               /\ (live[s].state # "gone") \in BOOLEAN /\ Green(s) \in BOOLEAN
    <3>1. live[s].gen \in Nat
      BY DEF TypeOK
    <3>2. Green(s) \in BOOLEAN
      BY DEF Green
    <3> QED BY <3>1, <3>2
  <2>2. ASSUME NEW s \in Sessions
        PROVE  [gen |-> live[s].gen, listed |-> live[s].state # "gone", green |-> Green(s)]
                  \in PaneSample
    BY <2>1 DEF PaneSample
  <2> QED BY <2>2 DEF Sampled, Sample
<1> QED BY <1>1 DEF TakeSample, TypeOK, storeVars, manualVars, paneVars, itemVars

VerdictNames == {"none", "accepted", "captured", "returned"} \cup CompletionReviews

\* The verdict on a candidate is one the completion capture can reach.
LEMMA VerdictType ==
  ASSUME NEW i, NEW sample, NEW elapsed
  PROVE  Verdict(i, sample, elapsed) \in VerdictNames
BY DEF Verdict, VerdictNames, CompletionReviews, MissingStage

\* An item after its verdict is an item.
LEMMA SettledType ==
  ASSUME TypeOK, NEW i \in Ids, NEW verdict \in VerdictNames
  PROVE  Settled(i, verdict) \in Item
<1> DEFINE it == mem[i]
<1>1. it \in Item
  BY DEF TypeOK
<1>2. CASE verdict = "none"
  BY <1>1, <1>2 DEF Settled
<1>3. CASE verdict = "accepted"
  <2>1. [it EXCEPT !.status = "sent", !.summary = "pending", !.sent = TRUE,
                   !.stage = IF it.stage = "waiting_for_manual_submit"
                             THEN "manual_submit_accepted" ELSE "accepted_late"] \in Item
    BY ZenonT(40), <1>1 DEF Item, Statuses, Summaries, Stages
  <2> QED BY <1>3, <2>1 DEF Settled
<1>4. CASE verdict = "captured"
  <2>1. /\ "completion_recovered" \in Stages /\ "return_marker_captured" \in Stages
        /\ it.stage \in Stages
    BY <1>1 DEF Stages, Item
  <2> QED BY <1>4, <2>1, MonitoredType DEF Settled
<1>5. CASE verdict = "returned"
  <2>1. [it EXCEPT !.status = "sent", !.summary = "returned", !.done = TRUE,
                   !.footer = FALSE, !.stage = "returned_to_ready"] \in Item
    BY <1>1, ResolvedType DEF Statuses, Summaries, Stages
  <2> QED BY <1>5, <2>1 DEF Settled
<1>6. CASE verdict \in CompletionReviews
  <2>1. verdict \in Stages
    BY <1>6 DEF Stages
  <2>2. [it EXCEPT !.status = "needs_review", !.summary = "unavailable",
                   !.done = FALSE, !.footer = FALSE, !.stage = verdict] \in Item
    BY <1>1, <2>1, ResolvedType DEF Statuses, Summaries
  <2> QED BY <1>6, <2>2 DEF Settled, CompletionReviews
<1> QED BY <1>2, <1>3, <1>4, <1>5, <1>6 DEF VerdictNames

\* The observations after a verdict are signals.
LEMMA ObservedType ==
  ASSUME TypeOK, NEW i \in Ids, NEW verdict, NEW sample
  PROVE  Observed(i, verdict, sample) \in SUBSET Signals
<1>1. obs[i] \in SUBSET Signals
  BY DEF TypeOK
<1>2. /\ {"late"} \subseteq Signals /\ {"return"} \subseteq Signals
      /\ MissingSignal(i) \in Signals
  BY DEF Signals, MissingSignal
<1>3. StrictNow(i, sample) => turn[i] \in Signals
  BY DEF StrictNow, Strict, Signals
<1> QED BY <1>1, <1>2, <1>3 DEF Observed

\* The start of a cycle preserves the types.
LEMMA BeginCycleType ==
  ASSUME TypeOK, NEW elapsed \in BOOLEAN, NEW f \in Faults, BeginCycle(elapsed, f)
  PROVE  TypeOK'
<1>1. PICK sample \in pend :
        LET verdicts == Verdicts(sample, elapsed)
            next     == [i \in Ids |-> Settled(i, verdicts[i])]
        IN /\ Write(next, f)
           /\ obs' = [i \in Ids |-> Observed(i, verdicts[i], sample)]
           /\ answer' = Drifted(next, f)
           /\ activity' = [i \in Ids |->
                IF f # "ok" THEN activity[i]
                ELSE IF verdicts[i] = "completion_superseded" THEN "seen"
                ELSE IF next[i].stage = "manual_submit_accepted" /\ verdicts[i] = "accepted"
                  THEN "none"
                ELSE activity[i]]
           /\ smp' = IF f = "ok" THEN {[sample EXCEPT !.acts = {}]} ELSE {}
           /\ proc' = IF f = "ok"
                      THEN [pc |-> "heads", todo |-> Heads(next), cur |-> {},
                            out |-> "none", elapsed |-> elapsed]
                      ELSE Idle
  BY DEF BeginCycle
<1> DEFINE verdicts == Verdicts(sample, elapsed)
           next     == [i \in Ids |-> Settled(i, verdicts[i])]
<1>2. \A i \in Ids : verdicts[i] \in VerdictNames
  BY VerdictType DEF Verdicts, VerdictNames
<1> HIDE DEF verdicts
<1>3. next \in [Ids -> Item]
  BY <1>2, SettledType
<1>4. /\ Write(next, f) /\ answer' = Drifted(next, f)
      /\ obs' = [i \in Ids |-> Observed(i, verdicts[i], sample)]
  BY <1>1 DEF verdicts
<1>5. activity' \in [Ids -> {"none", "seen", "new"}]
  <2>1. activity' = [i \in Ids |->
                IF f # "ok" THEN activity[i]
                ELSE IF verdicts[i] = "completion_superseded" THEN "seen"
                ELSE IF next[i].stage = "manual_submit_accepted" /\ verdicts[i] = "accepted"
                  THEN "none"
                ELSE activity[i]]
    BY <1>1 DEF verdicts
  <2> HIDE DEF next
  <2> QED BY <2>1 DEF TypeOK
<1>6. proc' \in [pc : Phases, todo : SUBSET Ids, cur : SUBSET Ids, out : Outcomes,
                 elapsed : BOOLEAN]
  <2>1. Heads(next) \in SUBSET Ids
    BY DEF Heads
  <2>2. \/ proc' = [pc |-> "heads", todo |-> Heads(next), cur |-> {}, out |-> "none",
                    elapsed |-> elapsed]
        \/ proc' = Idle
    BY <1>1 DEF verdicts
  <2>3. "heads" \in Phases /\ "idle" \in Phases /\ "none" \in Outcomes
    BY DEF Phases, Outcomes
  <2>4. ASSUME NEW phase \in Phases, NEW todo \in SUBSET Ids, NEW now \in BOOLEAN
        PROVE  [pc |-> phase, todo |-> todo, cur |-> {}, out |-> "none", elapsed |-> now]
                 \in [pc : Phases, todo : SUBSET Ids, cur : SUBSET Ids, out : Outcomes,
                     elapsed : BOOLEAN]
    BY <2>3
  <2>5. CASE proc' = Idle
    BY <2>3, <2>4, <2>5 DEF Idle
  <2> HIDE DEF next
  <2>6. CASE proc' = [pc |-> "heads", todo |-> Heads(next), cur |-> {}, out |-> "none",
                      elapsed |-> elapsed]
    BY <2>1, <2>3, <2>4, <2>6
  <2> QED BY <2>2, <2>5, <2>6
<1>7. smp' \in SUBSET Sample
  <2>1. sample \in Sample
    BY DEF TypeOK
  <2>2. [sample EXCEPT !.acts = {}] \in Sample
    BY <2>1 DEF Sample
  <2>3. smp' = {[sample EXCEPT !.acts = {}]} \/ smp' = {}
    BY <1>1
  <2> QED BY <2>2, <2>3
<1> HIDE DEF next
<1>8. /\ mem' \in [Ids -> Item] /\ disk' \in [Ids -> Item]
      /\ spent' \in [crashes : Nat, faults : Nat, inputs : Nat]
  BY <1>3, <1>4, WriteType
<1>9. answer' \in [Ids -> {"none", "current", "behind", "stale"}]
  BY <1>4, DriftedType
<1>10. obs' \in [Ids -> SUBSET Signals]
  BY <1>4, ObservedType
<1>11. /\ pend' = {}
       /\ UNCHANGED <<used, reserved, sending, paneVars, turn, wire, overdue>>
  BY DEF BeginCycle
<1> QED BY <1>5, <1>6, <1>7, <1>8, <1>9, <1>10, <1>11 DEF TypeOK, paneVars

\* What the cycle may set its control to.
ProcType == [pc : Phases, todo : SUBSET Ids, cur : SUBSET Ids, out : Outcomes, elapsed : BOOLEAN]

\* Recording an outcome gives an item.
LEMMA DeliveredType ==
  ASSUME TypeOK, NEW i \in Ids, NEW outcome \in Outcomes \ {"none"}
  PROVE  Delivered(i, outcome) \in Item
<1>0. mem[i] \in Item
  BY DEF TypeOK
<1>1. CASE outcome \in {"accepted", "submitted"}
  BY <1>0, <1>1 DEF Delivered, Item, Statuses, Summaries, Stages
<1>2. CASE outcome \notin {"accepted", "submitted"}
  <2>1. outcome \in Stages
    BY <1>2 DEF Outcomes, Stages
  <2> QED BY <1>0, <1>2, <2>1, ResolvedType DEF Delivered, Statuses, Summaries
<1> QED BY <1>1, <1>2

\* Visiting, claiming and recording heads preserve the types.
LEMMA CycleStepType ==
  ASSUME TypeOK, OutcomeIsKnown, NEW i \in Ids, CycleStep(i)
  PROVE  TypeOK'
<1> USE DEF storeVars, manualVars, paneVars, itemVars
<1>0. mem[i] \in Item /\ proc \in ProcType /\ Idle \in ProcType
  BY DEF TypeOK, ProcType, Idle, Phases, Outcomes
<1>1. CASE HeadUnavailable(i) \/ HeadWaits(i)
  <2>1. obs' \in [Ids -> SUBSET Signals]
    <3>1. obs[i] \cup {"ready"} \in SUBSET Signals /\ obs[i] \ {"ready"} \in SUBSET Signals
      BY DEF TypeOK, Signals
    <3>2. \E o \in SUBSET Signals : obs' = [obs EXCEPT ![i] = o]
      BY <1>1, <3>1 DEF HeadUnavailable, HeadWaits
    <3> QED BY <3>2 DEF TypeOK
  <2>2. proc' \in ProcType
    BY <1>0, <1>1 DEF HeadUnavailable, HeadWaits, Skip, ProcType
  <2> QED BY <1>1, <2>1, <2>2 DEF HeadUnavailable, HeadWaits, TypeOK, ProcType
<1>2. CASE HeadReady(i)
  <2>1. proc' \in ProcType
    BY <1>0, <1>2 DEF HeadReady, ProcType, Phases
  <2> QED BY <1>2, <2>1 DEF HeadReady, TypeOK, ProcType
<1>3. ASSUME NEW f \in Faults, HeadTooLong(i, f)
      PROVE  TypeOK'
  <2> DEFINE changed == [mem EXCEPT ![i].status = "canceled", ![i].summary = "unavailable",
                                    ![i].stage = "dispatch_envelope_too_long"]
  <2>1. changed \in [Ids -> Item]
    <3>1. [mem[i] EXCEPT !.status = "canceled", !.summary = "unavailable",
                         !.stage = "dispatch_envelope_too_long"] \in Item
      BY <1>0, ResolvedType DEF Statuses, Summaries, Stages
    <3> QED BY <3>1 DEF TypeOK
  <2>2. PICK next \in Trimmings(changed, i) : Write(next, f) /\ answer' = Drifted(next, f)
    BY <1>3 DEF HeadTooLong
  <2> HIDE DEF changed
  <2>3. next \in [Ids -> Item]
    BY <2>1, <2>2, TrimmingsType
  <2>4. /\ mem' \in [Ids -> Item] /\ disk' \in [Ids -> Item]
        /\ spent' \in [crashes : Nat, faults : Nat, inputs : Nat]
    BY <2>2, <2>3, WriteType
  <2>5. answer' \in [Ids -> {"none", "current", "behind", "stale"}]
    BY <2>2, DriftedType
  <2>6. obs' \in [Ids -> SUBSET Signals] /\ smp' \in SUBSET Sample
    BY <1>3 DEF HeadTooLong, TypeOK
  <2>7. proc' \in ProcType
    BY <1>0, <1>3 DEF HeadTooLong, ProcType
  <2> QED BY <1>3, <2>4, <2>5, <2>6, <2>7 DEF HeadTooLong, TypeOK, ProcType
<1>4. ASSUME NEW f \in Faults, Claim(i, f)
      PROVE  TypeOK'
  <2> DEFINE next == [mem EXCEPT ![i].status = "dispatching", ![i].claimed = TRUE,
                                 ![i].stage = "dispatching"]
  <2>1. next \in [Ids -> Item]
    <3>1. [mem[i] EXCEPT !.status = "dispatching", !.claimed = TRUE,
                         !.stage = "dispatching"] \in Item
      BY <1>0 DEF Item, Statuses, Stages
    <3> QED BY <3>1 DEF TypeOK
  <2>2. Write(next, f) /\ answer' = Drifted(next, f)
    BY <1>4 DEF Claim
  <2> HIDE DEF next
  <2>4. /\ mem' \in [Ids -> Item] /\ disk' \in [Ids -> Item]
        /\ spent' \in [crashes : Nat, faults : Nat, inputs : Nat]
    BY <2>1, <2>2, WriteType
  <2>5. answer' \in [Ids -> {"none", "current", "behind", "stale"}]
    BY <2>2, DriftedType
  <2>6. obs' \in [Ids -> SUBSET Signals] /\ smp' \in SUBSET Sample
    BY <1>4 DEF Claim, TypeOK
  <2>7. proc' \in ProcType
    BY <1>0, <1>4 DEF Claim, ProcType, Phases
  <2>8. reserved' \in SUBSET Sessions /\ activity' \in [Ids -> {"none", "seen", "new"}]
    <3>1. mem[i].session \in Sessions
      BY <1>0 DEF Item
    <3> QED BY <1>4, <3>1 DEF Claim, TypeOK
  <2> QED BY <1>4, <2>4, <2>5, <2>6, <2>7, <2>8 DEF Claim, TypeOK, ProcType
<1>5. ASSUME NEW f \in Faults, Record(i, f)
      PROVE  TypeOK'
  <2> DEFINE changed == [mem EXCEPT ![i] = Delivered(i, proc.out)]
  <2>1. changed \in [Ids -> Item]
    <3>1. Delivered(i, proc.out) \in Item
      BY <1>0, <1>5, DeliveredType DEF Record, At, ProcType, OutcomeIsKnown
    <3> QED BY <3>1 DEF TypeOK
  <2>2. PICK next \in Trimmings(changed, i) : Write(next, f) /\ answer' = Drifted(next, f)
    BY <1>5 DEF Record
  <2> HIDE DEF changed
  <2>3. next \in [Ids -> Item]
    BY <2>1, <2>2, TrimmingsType
  <2>4. /\ mem' \in [Ids -> Item] /\ disk' \in [Ids -> Item]
        /\ spent' \in [crashes : Nat, faults : Nat, inputs : Nat]
    BY <2>2, <2>3, WriteType
  <2>5. answer' \in [Ids -> {"none", "current", "behind", "stale"}]
    BY <2>2, DriftedType
  <2>6. smp' \in SUBSET Sample /\ activity' \in [Ids -> {"none", "seen", "new"}]
    BY <1>5 DEF Record, TypeOK
  <2>7. proc' \in ProcType
    BY <1>0, <1>5 DEF Record, ProcType, Phases, Outcomes
  <2> QED BY <1>5, <2>4, <2>5, <2>6, <2>7 DEF Record, TypeOK, ProcType
<1> QED BY <1>1, <1>2, <1>3, <1>4, <1>5 DEF CycleStep

\* A phase of the delivery changes the control, the reservation, the wire and
\* the turn of its head, and nothing else.
LEMMA DeliveryFrame ==
  ASSUME TypeOK, NEW i \in Ids, DeliveryStep(i)
  PROVE  /\ UNCHANGED deliveryRest
         /\ proc.pc \in {"preflight", "type", "render", "enter", "confirm"} /\ i \in proc.cur
         /\ \/ \E phase \in {"type", "render", "enter", "confirm"} : Advance(i, phase)
            \/ \E outcome \in Outcomes \ {"none"} : Finish(i, outcome)
         /\ \/ UNCHANGED wire
            \/ \E gen \in Nat : Typed(i, gen) \/ Entered(i, gen)
         /\ UNCHANGED turn \/ \E t \in Turns : turn' = [turn EXCEPT ![i] = t]
<1> USE DEF At
<1>0. mem[i].target \in Nat /\ live[mem[i].session].gen \in Nat
  <2>1. mem[i] \in Item
    BY DEF TypeOK
  <2> QED BY <2>1 DEF TypeOK, Item
<1>1. /\ PreTypingStages \subseteq Outcomes \ {"none"}
      /\ {"literal", "literal_unknown", "literal_confirmation", "submit", "confirmation",
          "unknown", "accepted", "submitted"} \subseteq Outcomes \ {"none"}
      /\ {"typed", "working"} \subseteq Turns /\ turn[i] \in Turns
  BY DEF TypeOK, Outcomes, DeliveryFailures, PreTypingStages, LiteralStages, Turns
<1>2. CASE PreflightPasses(i)
  BY <1>2 DEF PreflightPasses
<1>3. CASE \E o \in PreTypingStages : PreflightFails(i, o)
  BY <1>1, <1>3 DEF PreflightFails
<1>4. CASE TypeMarked(i) \/ TypeCommand(i)
  BY <1>0, <1>1, <1>4 DEF TypeMarked, TypeCommand
<1>5. CASE \E partial \in BOOLEAN : TypeFails(i, partial)
  BY <1>0, <1>1, <1>5 DEF TypeFails
<1>6. CASE RenderConfirmed(i) \/ RenderUnconfirmed(i)
  BY <1>1, <1>6 DEF RenderConfirmed, RenderUnconfirmed
<1>7. CASE \E t \in Turns : EnterMarked(i, t)
  BY <1>0, <1>1, <1>7 DEF EnterMarked
<1>8. CASE EnterCommand(i)
  BY <1>0, <1>1, <1>8 DEF EnterCommand
<1>9. CASE EnterFails(i)
  BY <1>1, <1>9 DEF EnterFails
<1>10. CASE Confirmed(i) \/ Unconfirmed(i)
  BY <1>1, <1>10 DEF Confirmed, Unconfirmed
<1>11. CASE DeliveryThrows(i)
  BY <1>1, <1>11 DEF DeliveryThrows
<1> QED BY <1>2, <1>3, <1>4, <1>5, <1>6, <1>7, <1>8, <1>9, <1>10, <1>11 DEF DeliveryStep

\* A phase of the delivery preserves the types.
LEMMA DeliveryType ==
  ASSUME TypeOK, NEW i \in Ids, DeliveryStep(i)
  PROVE  TypeOK'
<1>1. wire' \in [Ids -> [typed : Nat, entered : Nat, at : Nat]]
  <2>1. wire \in [Ids -> [typed : Nat, entered : Nat, at : Nat]]
    BY DEF TypeOK
  <2>2. CASE UNCHANGED wire
    BY <2>1, <2>2
  <2>3. CASE \E gen \in Nat : Typed(i, gen) \/ Entered(i, gen)
    BY <2>1, <2>3 DEF Typed, Entered
  <2> QED BY <2>2, <2>3, DeliveryFrame
<1>2. turn' \in [Ids -> Turns]
  <2>1. turn \in [Ids -> Turns]
    BY DEF TypeOK
  <2> QED BY <2>1, DeliveryFrame
<1>3. proc' \in ProcType /\ reserved' \in SUBSET Sessions
  <2>1. proc \in ProcType /\ reserved \in SUBSET Sessions
    BY DEF TypeOK, ProcType
  <2>2. CASE \E phase \in {"type", "render", "enter", "confirm"} : Advance(i, phase)
    BY <2>1, <2>2 DEF Advance, ProcType, Phases
  <2>3. CASE \E outcome \in Outcomes \ {"none"} : Finish(i, outcome)
    BY <2>1, <2>3 DEF Finish, ProcType, Phases
  <2> QED BY <2>2, <2>3, DeliveryFrame
<1> QED BY <1>1, <1>2, <1>3, DeliveryFrame DEF TypeOK, ProcType, deliveryRest, storeVars, paneVars

\* Reconciling an item gives an item.
LEMMA ReconciledType ==
  ASSUME NEW it \in Item
  PROVE  /\ Reconciled(it) \in Item
         /\ Reconciled(it).status \in {it.status, "needs_review"}
         /\ it.status # "dispatching" /\ it.status # "sent" => Reconciled(it) = it
<1>1. [it EXCEPT !.status = "needs_review", !.summary = "unavailable",
                 !.stage = "restart_reconciliation"] \in Item
  BY ResolvedType DEF Statuses, Summaries, Stages
<1>2. [it EXCEPT !.status = "needs_review", !.summary = "unavailable", !.done = FALSE,
                 !.stage = "final_boundary_missing"] \in Item
  BY DEF Item, Statuses, Summaries, Stages, CompletionReviews
<1>3. Reconciled(it) \in Item
  BY <1>1, <1>2 DEF Reconciled
<1>4. Reconciled(it).status \in {it.status, "needs_review"}
  BY DEF Reconciled, Item
<1> QED BY <1>3, <1>4 DEF Reconciled

\* A restart preserves the types.
LEMMA RestartType ==
  ASSUME TypeOK, Restart
  PROVE  TypeOK'
<1>1. mem' \in [Ids -> Item] /\ disk' \in [Ids -> Item]
  BY ReconciledType DEF Restart, TypeOK
<1>2. spent' \in [crashes : Nat, faults : Nat, inputs : Nat]
  BY DEF Restart, TypeOK
<1>3. proc' \in ProcType
  BY DEF Restart, Idle, ProcType, Phases, Outcomes
<1> QED BY <1>1, <1>2, <1>3 DEF Restart, TypeOK, ProcType, paneVars, itemVars

\* The initial state has the types.
LEMMA InitType ==
  ASSUME Init
  PROVE  TypeOK
<1>1. Blank \in Item
  <2>1. NewItem(CHOOSE s \in Sessions : TRUE, 0, 0, "prompt") \in Item
    BY SessionsAssumption, NewItemType DEF AllKinds
  <2> QED BY <2>1, GoneType DEF Blank
<1>2. proc \in ProcType
  BY DEF Init, Idle, ProcType, Phases, Outcomes
<1> QED BY <1>1, <1>2 DEF Init, TypeOK, ProcType, Turns

\* Creation requests, of one item or a batch, preserve the types.
LEMMA CreateRequestType ==
  ASSUME TypeOK, NEW f, CreateRequest(f)
  PROVE  TypeOK'
<1>1. ASSUME NEW s \in Sessions, NEW i \in Ids, NEW g \in 1 .. MaxGen, NEW k \in Kinds,
             CreateItem(s, i, g, k, f)
      PROVE  TypeOK'
  <2>1. /\ [x \in {s} |-> i] \in [{s} -> Ids] /\ [x \in {s} |-> 0] \in [{s} -> Nat]
        /\ {s} \in SUBSET Sessions /\ k \in AllKinds
    BY KindsAssumption
  <2>2. [x \in {s} |-> g] \in [{s} -> Nat]
    BY BoundsAssumption
  <2>3. Create({s}, [x \in {s} |-> i], [x \in {s} |-> g], [x \in {s} |-> 0], k, f)
    BY <1>1 DEF CreateItem
  <2> QED BY <2>1, <2>2, <2>3, CreateType
<1>2. ASSUME NEW ss \in SUBSET Sessions, NEW id \in [ss -> Ids \ used],
             NEW target \in [ss -> 1 .. MaxGen],
             NEW rank \in [ss -> 0 .. Cardinality(ss) - 1], NEW k \in Kinds,
             CreateBatch(ss, id, target, rank, k, f)
      PROVE  TypeOK'
  <2>1. id \in [ss -> Ids] /\ target \in [ss -> Nat] /\ rank \in [ss -> Nat] /\ k \in AllKinds
    BY KindsAssumption
  <2>2. Create(ss, id, target, rank, k, f)
    BY <1>2 DEF CreateBatch
  <2> QED BY <2>1, <2>2, CreateType
<1> QED BY <1>1, <1>2 DEF CreateRequest

\* Clearing history preserves the types.
LEMMA ClearHistoryType ==
  ASSUME TypeOK, NEW f, ClearHistory(f)
  PROVE  TypeOK'
<1> DEFINE history == {i \in Ids : Final(mem[i])}
           next    == [i \in Ids |-> IF i \in history THEN Gone(mem[i]) ELSE mem[i]]
<1>1. next \in [Ids -> Item]
  BY GoneType DEF TypeOK
<1>2. Request(next, history, f) /\ answer' = Drifted(next, f) /\ UNCHANGED <<activity, overdue>>
  BY DEF ClearHistory
<1> HIDE DEF next, history
<1>3. /\ answer' \in [Ids -> {"none", "current", "behind", "stale"}]
      /\ activity' \in [Ids -> {"none", "seen", "new"}] /\ overdue' \in SUBSET Ids
  BY <1>2, DriftedType DEF TypeOK
<1> QED BY <1>1, <1>2, <1>3, RequestType

---------------------------------------------------------------------------
(* Every step preserves the types.                                         *)

\* Every step preserves the types.
LEMMA TypeStep ==
  ASSUME TypeOK, OutcomeIsKnown, [Next]_vars
  PROVE  TypeOK'
<1>1. CASE \E f \in Faults : CreateRequest(f) \/ ClearHistory(f)
  BY <1>1, CreateRequestType, ClearHistoryType
<1>2. CASE \E i \in Ids, f \in Faults : OperatorRequest(i, f)
  BY <1>2, OperatorRequestType
<1>3. CASE Terminal
  BY <1>3, TerminalType
<1>4. CASE TakeSample
  BY <1>4, TakeSampleType
<1>5. CASE \E elapsed \in BOOLEAN, f \in Faults : BeginCycle(elapsed, f)
  BY <1>5, BeginCycleType
<1>6. CASE \E i \in Ids : CycleStep(i) \/ DeliveryStep(i)
  BY <1>6, CycleStepType, DeliveryType
<1>7. CASE EndCycle
  <2>1. proc' \in ProcType
    BY <1>7 DEF EndCycle, Idle, ProcType, Phases, Outcomes
  <2> QED BY <1>7, <2>1
      DEF EndCycle, TypeOK, ProcType, storeVars, manualVars, paneVars, itemVars
<1>8. CASE Restart
  BY <1>8, RestartType
<1>9. CASE UNCHANGED vars
  BY <1>9 DEF vars, TypeOK
<1> QED BY <1>1, <1>2, <1>3, <1>4, <1>5, <1>6, <1>7, <1>8, <1>9 DEF Next

---------------------------------------------------------------------------
(* Writing the store keeps the invariant when the store written puts no    *)
(* used item back to waiting and names no id that was not given out.       *)

Lawful(next, given) ==
  \A i \in Ids :
    /\ next[i].status = "queued" => mem[i].status = "queued" \/ i \notin used
    /\ i \notin given => next[i].status = "absent"

\* The part of the invariant that is about the store and the wire.
StoreInv == AtMostOnce /\ TypedIsClaimed /\ UnusedIsBlank

\* Writing a lawful store preserves the part of the invariant about the store.
LEMMA LawfulWrite ==
  ASSUME QueueInv, NEW next \in [Ids -> Item], NEW f, Write(next, f),
         Lawful(next, used'), used \subseteq used', UNCHANGED wire
  PROVE  StoreInv'
<1>1. mem' \in {mem, next} /\ disk' \in {disk, next}
  BY WriteType DEF QueueInv
<1>2. AtMostOnce'
  BY DEF QueueInv, AtMostOnce
<1>3. TypedIsClaimed'
  BY <1>1 DEF QueueInv, TypedIsClaimed, UnusedIsBlank, Lawful, TypeOK
<1>4. UnusedIsBlank'
  BY <1>1 DEF QueueInv, UnusedIsBlank, Lawful
<1> QED BY <1>2, <1>3, <1>4 DEF StoreInv

\* Changing one item that exists, without putting it back to waiting, is lawful.
LEMMA LawfulChange ==
  ASSUME QueueInv, NEW i \in Ids, NEW it \in Item, mem[i].status # "absent",
         it.status = "queued" => mem[i].status = "queued", it.status # "absent",
         NEW next, NEW updated,
         \/ next = [mem EXCEPT ![i] = it]
         \/ next \in Trimmings([mem EXCEPT ![i] = it], updated)
  PROVE  next \in [Ids -> Item] /\ Lawful(next, used)
<1> DEFINE changed == [mem EXCEPT ![i] = it]
<1>1. changed \in [Ids -> Item] /\ i \in used
  BY DEF QueueInv, TypeOK, UnusedIsBlank
<1>2. Lawful(changed, used)
  BY <1>1 DEF QueueInv, TypeOK, UnusedIsBlank, Lawful
<1> HIDE DEF changed
<1>3. /\ next \in [Ids -> Item]
      /\ \A j \in Ids : next[j] = changed[j] \/ next[j].status = "absent"
  BY <1>1, TrimmingsType DEF changed
<1> QED BY <1>2, <1>3 DEF Lawful

\* Replacing an item without putting it back to waiting preserves it too.
LEMMA ReplaceInv ==
  ASSUME QueueInv, NEW i \in Ids, NEW it \in Item, mem[i].status # "absent",
         it.status = "queued" => mem[i].status = "queued", it.status # "absent",
         NEW trim, NEW f, Replace(i, it, trim, f)
  PROVE  StoreInv'
<1>1. PICK next : /\ \/ next = [mem EXCEPT ![i] = it]
                     \/ next \in Trimmings([mem EXCEPT ![i] = it], i)
                  /\ Request(next, {i}, f)
  BY DEF Replace
<1>2. Write(next, f) /\ UNCHANGED <<used, wire>>
  BY <1>1 DEF Request
<1>3. next \in [Ids -> Item] /\ Lawful(next, used)
  BY <1>1, LawfulChange
<1> QED BY <1>2, <1>3, LawfulWrite

\* Creating items under ids that were not given out preserves it.
LEMMA CreateInv ==
  ASSUME QueueInv, NEW ss \in SUBSET Sessions, NEW id \in [ss -> Ids \ used],
         NEW target \in [ss -> Nat], NEW rank \in [ss -> Nat], NEW kind \in AllKinds, NEW f,
         Create(ss, id, target, rank, kind, f)
  PROVE  StoreInv'
<1>0. PICK p \in 1 .. MaxPosition :
        \E next \in Trimmings(Added(id, target, rank, kind, p), id[CHOOSE s \in ss : TRUE]) :
          Write(next, f) /\ used' = used \cup {id[s] : s \in ss} /\ UNCHANGED itemVars
  BY DEF Create
<1>1. PICK next \in Trimmings(Added(id, target, rank, kind, p), id[CHOOSE s \in ss : TRUE]) :
        Write(next, f) /\ used' = used \cup {id[s] : s \in ss} /\ UNCHANGED itemVars
  BY <1>0
<1> DEFINE added == Added(id, target, rank, kind, p)
<1>2. added \in [Ids -> Item]
  BY AddedType DEF QueueInv
<1>3. \A i \in Ids : added[i] # mem[i] => i \in used' /\ i \notin used
  BY <1>1 DEF Added
<1> HIDE DEF added
<1>4. /\ next \in [Ids -> Item]
      /\ \A i \in Ids : next[i] = added[i] \/ next[i].status = "absent"
  BY <1>1, <1>2, TrimmingsType DEF added
<1>5. Lawful(next, used')
  BY <1>1, <1>3, <1>4 DEF Lawful, QueueInv, UnusedIsBlank
<1> QED BY <1>1, <1>4, <1>5, LawfulWrite DEF itemVars

\* Every request of the operator on an item preserves it.
LEMMA OperatorRequestInv ==
  ASSUME QueueInv, NEW i \in Ids, NEW f, OperatorRequest(i, f)
  PROVE  StoreInv'
<1>0. mem[i] \in Item /\ TypeOK
  BY DEF QueueInv, TypeOK
<1> USE DEF Statuses, Summaries, Stages
<1>1. CASE Cancel(i, f)
  <2> DEFINE it == [mem[i] EXCEPT !.status = "canceled", !.summary = "unavailable"]
  <2>1. it \in Item
    BY <1>0, ResolvedType
  <2>3. it.status = "canceled"
    BY <1>0, ResolvedStatus
  <2>2. mem[i].status = "queued" /\ Replace(i, it, TRUE, f)
    BY <1>1 DEF Cancel
  <2> HIDE DEF it
  <2> QED BY <2>1, <2>2, <2>3, ReplaceInv
<1>2. CASE DismissLiteralReview(i, f)
  <2> DEFINE it == [mem[i] EXCEPT !.status = "canceled", !.summary = "unavailable",
                                  !.stage = "literal_review_dismissed"]
  <2>1. it \in Item
    BY <1>0, ResolvedType
  <2>3. it.status = "canceled"
    BY <1>0, ResolvedStatus
  <2>2. mem[i].status = "needs_review" /\ Replace(i, it, TRUE, f)
    BY <1>2 DEF DismissLiteralReview
  <2> HIDE DEF it
  <2> QED BY <2>1, <2>2, <2>3, ReplaceInv
<1>3. CASE WaitForManualSubmit(i, f)
  <2> DEFINE it == [mem[i] EXCEPT !.stage = "waiting_for_manual_submit"]
  <2>1. it \in Item
    BY <1>0, ResolvedType
  <2>2. it.status = mem[i].status
    BY <1>0, ResolvedStatus
  <2>3. mem[i].status = "needs_review" /\ Write([mem EXCEPT ![i] = it], f)
    BY <1>3 DEF WaitForManualSubmit, Review
  <2>4. UNCHANGED <<used, wire>>
    BY <1>3 DEF WaitForManualSubmit, itemVars
  <2> HIDE DEF it
  <2>5. [mem EXCEPT ![i] = it] \in [Ids -> Item] /\ Lawful([mem EXCEPT ![i] = it], used)
    BY <2>1, <2>2, <2>3, LawfulChange
  <2> QED BY <2>3, <2>4, <2>5, LawfulWrite
<1>4. CASE Retarget(i, f)
  <2> DEFINE it == [mem[i] EXCEPT !.target = live[mem[i].session].gen, !.stage = ""]
  <2>1. it \in Item /\ it.status = mem[i].status
    <3>1. live[mem[i].session].gen \in Nat
      BY <1>0 DEF TypeOK, Item
    <3> QED BY <1>0, <3>1 DEF Item
  <2>2. mem[i].status = "queued" /\ Replace(i, it, FALSE, f)
    BY <1>4 DEF Retarget
  <2> HIDE DEF it
  <2> QED BY <2>1, <2>2, ReplaceInv
<1>5. ASSUME NEW j \in Ids, RequeueAfterReplacement(i, j, f)
      PROVE  StoreInv'
  <2>1. PICK p \in 1 .. MaxPosition :
          \E next \in Trimmings(
              [mem EXCEPT ![i].status = "sent", ![i].summary = "operator_released",
                          ![i].done = TRUE, ![i].footer = FALSE,
                          ![i].stage = "operator_requeued_after_replacement",
                          ![j] = NewItem(mem[i].session, live[mem[i].session].gen, p,
                                         mem[i].kind)], i) :
            Write(next, f)
    BY <1>5 DEF RequeueAfterReplacement
  <2>2. /\ j \notin used /\ used' = used \cup {j} /\ UNCHANGED wire
        /\ mem[i].status = "needs_review"
    BY <1>5 DEF RequeueAfterReplacement, itemVars, Review
  <2> DEFINE archived == [mem[i] EXCEPT !.status = "sent", !.summary = "operator_released",
                                        !.done = TRUE, !.footer = FALSE,
                                        !.stage = "operator_requeued_after_replacement"]
             copy     == NewItem(mem[i].session, live[mem[i].session].gen, p, mem[i].kind)
             changed  == [mem EXCEPT ![i] = archived, ![j] = copy]
  <2>3. copy \in Item
    <3>1. mem[i].session \in Sessions /\ mem[i].kind \in AllKinds
      BY <1>0 DEF Item
    <3>2. live[mem[i].session].gen \in Nat
      BY <1>0, <3>1 DEF TypeOK
    <3>3. p \in Nat
      BY BoundsAssumption
    <3> QED BY <3>1, <3>2, <3>3, NewItemType
  <2>4. archived \in Item /\ archived.status = "sent"
    BY <1>0 DEF Item
  <2>5. i \in used
    BY <2>2 DEF QueueInv, UnusedIsBlank
  <2>6. PICK next \in Trimmings(changed, i) : Write(next, f)
    BY <2>1, <2>2, <2>5 DEF copy, archived
  <2> HIDE DEF archived, copy
  <2>7. changed \in [Ids -> Item]
    BY <1>0, <2>3, <2>4 DEF TypeOK
  <2>8. \A k \in Ids : \/ changed[k] = mem[k]
                       \/ k = i /\ changed[k].status = "sent"
                       \/ k = j
    BY <1>0, <2>4 DEF TypeOK
  <2> HIDE DEF changed
  <2>9. /\ next \in [Ids -> Item]
        /\ \A k \in Ids : next[k] = changed[k] \/ next[k].status = "absent"
    BY <2>6, <2>7, TrimmingsType
  <2>10. Lawful(next, used')
    BY <2>2, <2>5, <2>8, <2>9 DEF Lawful, QueueInv, UnusedIsBlank
  <2> QED BY <2>2, <2>6, <2>9, <2>10, LawfulWrite
<1>6. CASE ReleaseAfterReview(i, f)
  <2> DEFINE released == [mem[i] EXCEPT !.status = "sent", !.summary = "operator_released",
                                        !.done = TRUE, !.footer = FALSE,
                                        !.stage = "operator_released"]
  <2>1. /\ Captured(i, "completion_recovered") \in Item
        /\ Captured(i, "completion_recovered").status = "sent"
    BY <1>0, MonitoredType
  <2>2. released \in Item /\ released.status = "sent"
    BY <1>0 DEF Item
  <2>3. /\ mem[i].status = "needs_review"
        /\ \/ Replace(i, Captured(i, "completion_recovered"), TRUE, f)
           \/ Replace(i, released, TRUE, f)
    BY <1>6 DEF ReleaseAfterReview
  <2> HIDE DEF released
  <2> QED BY <2>1, <2>2, <2>3, ReplaceInv
<1>7. CASE ContinueMonitoring(i, f)
  <2>1. /\ Monitored(i, "monitoring_after_review") \in Item
        /\ Monitored(i, "monitoring_after_review").status = "sent"
    BY <1>0, MonitoredType
  <2>2. /\ mem[i].status = "needs_review"
        /\ Replace(i, Monitored(i, "monitoring_after_review"), FALSE, f)
    BY <1>7 DEF ContinueMonitoring, Review
  <2> QED BY <2>1, <2>2, ReplaceInv
<1>8. CASE LinkAnswer(i, f)
  <2> DEFINE it == Monitored(i, "monitoring_after_response")
  <2>1. it \in Item /\ it.status = "sent"
    BY <1>0, MonitoredType
  <2>2. mem[i].status # "absent" /\ Request([mem EXCEPT ![i] = it], {i}, f)
    BY <1>8 DEF LinkAnswer, Linkable, Awaiting, Review
  <2>3. Write([mem EXCEPT ![i] = it], f) /\ UNCHANGED <<used, wire>>
    BY <2>2 DEF Request
  <2> HIDE DEF it
  <2>4. [mem EXCEPT ![i] = it] \in [Ids -> Item] /\ Lawful([mem EXCEPT ![i] = it], used)
    BY <2>1, <2>2, LawfulChange
  <2> QED BY <2>3, <2>4, LawfulWrite
<1> QED BY <1>1, <1>2, <1>3, <1>4, <1>5, <1>6, <1>7, <1>8 DEF OperatorRequest

\* The part of the invariant that is about the cycle in progress.
HeadInv == PhaseOfHead /\ OutcomeIsKnown

\* While no cycle is in progress there is no head to speak of.
LEMMA IdleHead ==
  ASSUME QueueInv, \/ proc.pc = "idle" /\ proc' = proc
                   \/ proc' = Idle
                   \/ UNCHANGED <<proc, mem, disk, wire>>
  PROVE  HeadInv'
BY DEF QueueInv, HeadInv, PhaseOfHead, OutcomeIsKnown, Idle

\* Creation requests preserve the part of the invariant about the store.
LEMMA CreateRequestInv ==
  ASSUME QueueInv, NEW f, CreateRequest(f)
  PROVE  StoreInv'
<1>1. ASSUME NEW s \in Sessions, NEW i \in Ids, NEW g \in 1 .. MaxGen, NEW k \in Kinds,
             CreateItem(s, i, g, k, f)
      PROVE  StoreInv'
  <2>1. i \in Ids \ used
    BY <1>1 DEF CreateItem
  <2>2. /\ [x \in {s} |-> i] \in [{s} -> Ids \ used] /\ [x \in {s} |-> 0] \in [{s} -> Nat]
        /\ {s} \in SUBSET Sessions /\ k \in AllKinds
    BY <2>1, KindsAssumption
  <2>3. [x \in {s} |-> g] \in [{s} -> Nat]
    BY BoundsAssumption
  <2>4. Create({s}, [x \in {s} |-> i], [x \in {s} |-> g], [x \in {s} |-> 0], k, f)
    BY <1>1 DEF CreateItem
  <2> QED BY <2>2, <2>3, <2>4, CreateInv
<1>2. ASSUME NEW ss \in SUBSET Sessions, NEW id \in [ss -> Ids \ used],
             NEW target \in [ss -> 1 .. MaxGen],
             NEW rank \in [ss -> 0 .. Cardinality(ss) - 1], NEW k \in Kinds,
             CreateBatch(ss, id, target, rank, k, f)
      PROVE  StoreInv'
  <2>1. target \in [ss -> Nat] /\ rank \in [ss -> Nat] /\ k \in AllKinds
    BY KindsAssumption
  <2>2. Create(ss, id, target, rank, k, f)
    BY <1>2 DEF CreateBatch
  <2> QED BY <2>1, <2>2, CreateInv
<1> QED BY <1>1, <1>2 DEF CreateRequest

\* Clearing history forgets items and puts none back to waiting.
LEMMA ClearHistoryInv ==
  ASSUME QueueInv, NEW f, ClearHistory(f)
  PROVE  StoreInv'
<1> DEFINE history == {i \in Ids : Final(mem[i])}
           next    == [i \in Ids |-> IF i \in history THEN Gone(mem[i]) ELSE mem[i]]
<1>1. Request(next, history, f)
  BY DEF ClearHistory
<1>2. Write(next, f) /\ UNCHANGED <<used, wire>>
  BY <1>1 DEF Request
<1>3. \A i \in Ids : Gone(mem[i]) \in Item /\ Gone(mem[i]).status = "absent"
  BY GoneType DEF QueueInv, TypeOK
<1>4. next \in [Ids -> Item] /\ Lawful(next, used)
  BY <1>3 DEF QueueInv, TypeOK, UnusedIsBlank, Lawful
<1> HIDE DEF next, history
<1> QED BY <1>2, <1>4, LawfulWrite

\* A verdict never puts an item back to waiting.
LEMMA SettledStatus ==
  ASSUME TypeOK, NEW i \in Ids, NEW verdict \in VerdictNames
  PROVE  Settled(i, verdict) = mem[i] \/ Settled(i, verdict).status \in {"sent", "needs_review"}
<1>1. mem[i] \in Item
  BY DEF TypeOK
<1> QED BY <1>1 DEF Settled, VerdictNames, Captured, Item

\* The start of a cycle preserves the invariant: its verdicts are about
\* delivered items and put none back to waiting.
LEMMA BeginCycleInv ==
  ASSUME QueueInv, NEW elapsed \in BOOLEAN, NEW f \in Faults, BeginCycle(elapsed, f)
  PROVE  StoreInv' /\ HeadInv'
<1>1. PICK sample \in pend :
        LET verdicts == Verdicts(sample, elapsed)
            next     == [i \in Ids |-> Settled(i, verdicts[i])]
        IN /\ Write(next, f)
           /\ proc' = IF f = "ok"
                      THEN [pc |-> "heads", todo |-> Heads(next), cur |-> {},
                            out |-> "none", elapsed |-> elapsed]
                      ELSE Idle
  BY DEF BeginCycle
<1> DEFINE verdicts == Verdicts(sample, elapsed)
           next     == [i \in Ids |-> Settled(i, verdicts[i])]
<1>2. \A i \in Ids : /\ verdicts[i] \in VerdictNames
                     /\ mem[i].status = "absent" => verdicts[i] = "none"
  BY VerdictType DEF Verdicts, VerdictNames, Candidate, Awaiting, AcceptanceReview,
                     RecoverableReview, Review
<1>3. Write(next, f) /\ UNCHANGED <<used, wire>>
  BY <1>1 DEF BeginCycle
<1> HIDE DEF verdicts
<1>4. \A i \in Ids : /\ next[i] \in Item
                     /\ next[i] = mem[i] \/ next[i].status \in {"sent", "needs_review"}
                     /\ mem[i].status = "absent" => next[i] = mem[i]
  BY <1>2, SettledType, SettledStatus DEF QueueInv, Settled
<1>5. next \in [Ids -> Item]
  BY <1>4
<1> HIDE DEF next
<1>6. Lawful(next, used)
  BY <1>4 DEF Lawful, QueueInv, UnusedIsBlank
<1>7. StoreInv'
  BY <1>3, <1>5, <1>6, LawfulWrite
<1>8. HeadInv'
  BY <1>1 DEF HeadInv, PhaseOfHead, OutcomeIsKnown, Idle
<1> QED BY <1>7, <1>8

\* Visiting, claiming and recording heads preserves the invariant.  A claim
\* starts a delivery of an item that was waiting, so nothing was typed for it.
LEMMA CycleStepInv ==
  ASSUME QueueInv, NEW i \in Ids, CycleStep(i)
  PROVE  StoreInv' /\ HeadInv'
<1>0. /\ mem[i] \in Item /\ mem \in [Ids -> Item] /\ disk \in [Ids -> Item]
      /\ proc \in ProcType /\ TypeOK
      /\ wire \in [Ids -> [typed : Nat, entered : Nat, at : Nat]]
  BY DEF QueueInv, TypeOK, ProcType
<1>1. CASE HeadUnavailable(i) \/ HeadWaits(i) \/ HeadReady(i)
  <2>1. UNCHANGED <<mem, disk, used, wire>>
    BY <1>1 DEF HeadUnavailable, HeadWaits, HeadReady, storeVars, itemVars
  <2>2. StoreInv'
    BY <2>1 DEF QueueInv, StoreInv, AtMostOnce, TypedIsClaimed, UnusedIsBlank
  <2>3. CASE HeadUnavailable(i) \/ HeadWaits(i)
    <3>1. proc' = [proc EXCEPT !.todo = @ \ {i}]
      BY <2>3 DEF HeadUnavailable, HeadWaits, Skip
    <3>2. /\ proc'.pc = proc.pc /\ proc'.cur = proc.cur /\ proc'.out = proc.out
      BY <1>0, <3>1 DEF ProcType
    <3> QED BY <2>1, <2>2, <3>2 DEF QueueInv, HeadInv, PhaseOfHead, OutcomeIsKnown
  <2>4. CASE HeadReady(i)
    <3>1. proc' = [proc EXCEPT !.pc = "claiming", !.todo = @ \ {i}, !.cur = {i}]
      BY <2>4 DEF HeadReady
    <3>2. proc'.pc = "claiming" /\ proc'.cur = {i} /\ mem[i].status = "queued"
      BY <1>0, <2>4, <3>1 DEF HeadReady, Available, ProcType
    <3> QED BY <2>1, <2>2, <3>2 DEF HeadInv, PhaseOfHead, OutcomeIsKnown
  <2> QED BY <1>1, <2>3, <2>4
<1>2. ASSUME NEW f \in Faults, HeadTooLong(i, f)
      PROVE  StoreInv' /\ HeadInv'
  <2> DEFINE it == [mem[i] EXCEPT !.status = "canceled", !.summary = "unavailable",
                                  !.stage = "dispatch_envelope_too_long"]
  <2>1. it \in Item /\ it.status = "canceled"
    <3>1. it \in Item
      BY <1>0, ResolvedType DEF Statuses, Summaries, Stages
    <3>2. it.status = "canceled"
      BY <1>0, ResolvedStatus DEF Statuses, Summaries, Stages
    <3> QED BY <3>1, <3>2
  <2>2. /\ mem[i].status = "queued" /\ UNCHANGED <<used, wire>>
        /\ proc' = IF f = "ok" THEN [proc EXCEPT !.todo = @ \ {i}] ELSE Idle
        /\ proc.pc = "heads"
    BY <1>2 DEF HeadTooLong, Available, Next1, itemVars
  <2>3. PICK next \in Trimmings([mem EXCEPT ![i] = it], i) : Write(next, f)
    BY <1>0, <1>2 DEF HeadTooLong
  <2> HIDE DEF it
  <2>4. next \in [Ids -> Item] /\ Lawful(next, used)
    BY <2>1, <2>2, <2>3, LawfulChange
  <2>5. StoreInv'
    BY <2>2, <2>3, <2>4, LawfulWrite
  <2>6. HeadInv'
    <3>1. CASE f = "ok"
      <4>1. proc'.pc = "heads" /\ proc'.cur = {}
        BY <1>0, <2>2, <3>1 DEF ProcType, QueueInv, PhaseOfHead
      <4> QED BY <4>1 DEF HeadInv, PhaseOfHead, OutcomeIsKnown
    <3>2. CASE f # "ok"
      BY <2>2, <3>2, IdleHead
    <3> QED BY <3>1, <3>2
  <2> QED BY <2>5, <2>6
<1>3. ASSUME NEW f \in Faults, Claim(i, f)
      PROVE  StoreInv' /\ HeadInv'
  <2> DEFINE it   == [mem[i] EXCEPT !.status = "dispatching", !.claimed = TRUE,
                                    !.stage = "dispatching"]
             next == [mem EXCEPT ![i] = it]
  <2>1. it \in Item /\ it.status = "dispatching"
    BY <1>0 DEF Item, Statuses, Stages
  <2>2. /\ UNCHANGED <<used, wire>> /\ proc.pc = "claiming" /\ i \in proc.cur
        /\ proc' = IF f = "ok" THEN [proc EXCEPT !.pc = "preflight"] ELSE Idle
    BY <1>3 DEF Claim
  <2>3. mem[i].status = "queued" /\ \A j \in proc.cur : j = i
    BY <2>2 DEF QueueInv, PhaseOfHead
  <2>4. Write(next, f)
    BY <1>0, <1>3 DEF Claim
  <2>5. wire[i].typed = 0 /\ wire[i].entered = 0
    BY <1>0, <2>3 DEF QueueInv, TypedIsClaimed
  <2> HIDE DEF it
  <2>6. next[i] = it /\ next \in [Ids -> Item] /\ Lawful(next, used)
    BY <1>0, <2>1, <2>3, LawfulChange
  <2> HIDE DEF next
  <2>7. StoreInv'
    BY <2>2, <2>4, <2>6, LawfulWrite
  <2>8. HeadInv'
    <3>1. CASE f = "ok"
      <4>1. proc'.pc = "preflight" /\ proc'.cur = proc.cur
        BY <1>0, <2>2, <3>1 DEF ProcType
      <4>2. mem'[i].status = "dispatching" /\ disk'[i].status = "dispatching"
        BY <2>1, <2>4, <2>6, <3>1 DEF Write
      <4> QED BY <2>2, <2>3, <2>5, <4>1, <4>2 DEF HeadInv, PhaseOfHead, OutcomeIsKnown
    <3>2. CASE f # "ok"
      BY <2>2, <3>2, IdleHead
    <3> QED BY <3>1, <3>2
  <2> QED BY <2>7, <2>8
<1>4. ASSUME NEW f \in Faults, Record(i, f)
      PROVE  StoreInv' /\ HeadInv'
  <2> DEFINE it == Delivered(i, proc.out)
  <2>1. it \in Item
    <3>1. proc.out \in Outcomes \ {"none"}
      BY <1>0, <1>4 DEF Record, At, ProcType, QueueInv, OutcomeIsKnown
    <3> QED BY <1>0, <3>1, DeliveredType
  <2>2. it.status \in {"sent", "needs_review"}
    BY <1>0 DEF Delivered, Item
  <2>3. /\ UNCHANGED <<used, wire>> /\ proc.pc = "record" /\ i \in proc.cur
        /\ proc' = IF f = "ok" THEN [proc EXCEPT !.pc = "heads", !.cur = {}, !.out = "none"]
                   ELSE Idle
    BY <1>4 DEF Record, At
  <2>4. mem[i].status = "dispatching"
    BY <2>3 DEF QueueInv, PhaseOfHead
  <2>5. PICK next \in Trimmings([mem EXCEPT ![i] = it], i) : Write(next, f)
    BY <1>4 DEF Record
  <2> HIDE DEF it
  <2>6. next \in [Ids -> Item] /\ Lawful(next, used)
    BY <2>1, <2>2, <2>4, <2>5, LawfulChange
  <2>7. StoreInv'
    BY <2>3, <2>5, <2>6, LawfulWrite
  <2>8. HeadInv'
    <3>1. CASE f = "ok"
      <4>1. proc'.pc = "heads" /\ proc'.cur = {}
        BY <1>0, <2>3, <3>1 DEF ProcType
      <4> QED BY <4>1 DEF HeadInv, PhaseOfHead, OutcomeIsKnown
    <3>2. CASE f # "ok"
      BY <2>3, <3>2, IdleHead
    <3> QED BY <3>1, <3>2
  <2> QED BY <2>7, <2>8
<1> QED BY <1>1, <1>2, <1>3, <1>4 DEF CycleStep

\* Delivering preserves the invariant: text is typed only in the phase "type"
\* and Enter pressed only in the phase "enter", each left by the step.
LEMMA DeliveryInv ==
  ASSUME QueueInv, NEW i \in Ids, DeliveryStep(i)
  PROVE  StoreInv' /\ HeadInv'
<1> USE DEF At
<1>0. /\ wire \in [Ids -> [typed : Nat, entered : Nat, at : Nat]]
      /\ proc \in ProcType /\ TypeOK
  BY DEF QueueInv, TypeOK, ProcType
<1>1. /\ UNCHANGED <<mem, disk, used>>
      /\ proc.pc \in {"preflight", "type", "render", "enter", "confirm"} /\ i \in proc.cur
  BY <1>0, DeliveryFrame DEF deliveryRest, storeVars
<1>2. /\ \A j \in proc.cur : j = i
      /\ mem[i].status = "dispatching" /\ disk[i].status = "dispatching"
      /\ i \in used
  BY <1>1 DEF QueueInv, PhaseOfHead, UnusedIsBlank
\* What the step does to the control.
<1>3. \/ /\ proc'.pc \in {"type", "render", "enter", "confirm", "record"}
         /\ proc'.cur = proc.cur
         /\ proc'.pc = "record" => proc'.out # "none"
  <2>1. CASE \E phase \in {"type", "render", "enter", "confirm"} : Advance(i, phase)
    BY <1>0, <2>1 DEF Advance, ProcType
  <2>2. CASE \E outcome \in Outcomes \ {"none"} : Finish(i, outcome)
    BY <1>0, <2>2 DEF Finish, ProcType
  <2> QED BY <1>0, <2>1, <2>2, DeliveryFrame
\* What the step does to the wire, and where it leaves the control.
<1>4. \/ /\ wire' = wire
         /\ proc'.pc = "type" => proc.pc = "preflight"
         /\ proc'.pc \in {"render", "enter"} => proc.pc = "render"
      \/ /\ proc.pc = "type" /\ proc'.pc \in {"render", "enter", "record"}
         /\ \E gen \in Nat : Typed(i, gen)
      \/ /\ proc.pc = "enter" /\ proc'.pc \in {"confirm", "record"}
         /\ \E gen \in Nat : Entered(i, gen)
  <2>0. mem[i].target \in Nat /\ live[mem[i].session].gen \in Nat
    <3>1. mem[i] \in Item
      BY <1>0 DEF TypeOK
    <3> QED BY <1>0, <3>1 DEF TypeOK, Item
  <2>1. \A phase \in Phases : Advance(i, phase) => proc'.pc = phase
    BY <1>0 DEF Advance, ProcType
  <2>2. \A outcome : Finish(i, outcome) => proc'.pc = "record"
    BY <1>0 DEF Finish, ProcType
  <2>3. {"type", "render", "enter", "confirm"} \subseteq Phases
    BY DEF Phases
  <2>4. CASE PreflightPasses(i) \/ \E o \in PreTypingStages : PreflightFails(i, o)
    BY <2>1, <2>2, <2>3, <2>4 DEF PreflightPasses, PreflightFails
  <2>5. CASE TypeMarked(i) \/ TypeCommand(i)
    BY <2>0, <2>1, <2>3, <2>5 DEF TypeMarked, TypeCommand
  <2>6. CASE \E partial \in BOOLEAN : TypeFails(i, partial)
    BY <2>0, <2>2, <2>6 DEF TypeFails
  <2>7. CASE RenderConfirmed(i) \/ RenderUnconfirmed(i)
    BY <2>1, <2>2, <2>3, <2>7 DEF RenderConfirmed, RenderUnconfirmed
  <2>8. CASE \E t \in Turns : EnterMarked(i, t)
    BY <2>0, <2>1, <2>3, <2>8 DEF EnterMarked
  <2>9. CASE EnterCommand(i) \/ EnterFails(i)
    BY <2>0, <2>2, <2>9 DEF EnterCommand, EnterFails
  <2>10. CASE Confirmed(i) \/ Unconfirmed(i) \/ DeliveryThrows(i)
    BY <2>2, <2>10 DEF Confirmed, Unconfirmed, DeliveryThrows
  <2> QED BY <2>4, <2>5, <2>6, <2>7, <2>8, <2>9, <2>10 DEF DeliveryStep
<1>5. CASE wire' = wire /\ (proc'.pc = "type" => proc.pc = "preflight")
                        /\ (proc'.pc \in {"render", "enter"} => proc.pc = "render")
  <2>1. StoreInv'
    BY <1>1, <1>5 DEF QueueInv, StoreInv, AtMostOnce, TypedIsClaimed, UnusedIsBlank
  <2>2. HeadInv'
    BY <1>1, <1>2, <1>3, <1>5 DEF QueueInv, HeadInv, PhaseOfHead, OutcomeIsKnown
  <2> QED BY <2>1, <2>2
<1>6. ASSUME NEW gen \in Nat, proc.pc = "type", proc'.pc \in {"render", "enter", "record"},
             Typed(i, gen)
      PROVE  StoreInv' /\ HeadInv'
  <2>1. wire[i].typed = 0 /\ wire[i].entered = 0
    BY <1>1, <1>6 DEF QueueInv, PhaseOfHead
  <2>2. /\ wire'[i].typed = 1 /\ wire'[i].entered = 0
        /\ \A j \in Ids : j # i => wire'[j] = wire[j]
    BY <1>0, <1>6, <2>1 DEF Typed
  <2>3. StoreInv'
    BY <1>1, <1>2, <2>2 DEF QueueInv, StoreInv, AtMostOnce, TypedIsClaimed, UnusedIsBlank
  <2>4. HeadInv'
    BY <1>1, <1>2, <1>3, <1>6, <2>2 DEF HeadInv, PhaseOfHead, OutcomeIsKnown
  <2> QED BY <2>3, <2>4
<1>7. ASSUME NEW gen \in Nat, proc.pc = "enter", proc'.pc \in {"confirm", "record"},
             Entered(i, gen)
      PROVE  StoreInv' /\ HeadInv'
  <2>1. wire[i].entered = 0 /\ wire[i].typed <= 1
    BY <1>1, <1>7 DEF QueueInv, PhaseOfHead, AtMostOnce
  <2>2. /\ wire'[i].entered = 1 /\ wire'[i].typed = wire[i].typed
        /\ \A j \in Ids : j # i => wire'[j] = wire[j]
    BY <1>0, <1>7, <2>1 DEF Entered
  <2>3. StoreInv'
    BY <1>1, <1>2, <2>1, <2>2 DEF QueueInv, StoreInv, AtMostOnce, TypedIsClaimed, UnusedIsBlank
  <2>4. HeadInv'
    BY <1>1, <1>2, <1>3, <1>7, <2>2 DEF HeadInv, PhaseOfHead, OutcomeIsKnown
  <2> QED BY <2>3, <2>4
<1> QED BY <1>4, <1>5, <1>6, <1>7

\* Terminals, manual input, sampling and the end of a cycle touch neither the
\* store nor the wire.
LEMMA QuietInv ==
  ASSUME QueueInv, Terminal \/ TakeSample \/ EndCycle \/ UNCHANGED vars
  PROVE  StoreInv' /\ HeadInv'
<1> USE DEF storeVars, cycleVars, manualVars, paneVars, itemVars
<1>1. UNCHANGED <<mem, disk, used, wire>> /\ (proc' = proc \/ proc' = Idle)
  <2>1. CASE Terminal
    BY <2>1 DEF Terminal, AgentMoves, DayPasses, RefuseAnswer, BusyChange, CodexExits,
                CodexResumed, PaneGone, PaneCreated, PaneChange, Interrupt, ManualBegin,
                ManualEnd
  <2>2. CASE TakeSample
    BY <2>2 DEF TakeSample
  <2>3. CASE EndCycle
    BY <2>3 DEF EndCycle
  <2>4. CASE UNCHANGED vars
    BY <2>4 DEF vars
  <2> QED BY <2>1, <2>2, <2>3, <2>4
<1>2. StoreInv'
  BY <1>1 DEF QueueInv, StoreInv, AtMostOnce, TypedIsClaimed, UnusedIsBlank
<1>3. HeadInv'
  BY <1>1, IdleHead
<1> QED BY <1>2, <1>3

\* A restart takes the file's items, none of which it puts back to waiting.
LEMMA RestartInv ==
  ASSUME QueueInv, Restart
  PROVE  StoreInv' /\ HeadInv'
<1>1. /\ \A i \in Ids : mem'[i] = Reconciled(disk[i]) /\ disk'[i] = Reconciled(disk[i])
      /\ UNCHANGED <<used, wire>> /\ proc' = Idle
  BY DEF Restart, itemVars
<1>2. \A i \in Ids :
        /\ Reconciled(disk[i]).status = "queued" => disk[i].status = "queued"
        /\ disk[i].status = "absent" => Reconciled(disk[i]).status = "absent"
  BY ReconciledType DEF QueueInv, TypeOK
<1>3. AtMostOnce'
  BY <1>1 DEF QueueInv, AtMostOnce
<1>4. TypedIsClaimed'
  BY <1>1, <1>2 DEF QueueInv, TypedIsClaimed
<1>5. UnusedIsBlank'
  BY <1>1, <1>2 DEF QueueInv, UnusedIsBlank
<1>6. HeadInv'
  BY <1>1, IdleHead
<1> QED BY <1>3, <1>4, <1>5, <1>6 DEF StoreInv

---------------------------------------------------------------------------
(* The invariant.                                                          *)

\* It holds at the start.
LEMMA InvInit == Init => QueueInv
<1> SUFFICES ASSUME Init PROVE QueueInv
  OBVIOUS
<1>1. TypeOK
  BY InitType
<1>2. Blank.status = "absent"
  <2>1. NewItem(CHOOSE s \in Sessions : TRUE, 0, 0, "prompt") \in Item
    BY SessionsAssumption, NewItemType DEF AllKinds
  <2> QED BY <2>1, GoneType DEF Blank
<1>3. AtMostOnce /\ TypedIsClaimed /\ UnusedIsBlank
  BY <1>2 DEF Init, AtMostOnce, TypedIsClaimed, UnusedIsBlank
<1>4. PhaseOfHead /\ OutcomeIsKnown
  BY DEF Init, Idle, PhaseOfHead, OutcomeIsKnown
<1> QED BY <1>1, <1>3, <1>4 DEF QueueInv

\* Every step preserves it.
LEMMA InvStep == QueueInv /\ [Next]_vars => QueueInv'
<1> SUFFICES ASSUME QueueInv, [Next]_vars PROVE QueueInv'
  OBVIOUS
<1>1. TypeOK'
  BY TypeStep DEF QueueInv
<1>2. StoreInv' /\ HeadInv'
  <2>1. CASE \E f \in Faults : CreateRequest(f) \/ ClearHistory(f)
    <3>1. StoreInv'
      BY <2>1, CreateRequestInv, ClearHistoryInv
    <3>2. proc.pc = "idle" /\ proc' = proc
      <4>1. ASSUME NEW ss, NEW id, NEW target, NEW rank, NEW kind, NEW f,
                   Create(ss, id, target, rank, kind, f)
            PROVE  proc.pc = "idle" /\ proc' = proc
        BY <4>1 DEF Create
      <4>2. CASE \E f \in Faults : CreateRequest(f)
        BY <4>1, <4>2 DEF CreateRequest, CreateItem, CreateBatch
      <4>3. CASE \E f \in Faults : ClearHistory(f)
        BY <4>3 DEF ClearHistory, Request
      <4> QED BY <2>1, <4>2, <4>3
    <3> QED BY <3>1, <3>2, IdleHead
  <2>2. ASSUME NEW i \in Ids, NEW f \in Faults, OperatorRequest(i, f)
        PROVE  StoreInv' /\ HeadInv'
    <3>1. StoreInv'
      BY <2>2, OperatorRequestInv
    <3>2. proc.pc = "idle" /\ proc' = proc
      <4>1. CASE WaitForManualSubmit(i, f) \/ \E j \in Ids : RequeueAfterReplacement(i, j, f)
        BY <4>1 DEF WaitForManualSubmit, RequeueAfterReplacement
      <4>2. ASSUME NEW next, NEW cleared, Request(next, cleared, f)
            PROVE  proc.pc = "idle" /\ proc' = proc
        BY <4>2 DEF Request
      <4>3. ASSUME NEW it, NEW trim, Replace(i, it, trim, f)
            PROVE  \E next : Request(next, {i}, f)
        BY <4>3 DEF Replace
      <4>4. CASE Cancel(i, f) \/ DismissLiteralReview(i, f) \/ Retarget(i, f)
        BY <4>2, <4>3, <4>4 DEF Cancel, DismissLiteralReview, Retarget
      <4>5. CASE ReleaseAfterReview(i, f) \/ ContinueMonitoring(i, f) \/ LinkAnswer(i, f)
        BY <4>2, <4>3, <4>5 DEF ReleaseAfterReview, ContinueMonitoring, LinkAnswer
      <4> QED BY <2>2, <4>1, <4>4, <4>5 DEF OperatorRequest
    <3> QED BY <3>1, <3>2, IdleHead
  <2>3. CASE Terminal \/ TakeSample \/ EndCycle \/ UNCHANGED vars
    BY <2>3, QuietInv
  <2>4. CASE \E elapsed \in BOOLEAN, f \in Faults : BeginCycle(elapsed, f)
    BY <2>4, BeginCycleInv
  <2>5. CASE \E i \in Ids : CycleStep(i) \/ DeliveryStep(i)
    BY <2>5, CycleStepInv, DeliveryInv
  <2>6. CASE Restart
    BY <2>6, RestartInv
  <2> QED BY <2>1, <2>2, <2>3, <2>4, <2>5, <2>6 DEF Next
<1> QED BY <1>1, <1>2 DEF QueueInv, StoreInv, HeadInv

\* The queue always satisfies the invariant.
THEOREM QueueInvariant == Spec => []QueueInv
BY InvInit, InvStep, PTL DEF Spec

\* Every variable keeps its type in every behaviour of the queue.
THEOREM TypeCorrect == Spec => []TypeOK
<1>1. QueueInv => TypeOK
  BY DEF QueueInv
<1> QED BY <1>1, QueueInvariant, PTL

\* deliverTextToAgent types an item's text and presses Enter for it at most
\* once, whatever is retried, fails or crashes.
THEOREM AtMostOnceHolds == Spec => []AtMostOnce
<1>1. QueueInv => AtMostOnce
  BY DEF QueueInv
<1> QED BY <1>1, QueueInvariant, PTL

\* processPromptQueue saves the claim before it types: an item with text in a
\* terminal is waiting neither in memory nor in the file.
THEOREM ClaimIsDurableHolds == Spec => []ClaimIsDurable
<1>1. QueueInv => ClaimIsDurable
  BY DEF QueueInv, TypedIsClaimed, ClaimIsDurable
<1> QED BY <1>1, QueueInvariant, PTL

=============================================================================
