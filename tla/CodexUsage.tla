------------------------------ MODULE CodexUsage ------------------------------
(******************************************************************************)
(* The history of tokens used (codex-telemetry.js and recordCodexUsage-       *)
(* Samples): the token counts that Codex appends to its rollout files are     *)
(* read from where the last reading ended, what a counter grew by is added to *)
(* its session and to the one ticket at work then, and the store is written.  *)
(* The monitor and every snapshot record.                                     *)
(*                                                                            *)
(* Offsets count lines, a count is one number, and a session's days are one.  *)
(******************************************************************************)
EXTENDS Naturals, Sequences, FiniteSets, FiniteSetsExt, SequencesExt, Functions

CONSTANTS
  Sources, Sessions, Tickets, Recorders,
  SentTo,      \* the session each ticket is for
  MaxCursors,  \* MAX_USAGE_CURSORS
  MaxNow,      \* bound: time, which every count and every change of a prompt takes
  MaxTotal,    \* bound: a count
  MaxSamples,  \* bound: panes looked at
  MaxTrouble   \* bound: failed reads and writes, restarts

VARIABLES
  now,
  log,      \* the token counts in each rollout, and whether a line is unfinished
  items,    \* the prompts of the queue: when sent, when ended, if they are
  store,    \* codexUsageHistoryStore
  disk,     \* codex-usage-history.json, if it is there
  job,      \* what each recorder is at
  trouble

vars == <<now, log, items, store, disk, job, trouble>>

---------------------------------------------------------------------------
None == [e \in {} |-> e]

\* createCodexUsageStore.
Created(at) == [since |-> at, complete |-> FALSE, cursors |-> None,
                used |-> [s \in Sessions |-> 0], tickets |-> None]

\* subtractTokenUsage: a counter that went back is a new beginning.
Growth(total, before) == IF total < before THEN 0 ELSE total - before

\* codexTicketUsageWindows: what is not at work any more ended when it was
\* completed or last changed.
Windows == Restrict(items, {t \in Tickets : items[t].sent > 0})

Within(t, windows, e) == e.at >= windows[t].sent /\ (windows[t].ended > 0 => e.at <= windows[t].ended)

\* matchingTicketWindow: the ticket that alone was at work in the session.
Owners(windows, session, e) ==
  LET owners == {t \in DOMAIN windows : SentTo[t] = session /\ Within(t, windows, e)}
  IN IF Cardinality(owners) = 1 THEN owners ELSE {}

\* addUsageEvent, for what was written since the history began.
Counted(S, windows, session, e, growth) ==
  IF e.at < S.since THEN S ELSE
  [S EXCEPT !.used[session] = @ + growth,
            !.tickets = [t \in DOMAIN @ |-> IF t \in Owners(windows, session, e)
                                            THEN @[t] + growth ELSE @[t]]]

\* refreshTicketUsageRows: a row for every ticket, which keeps what it has.
Refreshed(S, windows) ==
  [S EXCEPT !.tickets = [t \in DOMAIN @ \cup DOMAIN windows |-> IF t \in DOMAIN @ THEN @[t] ELSE 0]]

\* Mistake: a batch is replayed wherever it begins.
Anywhere(S, b) == TRUE

\* A source that is known goes on exactly where it ended.
GoesOn(S, b) == b.source \in DOMAIN S.cursors => b.start = S.cursors[b.source].offset

\* replayBatchIntoStore.
Replayed(S, windows, b) ==
  IF ~GoesOn(S, b) THEN S ELSE
  LET before == IF b.source \in DOMAIN S.cursors THEN S.cursors[b.source].total ELSE 0
      seen   == IF b.source \in DOMAIN S.cursors THEN S.cursors[b.source].seen ELSE S.since
      Total(i) == IF i = 0 THEN before ELSE b.events[i].total
      Step(T, i) == Counted(T, windows, b.session, b.events[i], Growth(Total(i), Total(i - 1)))
      cursor == [session |-> b.session, total |-> Total(Len(b.events)), offset |-> b.next,
                 seen |-> IF b.events = <<>> THEN seen ELSE Last(b.events).at]
  IN [FoldLeft(Step, S, [i \in DOMAIN b.events |-> i])
        EXCEPT !.cursors = (b.source :> cursor) @@ @]

\* prunedUsageStore: the cursors seen last.
Pruned(S) ==
  LET Later(f, g) == S.cursors[f].seen > S.cursors[g].seen
      latest == SetToSortSeq(DOMAIN S.cursors, Later)
  IN [S EXCEPT !.cursors = Restrict(@, {latest[i] : i \in DOMAIN latest \cap 1 .. MaxCursors})]

\* reconcileCodexUsageEventBatches.
Continued(S, windows, batches) ==
  LET Step(T, b) == Replayed(T, windows, b)
  IN Pruned(FoldLeft(Step, Refreshed(S, windows), batches))

\* rebuildCodexUsageStoreFromEvents: everything again from the first line.
Rebuilt(S, windows, batches) ==
  [Continued(Created(S.since), windows, batches) EXCEPT !.complete = TRUE]

\* reconcileCodexUsageStore: growth between two looks at the last count.
Sampled(S, samples) ==
  LET Step(T, x) ==
        LET known == x.source \in DOMAIN T.cursors
            before == T.cursors[x.source]
            growth == IF known /\ before.session = x.session THEN Growth(x.total, before.total) ELSE 0
        IN IF known /\ x.at <= before.seen THEN T ELSE
           [T EXCEPT !.cursors = (x.source :> [session |-> x.session, total |-> x.total,
                                               offset |-> 0, seen |-> x.at]) @@ @,
                     !.used[x.session] = @ + growth]
  IN Pruned(FoldLeft(Step, S, samples))

---------------------------------------------------------------------------
Nothing == [at |-> "idle", samples |-> <<>>, windows |-> None, sources |-> <<>>,
            failed |-> FALSE, batches |-> <<>>, next |-> Created(0)]

Init ==
  /\ now = 2
  /\ log = [f \in Sources |-> [counts |-> <<>>, unfinished |-> FALSE]]
  /\ items = [t \in Tickets |-> [sent |-> 0, ended |-> 0]]
  /\ store = Created(1) /\ disk = {}
  /\ job = [r \in Recorders |-> Nothing]
  /\ trouble = 0

Time == now < MaxNow /\ now' = now + 1

\* Codex writes a line, at times in two parts.
BeginsLine(f) ==
  /\ ~log[f].unfinished
  /\ log' = [log EXCEPT ![f].unfinished = TRUE]
  /\ UNCHANGED <<now, items, store, disk, job, trouble>>

EndsLine(f, total) ==
  /\ Time
  /\ log' = [log EXCEPT ![f] = [counts |-> Append(@.counts, [at |-> now, total |-> total]),
                                unfinished |-> FALSE]]
  /\ UNCHANGED <<items, store, disk, job, trouble>>

Sends(t) ==
  /\ items[t].sent = 0
  /\ Time
  /\ items' = [items EXCEPT ![t].sent = now]
  /\ UNCHANGED <<log, store, disk, job, trouble>>

\* It is completed, or left for review and changed once more.
Ends(t) ==
  /\ items[t].sent > 0
  /\ Time
  /\ items' = [items EXCEPT ![t].ended = now]
  /\ UNCHANGED <<log, store, disk, job, trouble>>

---------------------------------------------------------------------------
Goto(r, j)  == job' = [job EXCEPT ![r] = j]
Rest(r)     == Goto(r, Nothing)
Trouble     == trouble < MaxTrouble /\ trouble' = trouble + 1
Recording   == \E r \in Recorders : job[r].at \in {"reading", "writing"}

\* The last count of a rollout that is open in a pane.
Sample(f, session) ==
  LET counts == log[f].counts
      latest == IF counts = <<>> THEN [at |-> 0, total |-> 0] ELSE Last(counts)
  IN [source |-> f, session |-> session, at |-> latest.at, total |-> latest.total]

\* monitorCodexUsage, or a snapshot: two panes may have the same rollout open.
Look(r) ==
  /\ job[r].at = "idle"
  /\ \E n \in 0 .. MaxSamples : \E panes \in [1 .. n -> Sources \X Sessions] :
       Goto(r, [Nothing EXCEPT !.at = "waiting",
                               !.samples = [i \in 1 .. n |-> Sample(panes[i][1], panes[i][2])]])
  /\ UNCHANGED <<now, log, items, store, disk, trouble>>

\* Writes what follows, unless that is what there is.
WriteHistory(r, S) ==
  IF S = store THEN Rest(r) ELSE Goto(r, [Nothing EXCEPT !.at = "writing", !.next = S])

Reads(r, sources) ==
  Goto(r, [job[r] EXCEPT !.at = "reading", !.sources = sources, !.windows = Windows])

Places(samples) == [i \in DOMAIN samples |-> [source |-> samples[i].source, session |-> samples[i].session]]

\* codexUsageReplaySources: the known ones, and those in a pane.
AllPlaces(samples) ==
  LET At(f) == LET in == SelectInSeq(samples, LAMBDA x : x.source = f)
               IN [source |-> f, session |-> IF in = 0 THEN store.cursors[f].session
                                              ELSE samples[in].session]
  IN SetToSeq({At(f) : f \in DOMAIN store.cursors \cup {x.source : x \in ToSet(samples)}})

\* while (codexUsageWritePromise) await codexUsageWritePromise.
OneAtATime == ~Recording

\* recordCodexUsageSamples.  A rollout may not be found any more.
Begin(r) ==
  LET samples == job[r].samples
  IN /\ job[r].at = "waiting" /\ OneAtATime
     /\ \/ store.complete /\ Reads(r, Places(samples))
        \/ ~store.complete /\ Reads(r, AllPlaces(samples))
        \/ /\ ~store.complete
           /\ DOMAIN store.cursors \ {x.source : x \in ToSet(samples)} # {}
           /\ WriteHistory(r, Sampled(store, samples))
     /\ UNCHANGED <<now, log, items, store, disk, trouble>>

\* nextOffset: after the last complete line.
NextOffset(f, start, counts) == start + Len(SubSeq(counts, start + 1, Len(counts)))

\* readCodexUsageEventBatch.
Batch(place) ==
  LET f == place.source
      counts == log[f].counts
      start  == IF store.complete /\ f \in DOMAIN store.cursors THEN store.cursors[f].offset ELSE 0
  IN [source |-> f, session |-> place.session, start |-> start,
      next |-> NextOffset(f, start, counts),
      events |-> SubSeq(counts, start + 1, Len(counts))]

Read(r) ==
  /\ job[r].at = "reading" /\ job[r].sources # <<>>
  /\ Goto(r, [job[r] EXCEPT !.sources = Tail(@),
                            !.batches = Append(@, Batch(Head(job[r].sources)))])
  /\ UNCHANGED <<now, log, items, store, disk, trouble>>

ReadFails(r) ==
  /\ job[r].at = "reading" /\ job[r].sources # <<>>
  /\ Trouble
  /\ Goto(r, [job[r] EXCEPT !.sources = Tail(@), !.failed = TRUE])
  /\ UNCHANGED <<now, log, items, store, disk>>

Replay(r) ==
  LET j == job[r]
  IN /\ j.at = "reading" /\ j.sources = <<>>
     /\ WriteHistory(r, IF store.complete THEN Continued(store, j.windows, j.batches)
                  ELSE IF j.failed THEN Sampled(store, j.samples)
                  ELSE Rebuilt(store, j.windows, j.batches))
     /\ UNCHANGED <<now, log, items, store, disk, trouble>>

Write(r) ==
  /\ job[r].at = "writing"
  /\ disk' = {job[r].next} /\ store' = job[r].next
  /\ Rest(r)
  /\ UNCHANGED <<now, log, items, trouble>>

\* Those that wait get the error too.  The new file may be there all the same.
WriteFails(r) ==
  /\ job[r].at = "writing"
  /\ Trouble
  /\ disk' \in {disk, {job[r].next}}
  /\ job' = [q \in Recorders |-> IF q = r \/ job[q].at = "waiting" THEN Nothing ELSE job[q]]
  /\ UNCHANGED <<now, log, items, store>>

\* ensureCodexUsageHistory.
Restart ==
  /\ Trouble
  /\ store' \in (IF disk = {} THEN {Created(now)} ELSE disk)
  /\ job' = [r \in Recorders |-> Nothing]
  /\ UNCHANGED <<now, log, items, disk>>

---------------------------------------------------------------------------
Next ==
  \/ \E f \in Sources : BeginsLine(f) \/ \E total \in 0 .. MaxTotal : EndsLine(f, total)
  \/ \E t \in Tickets : Sends(t) \/ Ends(t)
  \/ \E r \in Recorders : Look(r) \/ Begin(r) \/ Read(r) \/ ReadFails(r) \/ Replay(r)
                          \/ Write(r) \/ WriteFails(r)
  \/ Restart

Spec == Init /\ [][Next]_vars

---------------------------------------------------------------------------
Total(S) == MapThenSumSet(LAMBDA s : S.used[s], Sessions)

\* What the first n counts of f, as far as they are since then, grew by.
Grown(f, n, since) ==
  LET counts == log[f].counts
      Gain(i) == IF counts[i].at < since THEN 0
                 ELSE Growth(counts[i].total, IF i = 1 THEN 0 ELSE counts[i - 1].total)
  IN MapThenSumSet(Gain, 1 .. IF n < Len(counts) THEN n ELSE Len(counts))

\* The history holds, in memory and on the disk, every token exactly once up to
\* the place in each rollout where the next reading begins, whoever recorded it,
\* whichever reading or write failed and however often PaneFleet was started
\* again; and the tickets together have no more than their sessions
\* (docs/safety-model.md: "resumes incrementally without double-counting").
CountedOnce ==
  \A S \in {store} \cup disk : S.complete =>
    /\ Total(S) = MapThenSumSet(LAMBDA f : Grown(f, S.cursors[f].offset, S.since), DOMAIN S.cursors)
    /\ MapThenSumSet(LAMBDA t : S.tickets[t], DOMAIN S.tickets) <= Total(S)

\* No token is counted twice, also not when more rollouts are in use than the
\* history keeps its places in (the same sentence of docs/safety-model.md).
NoneTwice ==
  Total(store) <= MapThenSumSet(LAMBDA f : Grown(f, Len(log[f].counts), store.since), Sources)

=============================================================================
