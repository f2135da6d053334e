--------------------------- MODULE TicketSources ---------------------------
(***************************************************************************)
(* Where the tickets of the prompt queue come from: ideas that an operator *)
(* approves or has refined, proposals that agents make in their final      *)
(* answers, and recurring schedules.  Ideas, schedules and tickets are one *)
(* store, written whole, and a write is refused when they do not fit       *)
(* together.  Operations take turns on one promise chain, so that each is  *)
(* one step here, but for the cycle, which writes several times, and for   *)
(* what a request prepares before its turn.                                *)
(*                                                                         *)
(* What a ticket goes through in its terminal is kept to what ideas and    *)
(* schedules notice; PromptQueue has the rest.                             *)
(***************************************************************************)
EXTENDS Naturals, FiniteSets, SequencesExt

CONSTANTS
  Sessions,      \* agents, each with the project it works on
  Titles,        \* titles of ideas
  Schedules,     \* ids of schedules
  ItemLimit,     \* MAX_PROMPT_QUEUE_ITEMS
  IdeaLimit,     \* MAX_IDEA_QUEUE_ITEMS
  HistoryLimit,  \* PROMPT_QUEUE_HISTORY_LIMIT and IDEA_QUEUE_HISTORY_LIMIT
  Captures,      \* how a completion may be captured: with its footer, "bare", or "returned"
  Minute,        \* ticks in a minute
  SlowRequests,  \* whether a request may still wait for its turn when the minute ends
  MaxItems, MaxIdeas, MaxNow, MaxRestarts \* bounds: tickets and ideas ever made, ticks, restarts

NoOne == "nobody"
NoTitle == "untitled"
NoSchedule == "unscheduled"

VARIABLES
  items, ideas, schedules, \* the store: functions from the ids in use
  made,       \* how many tickets and ideas were ever made
  now,        \* the time
  phase,      \* where the cycle is, and the ticket it types
  seen,       \* the revision and the text of each idea that the operator's page shows
  up,         \* the server runs
  refused,    \* the last write was refused
  restarts

store == <<items, ideas, schedules>>
vars == <<items, ideas, schedules, made, now, phase, seen, up, refused, restarts>>

Resting == [at |-> "rest", item |-> 0]

\* nextPromptCronAt for `* * * * *`: the first minute that begins later.
NextRun(t) == Minute * (t \div Minute) + Minute

---------------------------------------------------------------------------
(* The store.                                                              *)

Open(i)  == i.at \in {"queued", "dispatching", "waiting", "unsent", "review", "boundary", "replaced"}
Final(i) == ~Open(i)
Answered(i) == i.at \in {"captured", "bare", "returned"}

\* validatePromptQueueStore, as far as ideas and schedules are concerned.
IdeaFits(I, x, d) ==
  /\ (d.status = "refining") = (d.refinement \in DOMAIN I /\ Open(I[d.refinement]))
  /\ d.status = "approved" => d.approved # 0
  /\ d.status # "approved" => d.approved = 0
  /\ d.source \in DOMAIN I => Answered(I[d.source]) /\ I[d.source].purpose # "refinement"
TicketFits(D, n, i) ==
  Open(i) /\ i.idea # 0 =>
    /\ i.idea \in DOMAIN D
    /\ IF i.purpose = "refinement" THEN D[i.idea].status = "refining" /\ D[i.idea].refinement = n
       ELSE D[i.idea].status = "approved" /\ D[i.idea].approved = n
ScheduleFits(s) == s.last # 0 => s.last >= s.created /\ s.next > s.last
Fits(I, D, S) ==
  /\ Cardinality(DOMAIN I) <= ItemLimit /\ Cardinality(DOMAIN D) <= IdeaLimit
  /\ \A x \in DOMAIN D : IdeaFits(I, x, D[x])
  /\ \A n \in DOMAIN I : TicketFits(D, n, I[n])
  /\ \A k \in DOMAIN S : ScheduleFits(S[k])

\* persistPromptQueue: all of it is written, or nothing is.
Persist(I, D, S) ==
  /\ refused' = ~Fits(I, D, S)
  /\ IF Fits(I, D, S) THEN items' = I /\ ideas' = D /\ schedules' = S ELSE UNCHANGED store

\* The newest of what is over is kept; which that is depends on times that are not kept here.
Kept(done) == kSubset(Min({Cardinality(done), HistoryLimit}), done)
TrimmedItems(I) ==
  LET final == {n \in DOMAIN I : Final(I[n])}
  IN  {Restrict(I, (DOMAIN I \ final) \cup keep) : keep \in Kept(final)}

Decided(I, D) ==
  {x \in DOMAIN D : D[x].status \in {"approved", "rejected"} /\ ~\E n \in DOMAIN I : I[n].idea = x /\ Open(I[n])}
TrimmedIdeas(I, D) ==
  {Restrict(D, (DOMAIN D \ Decided(I, D)) \cup keep) : keep \in Kept(Decided(I, D))}

Idea(title, source, session) ==
  [status |-> "proposed", title |-> title, text |-> 0, refinement |-> 0, approved |-> 0,
   source |-> source, work |-> session, rev |-> 1]
Ticket(session, idea, purpose, text) ==
  [at |-> "queued", session |-> session, idea |-> idea, purpose |-> purpose, text |-> text,
   schedule |-> NoSchedule, title |-> NoTitle]
Revised(d) == [d EXCEPT !.rev = @ + 1]

Add(f, n, x) == [m \in DOMAIN f \cup {n} |-> IF m = n THEN x ELSE f[m]]

---------------------------------------------------------------------------
(* Requests about ideas.                                                   *)

Turn == up /\ phase = Resting
Requested == Turn /\ UNCHANGED <<now, phase, seen, up, restarts>>

CreateIdea(title) ==
  /\ Requested /\ made.ideas < MaxIdeas
  /\ \E D \in TrimmedIdeas(items, ideas) :
       /\ Cardinality(DOMAIN D) < IdeaLimit
       /\ Persist(items, Add(D, made.ideas + 1, Idea(title, 0, NoOne)), schedules)
  /\ made' = [made EXCEPT !.ideas = @ + 1]

\* Mistake: the decision is taken on whatever the idea has become.
AnyRevision(x) == x \in DOMAIN ideas /\ seen[x].rev # 0

AsSeen(x) == x \in DOMAIN ideas /\ seen[x].rev = ideas[x].rev

\* The session an agent's idea is about is the only one it may be sent to.
SentTo(x, s) == AsSeen(x) /\ ideas[x].status = "proposed" /\ ideas[x].work \in {NoOne, s}

\* Approving and refining make a ticket and settle the idea in one write.
Queue(x, s, purpose, settled) ==
  /\ Requested /\ SentTo(x, s) /\ made.items < MaxItems
  /\ \E I \in TrimmedItems(items) :
       /\ Cardinality(DOMAIN I) < ItemLimit
       /\ LET n == made.items + 1
              J == Add(I, n, Ticket(s, x, purpose, ideas[x].text))
              D == [ideas EXCEPT ![x] = Revised(settled)]
          IN  IF purpose = "approved" THEN \E E \in TrimmedIdeas(J, D) : Persist(J, E, schedules)
              ELSE Persist(J, D, schedules)
  /\ made' = [made EXCEPT !.items = @ + 1]

Approve(x, s) ==
  Queue(x, s, "approved", [ideas[x] EXCEPT !.status = "approved", !.approved = made.items + 1])
Refine(x, s) ==
  Queue(x, s, "refinement", [ideas[x] EXCEPT !.status = "refining", !.refinement = made.items + 1])

Reject(x) ==
  /\ Requested /\ AsSeen(x) /\ ideas[x].status = "proposed"
  /\ LET D == [ideas EXCEPT ![x] = Revised([@ EXCEPT !.status = "rejected"])]
     IN  \E E \in TrimmedIdeas(items, D) : Persist(items, E, schedules)
  /\ UNCHANGED made

LookAt(x) ==
  /\ x \in DOMAIN ideas /\ ideas[x].status = "proposed" /\ up
  /\ seen' = [seen EXCEPT ![x] = [rev |-> ideas[x].rev, text |-> ideas[x].text]]
  /\ UNCHANGED <<store, made, now, phase, up, refused, restarts>>

---------------------------------------------------------------------------
(* Requests about tickets, as far as ideas notice them.                    *)

\* Mistake: an idea whose refinement ended without a result is forgotten.
LeftRefining(D, n, i) == D

\* returnLinkedIdeaRefinementToReview
ReturnedToReview(D, n, i) ==
  IF i.purpose = "refinement" /\ i.idea \in DOMAIN D
       /\ D[i.idea].refinement = n /\ D[i.idea].status = "refining"
  THEN [D EXCEPT ![i.idea] = Revised([@ EXCEPT !.status = "proposed"])] ELSE D

Ends(n, at) ==
  /\ LET I == [items EXCEPT ![n].at = at]
     IN  \E J \in TrimmedItems(I) : Persist(J, ReturnedToReview(ideas, n, items[n]), schedules)
  /\ UNCHANGED made

Cancel(n)  == Requested /\ n \in DOMAIN items /\ items[n].at = "queued" /\ Ends(n, "canceled")
Dismiss(n) == Requested /\ n \in DOMAIN items /\ items[n].at = "unsent" /\ Ends(n, "dismissed")
Release(n) == Requested /\ n \in DOMAIN items /\ items[n].at \in {"review", "boundary"} /\ Ends(n, "released")

\* transferLinkedIdeaPromptToReplacement: one new ticket takes over the link.
Transferred(D, n, i, m) ==
  IF i.idea = 0 THEN D
  ELSE [D EXCEPT ![i.idea] =
          IF i.purpose = "refinement" THEN Revised([@ EXCEPT !.refinement = m])
          ELSE Revised([@ EXCEPT !.approved = m])]
Requeue(n) ==
  /\ Requested /\ n \in DOMAIN items /\ items[n].at = "replaced"
  /\ made.items < MaxItems /\ Cardinality(DOMAIN items) < ItemLimit
  /\ LET m == made.items + 1
         old == items[n]
         I == Add([items EXCEPT ![n].at = "released"], m, Ticket(old.session, old.idea, old.purpose, old.text))
     IN  \E J \in TrimmedItems(I) : Persist(J, Transferred(ideas, n, old, m), schedules)
  /\ made' = [made EXCEPT !.items = @ + 1]

\* What is proposed again while it is active is left out, and so is what finds no room.
Proposed(I, D, title, source, session) ==
  {IF title = NoTitle \/ made.ideas = MaxIdeas \/ Cardinality(DOMAIN E) >= IdeaLimit
        \/ \E x \in DOMAIN E : E[x].title = title
   THEN E ELSE Add(E, made.ideas + 1, Idea(title, source, session)) : E \in TrimmedIdeas(I, D)}
Counted(D) == made' = [made EXCEPT !.ideas = IF @ + 1 \in DOMAIN D THEN @ + 1 ELSE @]

\* The operator sent a dismissed ticket by hand and imports the ideas on the screen.
ImportIdeas(n, title) ==
  /\ Requested /\ n \in DOMAIN items /\ items[n].at = "dismissed" /\ items[n].purpose # "refinement"
  /\ \E D \in Proposed(items, ideas, title, 0, NoOne) :
       Persist([items EXCEPT ![n].at = "canceled"], D, schedules) /\ Counted(D)

---------------------------------------------------------------------------
(* Schedules.                                                              *)

\* A request works out the first run when it is asked, and then looks at the panes and
\* waits for its turn.
CreateSchedule(k, s) ==
  /\ Requested /\ k \notin DOMAIN schedules
  /\ \E asked \in 1 .. now :
       /\ SlowRequests \/ NextRun(asked) > now
       /\ Persist(items, ideas, Add(schedules, k,
            [enabled |-> TRUE, session |-> s, next |-> NextRun(asked), last |-> 0, created |-> now]))
  /\ UNCHANGED made

PauseSchedule(k) ==
  /\ Requested /\ k \in DOMAIN schedules
  /\ Persist(items, ideas, [schedules EXCEPT ![k].enabled = FALSE]) /\ UNCHANGED made

\* Resuming starts from now, and so does a schedule that is moved to a replacement.
ResumeSchedule(k) ==
  /\ Requested /\ k \in DOMAIN schedules
  /\ Persist(items, ideas, [schedules EXCEPT ![k] = [@ EXCEPT !.enabled = TRUE, !.next = NextRun(now)]])
  /\ UNCHANGED made
RetargetSchedule(k) ==
  /\ Requested /\ k \in DOMAIN schedules
  /\ Persist(items, ideas,
       [schedules EXCEPT ![k].next = IF schedules[k].enabled THEN NextRun(now) ELSE @])
  /\ UNCHANGED made

DeleteSchedule(k) ==
  /\ Requested /\ k \in DOMAIN schedules
  /\ Persist(items, ideas, Restrict(schedules, DOMAIN schedules \ {k})) /\ UNCHANGED made

\* Mistake: only what still waits to be sent counts as open work of the schedule.
QueuedOccurrence(I, k) == \E n \in DOMAIN I : I[n].schedule = k /\ I[n].at = "queued"

AlreadyOpen(I, k) == \E n \in DOMAIN I : I[n].schedule = k /\ Open(I[n])
Occurrence(k) == [Ticket(schedules[k].session, 0, "none", 0) EXCEPT !.schedule = k]

QueueNow(k) ==
  /\ Requested /\ k \in DOMAIN schedules /\ ~AlreadyOpen(items, k) /\ made.items < MaxItems
  /\ \E I \in TrimmedItems(items) :
       /\ Cardinality(DOMAIN I) < ItemLimit
       /\ Persist(Add(I, made.items + 1, Occurrence(k)), ideas, schedules)
  /\ made' = [made EXCEPT !.items = @ + 1]

---------------------------------------------------------------------------
(* The cycle: due schedules, completions, misrouted tickets, and the next  *)
(* dispatch, each with a write of its own.                                 *)

Goto(at) == phase' = [phase EXCEPT !.at = at]
Rest == phase' = Resting
NothingWritten == UNCHANGED <<store, made, refused>>

\* A refused write rejects the cycle.
WrittenThenGoto(at) == phase' = IF refused' THEN Resting ELSE [phase EXCEPT !.at = at]
InCycle == up /\ UNCHANGED <<now, seen, up, restarts>>

Due(k) == schedules[k].enabled /\ schedules[k].next <= now

\* The run after a due one is the next from now: what was missed is not made up for.
Advanced(k) == [schedules[k] EXCEPT !.last = schedules[k].next, !.next = NextRun(now)]

\* Of the due schedules, those whose pane is there, that have no open ticket and that
\* find room each get a ticket.
EnqueueDue ==
  /\ InCycle /\ phase = Resting
  /\ LET due == {k \in DOMAIN schedules : Due(k)}
         S == [k \in DOMAIN schedules |-> IF k \in due THEN Advanced(k) ELSE schedules[k]]
     IN  IF due = {} THEN Goto("captures") /\ NothingWritten
         ELSE /\ \E I \in TrimmedItems(items), Q \in SUBSET due :
                   LET first == made.items + 1
                       last == made.items + Cardinality(Q)
                       queued == SetToSeq(Q)
                   IN  /\ last <= MaxItems /\ Cardinality(DOMAIN I) + Cardinality(Q) <= ItemLimit
                       /\ \A k \in Q : ~AlreadyOpen(I, k)
                       /\ Persist([n \in DOMAIN I \cup first .. last |->
                                     IF n < first THEN I[n] ELSE Occurrence(queued[n - made.items])],
                                  ideas, S)
                       /\ made' = [made EXCEPT !.items = last]
              /\ WrittenThenGoto("captures")

\* reconcileIdeaQueueFromCompletion
Reconciled(I, D, n) ==
  LET i == I[n]
  IN  IF i.purpose = "refinement"
      THEN IF i.idea \in DOMAIN D /\ D[i.idea].refinement = n /\ D[i.idea].status = "refining"
           THEN {[D EXCEPT ![i.idea] = Revised([@ EXCEPT !.status = "proposed", !.text = n])]}
           ELSE {D}
      ELSE Proposed(I, D, i.title, n, i.session)

\* A ticket whose agent finished is captured, with what it proposes, or left to a review.
CaptureCompletion(n) ==
  /\ items[n].at \in {"waiting", "boundary"}
  /\ \/ \E at \in Captures, title \in Titles \cup {NoTitle} :
          /\ items[n].purpose = "refinement" => title = NoTitle
          /\ LET I == [items EXCEPT ![n] = [@ EXCEPT !.at = at, !.title = title]]
             IN  \E D \in Reconciled(I, ideas, n) : Persist(I, D, schedules) /\ Counted(D)
     \/ /\ items[n].at = "waiting" /\ UNCHANGED made
        /\ \E at \in {"review", "boundary", "replaced"} :
             Persist([items EXCEPT ![n].at = at], ideas, schedules)

CaptureCompletions ==
  /\ InCycle /\ phase.at = "captures"
  /\ \/ (\E n \in DOMAIN items : CaptureCompletion(n)) /\ WrittenThenGoto("misrouted")
     \/ NothingWritten /\ Goto("misrouted")

\* A queued ticket for an agent's idea that was sent to another project, by an older version.
Misrouted(n) ==
  /\ items[n].at = "queued" /\ items[n].idea \in DOMAIN ideas
  /\ ideas[items[n].idea].work \notin {NoOne, items[n].session}
Wrong == {n \in DOMAIN items : Misrouted(n)}
RejectMisrouted ==
  /\ InCycle /\ phase.at = "misrouted" /\ Wrong # {} /\ UNCHANGED made
  /\ LET I == [n \in DOMAIN items |-> IF n \in Wrong THEN [items[n] EXCEPT !.at = "canceled"] ELSE items[n]]
         D == [x \in DOMAIN ideas |->
                 IF \E n \in Wrong : items[n].idea = x
                 THEN Revised([ideas[x] EXCEPT !.status = "proposed", !.approved = 0]) ELSE ideas[x]]
     IN  \E J \in TrimmedItems(I) : Persist(J, D, schedules)
  /\ WrittenThenGoto("misrouted")

Heads == {n \in DOMAIN items : Open(items[n]) /\
            ~\E m \in DOMAIN items : m < n /\ Open(items[m]) /\ items[m].session = items[n].session}
Claim ==
  /\ InCycle /\ phase.at = "misrouted" /\ Wrong = {} /\ UNCHANGED made
  /\ \/ \E n \in Heads :
          /\ items[n].at = "queued"
          /\ Persist([items EXCEPT ![n].at = "dispatching"], ideas, schedules)
          /\ phase' = IF refused' THEN Resting ELSE [at |-> "typing", item |-> n]
     \/ Rest /\ UNCHANGED <<store, refused>>
Typed ==
  /\ InCycle /\ phase.at = "typing" /\ Rest /\ UNCHANGED made
  /\ \E at \in {"waiting", "unsent", "review"} :
       Persist([items EXCEPT ![phase.item].at = at], ideas, schedules)

---------------------------------------------------------------------------
(* The clock, and restarts.                                                *)

Tick ==
  /\ now < MaxNow /\ now' = now + 1
  /\ UNCHANGED <<store, made, phase, seen, up, refused, restarts>>

\* reconcilePromptQueueOnStartup: a dispatch that was cut off goes to a review, and so does
\* a capture without the footer that proves the answer final.
Reopened(i) == CASE i.at = "dispatching" -> [i EXCEPT !.at = "review"]
                 [] i.at = "bare" -> [i EXCEPT !.at = "boundary"]
                 [] OTHER -> i

\* Then reconcileCompletedIdeaProposalsOnStartup: the first proposal that is not there yet
\* is taken up.  When either write is refused the server does not start.
Restart ==
  /\ up /\ restarts < MaxRestarts /\ restarts' = restarts + 1
  /\ phase' = Resting
  /\ LET I == [n \in DOMAIN items |-> Reopened(items[n])]
         answered == {n \in DOMAIN I : Answered(I[n])}
         results == UNION {Reconciled(I, ideas, n) : n \in answered}
     IN  /\ \E D \in IF results = {} THEN {ideas} ELSE results : Persist(I, D, schedules) /\ Counted(D)
  /\ up' = ~refused'
  /\ UNCHANGED <<now, seen>>

\* The store is new, or an older version sent an agent's idea to the wrong project.
Init ==
  /\ \/ items = <<>> /\ ideas = <<>> /\ made = [items |-> 0, ideas |-> 0]
     \/ \E s, w \in Sessions, t \in Titles :
          /\ s # w /\ items = <<Ticket(s, 1, "approved", 0)>>
          /\ ideas = <<[Idea(t, MaxItems + 1, w) EXCEPT !.status = "approved", !.approved = 1]>>
          /\ made = [items |-> 1, ideas |-> 1]
  /\ schedules = <<>> /\ now = 1
  /\ phase = Resting
  /\ seen = [x \in 1 .. MaxIdeas |-> [rev |-> 0, text |-> 0]]
  /\ up = TRUE /\ refused = FALSE /\ restarts = 0

Request ==
  \/ \E t \in Titles : CreateIdea(t) \/ \E n \in 1 .. MaxItems : ImportIdeas(n, t)
  \/ \E x \in 1 .. MaxIdeas : Reject(x) \/ LookAt(x) \/ \E s \in Sessions : Approve(x, s) \/ Refine(x, s)
  \/ \E n \in 1 .. MaxItems : Cancel(n) \/ Dismiss(n) \/ Release(n) \/ Requeue(n)
  \/ \E k \in Schedules :
       PauseSchedule(k) \/ ResumeSchedule(k) \/ RetargetSchedule(k)
       \/ DeleteSchedule(k) \/ QueueNow(k) \/ \E s \in Sessions : CreateSchedule(k, s)
Cycle == EnqueueDue \/ CaptureCompletions \/ RejectMisrouted \/ Claim \/ Typed

Next == Request \/ Cycle \/ Tick \/ Restart
Spec == Init /\ [][Next]_vars

\* The monitor runs the cycle again and again, and time goes on.
FairSpec == Spec /\ WF_vars(Cycle)

---------------------------------------------------------------------------
\* The operations never work out a store that does not fit together: no request,
\* cycle or restart ends in a refused write.
NoWriteIsRefused == ~refused

\* An approved ticket carries the text that its operator decided on, whatever the
\* refinements and reviews of the idea were in the meantime.
ApprovedAsSeen ==
  [][ \A x \in DOMAIN ideas \cap DOMAIN ideas' :
        ideas[x].status = "proposed" /\ ideas'[x].status = "approved"
          => items'[ideas'[x].approved].text = seen[x].text ]_vars

\* A schedule has one open ticket at most, by its clock, by hand, or left by a restart.
OneOccurrence ==
  \A k \in Schedules : Cardinality({n \in DOMAIN items : items[n].schedule = k /\ Open(items[n])}) <= 1

---------------------------------------------------------------------------
(* Statements of the documentation that the code does not always keep.       *)

\* docs/architecture.md: an in-flight prompt becomes a review when the server starts again.
StartsAgain == up

\* docs/features.md: when a schedule is due it creates one ticket, or is coalesced or skipped.
DueIsTakenUp == \A k \in Schedules : (k \in DOMAIN schedules /\ Due(k)) ~> ~(k \in DOMAIN schedules /\ Due(k))
=============================================================================
