------------------------------ MODULE MCRequests ------------------------------
(* Small instances of what operators ask for: the rules of the security group *)
(* (AccessRules), ideas and schedules that become tickets (TicketSources,     *)
(* PromptCron), and input for a terminal (PaneInput).  A behaviour belongs to *)
(* one of them, and the others rest at a first state.                         *)
EXTENDS Naturals, FiniteSets, TLC

CONSTANTS
  Sources, Operators, SshPort, DashboardPort, StartRules, Baseline, MaxAccessRequests,
  MaxAccessTrouble,                                                              \* AccessRules
  Sessions, Titles, Schedules, ItemLimit, IdeaLimit, HistoryLimit, Captures, Minute, SlowRequests,
  MaxItems, MaxIdeas, MaxNow, MaxRestarts,                                       \* TicketSources
  Crons, Starts,                                                                 \* PromptCron
  Inputs, Kinds, MaxPane                                                         \* PaneInput

VARIABLES
  which,
  rules, ids, peers, active, file, expired, chain, run, monitor, planned, previews, spent,
  items, ideas, schedules, made, now, phase, seen, up, refused, restarts,
  cron, date, offset, search,
  paneNow, panes, input, tail, behind, reserved, reached

accessVars  == <<rules, ids, peers, active, file, expired, chain, run, monitor, planned, previews, spent>>
ticketsVars == <<items, ideas, schedules, made, now, phase, seen, up, refused, restarts>>
cronVars    == <<cron, date, offset, search>>
panesVars   == <<paneNow, panes, input, tail, behind, reserved, reached>>

---------------------------------------------------------------------------
\* An open rescue beside a source of its own, and a group without a rescue.
Rule(i, p, c, o) == [id |-> i, port |-> p, source |-> c, owner |-> o]
Rescued  == {Rule(1, 22, "0.0.0.0/0", "rescue"), Rule(4, 22, "b", "managed")}
NoRescue == {Rule(4, 22, "b", "managed"), Rule(5, 4173, "a", "static"), Rule(6, 8080, "a", "static")}

FirstRules == {Rescued, NoRescue}

Access == INSTANCE AccessRules WITH
  MaxRequests <- MaxAccessRequests, MaxTrouble <- MaxAccessTrouble

Tickets == INSTANCE TicketSources

Segment(a, b, s) == {[from |-> a, to |-> b, step |-> s]}
Day(y, m, d, w)  == [year |-> y, month |-> m, day |-> d, weekday |-> w]
Daily     == [days |-> Segment(1, 31, 1), months |-> Segment(1, 12, 1), weekdays |-> Segment(0, 7, 1)]
Wednesday == Day(2026, 7, 1, 3)

\* Days and months that are rare or never come, and searches that cross the year 2100.
RareCrons ==
  [days : {Segment(1, 31, 1), Segment(29, 29, 1), Segment(31, 31, 1), Segment(29, 31, 2), Segment(1, 31, 40)},
   months : {Segment(1, 12, 1), Segment(2, 2, 1), Segment(2, 4, 2), Segment(13, 13, 1)},
   weekdays : {Segment(0, 7, 1), Segment(7, 7, 1), Segment(1, 5, 2)}]
RareStarts == {Wednesday, Day(2096, 2, 29, 3), Day(2097, 1, 31, 4), Day(2099, 12, 31, 4)}

Cron == INSTANCE PromptCron

Pane == INSTANCE PaneInput

\* Requests for input are told from no input at all.
ASSUME InputsAreTold == Pane!NoInput \notin Inputs

\* Operators come from addresses of their own, and nobody comes from everywhere.
ASSUME AccessBounds ==
  /\ Operators \subseteq Sources /\ Access!Anyone \notin Sources
  /\ MaxAccessRequests \in Nat /\ MaxAccessTrouble \in Nat

\* The segments of an expression are of numbers, and a search starts on a day of the calendar.
ASSUME CronBounds ==
  /\ \A c \in Crons : \A field \in {c.days, c.months, c.weekdays} :
       field \subseteq [from : Nat, to : Nat, step : Nat]
  /\ \A d \in Starts : Cron!IsDate(d)

\* There is room for a ticket and an idea, minutes pass, and a completion is captured with its
\* footer, without it, or as an answer that was returned.
ASSUME TicketBounds ==
  /\ IsFiniteSet(Schedules) /\ Tickets!NoSchedule \notin Schedules
  /\ Captures \subseteq {"captured", "bare", "returned"}
  /\ Minute \in Nat \ {0} /\ ItemLimit \in Nat \ {0} /\ IdeaLimit \in Nat \ {0}
  /\ MaxItems \in Nat \ {0} /\ MaxIdeas \in Nat \ {0}

---------------------------------------------------------------------------
Rests ==
  /\ which # "access" => rules = NoRescue /\ peers = {}
  /\ which # "tickets" => items = <<>>
  /\ which # "cron" => cron = Daily /\ date = Wednesday /\ offset = 0

Init ==
  /\ which \in {"access", "tickets", "cron", "pane"}
  /\ Access!Init /\ Tickets!Init /\ Cron!Init /\ Pane!Init
  /\ Rests

Next ==
  /\ UNCHANGED which
  /\ IF which = "access"  THEN Access!Next  ELSE UNCHANGED accessVars
  /\ IF which = "tickets" THEN Tickets!Next ELSE UNCHANGED ticketsVars
  /\ IF which = "cron"    THEN Cron!Next    ELSE UNCHANGED cronVars
  /\ IF which = "pane"    THEN Pane!Next    ELSE UNCHANGED panesVars

Spec == Init /\ [][Next]_<<which, accessVars, ticketsVars, cronVars, panesVars>>

Interchangeable == Permutations(Sessions) \cup Permutations(Inputs)

---------------------------------------------------------------------------
(* The properties of the instances.                                        *)

\* AccessRules: a rescue that is said to be closed admits nobody any more.
RescueIsClosed == Access!RescueIsClosed

\* AccessRules: the rescue is closed only over rules that admit those who asked for it.
NobodyIsLockedOut == Access!NobodyIsLockedOut

\* AccessRules: a cleanup removes what its preview showed and nothing else.
RevokesAsShown == Access!RevokesAsShown

\* TicketSources: no operation makes a store that its own write refuses.
NoWriteIsRefused == Tickets!NoWriteIsRefused

\* TicketSources: a schedule has at most one ticket open.
OneOccurrence == Tickets!OneOccurrence

\* TicketSources: an operator approves the idea that the page shows.
ApprovedAsSeen == Tickets!ApprovedAsSeen

\* PromptCron: the search finds a date for every expression that was accepted.
AcceptedIsFound == Cron!AcceptedIsFound

\* PaneInput: inputs do not mix in a terminal, and reach the pane they were for.
InputIsOwn == Pane!InputIsOwn
=============================================================================
