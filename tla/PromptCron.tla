---------------------------- MODULE PromptCron ----------------------------
(***************************************************************************)
(* The next run of a recurring schedule: a cron expression is accepted if  *)
(* some date of the calendar can match it, and is then searched for minute *)
(* by minute, up to a limit.  The search goes by days here: which minutes  *)
(* of a day match is the same on every day, and only says whether the day  *)
(* that the search starts in is already over for the expression.           *)
(***************************************************************************)
EXTENDS Naturals, FiniteSets

CONSTANTS
  Crons,   \* expressions: the segments of their day, month and weekday fields
  Starts   \* days to search from: year, month, day and weekday

VARIABLES cron, date, offset, search
vars == <<cron, date, offset, search>>

\* MAX_DAYS_BY_MONTH and MAX_CRON_SEARCH_MINUTES, in days.
MaxDaysByMonth == <<31, 29, 31, 30, 31, 30, 31, 31, 30, 31, 30, 31>>

\* Mistake: every fourth year is a leap year.
FourYears == 4 * 366

SearchDays == 8 * 366

---------------------------------------------------------------------------
(* parseCronField: a segment goes from a value to a value in steps.        *)

SegmentFits(g, lowest, highest) ==
  /\ g.step \in 1 .. highest - lowest + 1
  /\ lowest <= g.from /\ g.to <= highest /\ g.from <= g.to
FieldFits(segments, lowest, highest) ==
  segments # {} /\ \A g \in segments : SegmentFits(g, lowest, highest)

Stepped(g) == {v \in g.from .. g.to : (v - g.from) % g.step = 0}
Values(segments) == UNION {Stepped(g) : g \in segments}

Days(c) == Values(c.days)
Months(c) == Values(c.months)
Weekdays(c) == {v % 7 : v \in Values(c.weekdays)}

EveryDay(c) == Cardinality(Days(c)) = 31
EveryWeekday(c) == Cardinality(Weekdays(c)) = 7

HasPossibleCalendarMatch(c) ==
  \/ EveryDay(c) \/ ~EveryWeekday(c)
  \/ \E m \in Months(c), d \in Days(c) : d <= MaxDaysByMonth[m]

\* parsePromptCron
Accepted(c) ==
  /\ FieldFits(c.days, 1, 31) /\ FieldFits(c.months, 1, 12) /\ FieldFits(c.weekdays, 0, 7)
  /\ HasPossibleCalendarMatch(c)

\* cronMatches: when both are restricted, the day or the weekday is enough.
Matches(c, d) ==
  /\ d.month \in Months(c)
  /\ CASE EveryDay(c) /\ EveryWeekday(c) -> TRUE
       [] EveryDay(c) /\ ~EveryWeekday(c) -> d.weekday \in Weekdays(c)
       [] EveryWeekday(c) /\ ~EveryDay(c) -> d.day \in Days(c)
       [] OTHER -> d.day \in Days(c) \/ d.weekday \in Weekdays(c)

---------------------------------------------------------------------------
(* The calendar.                                                           *)

LeapYear(y) == y % 4 = 0 /\ (y % 100 # 0 \/ y % 400 = 0)
LastOf(d) == IF d.month = 2 /\ ~LeapYear(d.year) THEN 28 ELSE MaxDaysByMonth[d.month]
IsDate(d) ==
  d \in [year : Nat, month : 1 .. 12, day : 1 .. 31, weekday : 0 .. 6] /\ d.day <= LastOf(d)
Tomorrow(d) ==
  LET w == (d.weekday + 1) % 7
  IN  CASE d.day < LastOf(d) -> [d EXCEPT !.day = @ + 1, !.weekday = w]
        [] d.day = LastOf(d) /\ d.month < 12 -> [d EXCEPT !.day = 1, !.month = @ + 1, !.weekday = w]
        [] OTHER -> [year |-> d.year + 1, month |-> 1, day |-> 1, weekday |-> w]

---------------------------------------------------------------------------
(* nextPromptCronAt                                                        *)

Init ==
  /\ cron \in {c \in Crons : Accepted(c)} /\ date \in Starts
  /\ offset \in {0, 1}  \* whether the times of the first day are still to come
  /\ search = "begins"

Begin ==
  /\ search = "begins" /\ search' = "searching"
  /\ date' = IF offset = 1 THEN Tomorrow(date) ELSE date
  /\ UNCHANGED <<cron, offset>>

Ended == offset = SearchDays \/ Matches(cron, date)
Advance ==
  /\ search = "searching" /\ ~Ended
  /\ date' = Tomorrow(date) /\ offset' = offset + 1 /\ UNCHANGED <<cron, search>>
Answer ==
  /\ search = "searching" /\ Ended
  /\ search' = IF offset < SearchDays THEN "found" ELSE "gave up"
  /\ UNCHANGED <<cron, date, offset>>

Next == Begin \/ Advance \/ Answer
Spec == Init /\ [][Next]_vars

\* An expression that is accepted has a next run, from every day on, also where eight
\* years pass without a leap day: creating or advancing its schedule never fails.
AcceptedIsFound == search # "gave up"
=============================================================================
