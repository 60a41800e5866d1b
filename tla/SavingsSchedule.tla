--------------------------- MODULE SavingsSchedule ---------------------------
(***************************************************************************)
(* The patterns that suspend a SavingsPolicy, such as                      *)
(* "Mon-Fri 07:30-17:30 Europe/Stockholm", against a running clock.        *)
(*                                                                         *)
(* checkSchedule makes moments of January 1980 out of the clock, which it  *)
(* reads in UTC, and of the two ends of a pattern on each of its weekdays, *)
(* and compares these.  Times of the day are counted in slots; patterns    *)
(* that cannot be parsed are skipped by the code and left out.             *)
(***************************************************************************)
EXTENDS Integers, FiniteSets

CONSTANTS
    SlotsPerDay,  \* times of the day
    PatternLists, \* lists of patterns, as sets; the zone of a pattern is
                  \* [now, january], its distance from UTC at the two times
    Months        \* lengths of a month and the one before, [this, before]

ASSUME SlotsAssumption == SlotsPerDay \in Nat \ {0}

\* No zone is more than a day from UTC.
ASSUME PatternsAssumption ==
    \A list \in PatternLists : \A p \in list :
        /\ p.from \in 0..6 /\ p.to \in 0..6
        /\ p.start \in 0..(SlotsPerDay - 1) /\ p.end \in 0..(SlotsPerDay - 1)
        /\ p.zone.january \in (-SlotsPerDay)..SlotsPerDay

ASSUME MonthsAssumption ==
    \A m \in Months : m.this \in 28..31 /\ m.before \in 28..31

VARIABLES
    patterns,  \* the patterns of the policy
    month,     \* the month, by its length and that of the one before
    day,       \* the day of the month, in UTC
    weekday,   \* 0 is Monday
    slot       \* the time of the day, in UTC

clock == <<patterns, month, day, weekday, slot>>

MonthBegins ==
    /\ patterns \in PatternLists
    /\ month \in Months
    /\ day = 1
    /\ weekday \in 0..6
    /\ slot = 0

\* The clock of the process goes on, to the end of the month.
Tick ==
    /\ slot' = (slot + 1) % SlotsPerDay
    /\ IF slot' # 0 THEN UNCHANGED <<day, weekday>>
       ELSE day < month.this /\ day' = day + 1 /\ weekday' = (weekday + 1) % 7
    /\ UNCHANGED <<patterns, month>>

ScheduleSpec == MonthBegins /\ [][Tick]_clock

-----------------------------------------------------------------------------
(* The code. *)

\* NewWeekdayRange and its iterator.  OneDayShort: a range that goes past
\* Sunday lacks its last day.
OneDayShort(p) ==
    IF p.to >= p.from THEN p.to - p.from + 1 ELSE 7 - (p.from - p.to)
NumberOfDays(p) ==
    IF p.to >= p.from THEN p.to - p.from + 1 ELSE 8 - (p.from - p.to)
Weekdays(p) == {i % 7 : i \in p.from .. (p.from + NumberOfDays(p) - 1)}

\* NewWeekdayTimeLocal takes the day of this week that is the weekday, and of
\* its date the day of the month.  SameDay: it takes today.
SameDay(wd) == day
DayOfWeekday(wd) ==
    LET d == day + (wd - weekday)
    IN  IF d < 1 THEN d + month.before
        ELSE IF d > month.this THEN d - month.this ELSE d

\* time.Date(1980, 01, day, hour, minute, 0, 0, loc): the moment, in UTC.
Moment(wd, time, offset) == DayOfWeekday(wd) * SlotsPerDay + time - offset

InRange(now, from, to) == from <= now /\ now <= to

MatchesPattern(p) ==
    \E wd \in Weekdays(p) :
        InRange(Moment(weekday, slot, 0),
                Moment(wd, p.start, p.zone.january), Moment(wd, p.end, p.zone.january))

\* checkSchedule without the annotation.
Suspended == \E p \in patterns : MatchesPattern(p)

-----------------------------------------------------------------------------
(* Properties. *)

\* What a pattern says: the local day is one of its weekdays, counted from
\* the first one on, and the local time is between its times.
Local(offset) == slot + offset
DaysLater(offset) == Local(offset) \div SlotsPerDay
LocalWeekday(offset) == (weekday + DaysLater(offset)) % 7
LocalDay(offset) == day + DaysLater(offset)
Says(p, offset) ==
    /\ (LocalWeekday(offset) - p.from) % 7 <= (p.to - p.from) % 7
    /\ InRange(Local(offset) % SlotsPerDay, p.start, p.end)

SameWeek(offset) == weekday + DaysLater(offset) \in 0..6
SameMonth(offset) == LocalDay(offset) \in 1..month.this

\* While it is the same week and the same month in a zone and in UTC, the
\* policy is suspended exactly when a pattern says so, by the zone's time in
\* January 1980: checkSchedule looks at the patterns' days of UTC's week.
FollowsThePatterns ==
    (\A p \in patterns : SameWeek(p.zone.january) /\ SameMonth(p.zone.january)) =>
        (Suspended <=> \E p \in patterns : Says(p, p.zone.january))

\* Where it is not, at the ends of a week and of a month, checkSchedule can
\* miss a pattern but sees none that does not apply.
SuspendedForAReason ==
    Suspended => \E p \in patterns : Says(p, p.zone.january)

\* "a list of day and time entries for when the SavingsPolicy is suspended"
\* (savingspolicy_types.go:41): a policy is suspended whenever the clock on
\* the wall of an entry's zone shows its day and time.
FollowsTheClock == (\E p \in patterns : Says(p, p.zone.now)) => Suspended
=============================================================================
