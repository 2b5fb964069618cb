----------------------------- MODULE LogTargets -----------------------------
(***************************************************************************)
(* From the period of a query to the logs it downloads: reading two time   *)
(* points (src/include/TimeDetail.hpp) and counting up the months or days  *)
(* between them (src/src/SaivBot.cpp).                                     *)
(*                                                                         *)
(* Time is counted in ticks.  The calendar is any division of time into    *)
(* months and of time into days in which months begin with a day.          *)
(***************************************************************************)
EXTENDS Naturals, Sequences

CONSTANTS
    Ticks,                  \* time: 0..Ticks - 1
    Months, Days,           \* numbers of months and days
    MonthStart, DayStart,   \* their first ticks, and the end of time
    MonthOf, DayOf          \* the month and the day of a tick

\* A division of time into n units: unit u starts at Start[u] and ends where the next one starts.
Division(n, Start, Of) ==
    /\ n \in Nat \ {0}
    /\ Start \in [0..n -> Nat] /\ Start[n] = Ticks
    /\ \A u, v \in 0..n : u < v => Start[u] < Start[v]
    /\ Of \in [0..(Ticks - 1) -> 0..(n - 1)]
    /\ \A t \in 0..(Ticks - 1) : Start[Of[t]] <= t /\ t < Start[Of[t] + 1]

ASSUME CalendarAssumption ==
    /\ Ticks \in Nat
    /\ Division(Months, MonthStart, MonthOf)
    /\ Division(Days, DayStart, DayOf)
    /\ \A m \in 0..(Months - 1) : DayStart[DayOf[MonthStart[m]]] = MonthStart[m]

Times == 0..(Ticks - 1)

-----------------------------------------------------------------------------
(* TimePeriod *)

Periods == {p \in [begin : Times, end : Times] : p.begin <= p.end}
TimePeriod(begin, end) == [begin |-> begin, end |-> end]

\* (The Bug operators of this module are used by no definition: each is a slip in the
\* definition after it.)
BugIsInside(p, t) == t > p.begin /\ t <= p.end
isInside(p, t) == t >= p.begin /\ t < p.end

-----------------------------------------------------------------------------
(* parseTimePointString and parseTimePeriod *)

\* A time point as it is typed: a month, a day of the month, a tick of the day; the last ones may
\* be missing or wrong.  What the first k of them say, and whether there is such a time.
DayOfMonth(s) == DayOf[MonthStart[s[1]]] + s[2] - 1
SaysTime(s, k) ==
    /\ k \in 1..Len(s)
    /\ s[1] \in 0..(Months - 1)
    /\ k > 1 => s[2] > 0 /\ DayOfMonth(s) < Days /\ MonthOf[DayStart[DayOfMonth(s)]] = s[1]
    /\ k > 2 => DayStart[DayOfMonth(s)] + s[3] < DayStart[DayOfMonth(s) + 1]
TimeSaid(s, k) ==
    CASE k = 1 -> MonthStart[s[1]]
      [] k = 2 -> DayStart[DayOfMonth(s)]
      [] k = 3 -> DayStart[DayOfMonth(s)] + s[3]

\* The formats are tried from the longest to the shortest; text left over is not looked at.
Readable(s) == SaysTime(s, 1)
BugParseTimePointString(s) == TimeSaid(s, 1)
parseTimePointString(s) ==
    TimeSaid(s, CHOOSE k \in 1..3 : SaysTime(s, k) /\ \A j \in k + 1..3 : ~SaysTime(s, j))

BugAccepted(begin, end) == Readable(begin) /\ Readable(end)
\* parseTimePeriod gives a period.
Accepted(begin, end) ==
    /\ Readable(begin) /\ Readable(end)
    /\ parseTimePointString(begin) <= parseTimePointString(end)
parseTimePeriod(begin, end) ==
    TimePeriod(parseTimePointString(begin), parseTimePointString(end))

-----------------------------------------------------------------------------
(* periodToYearMonths, periodToDates, and the periods of the logs *)

BugUnits(p, Of) ==
    LET n == Of[p.end] - Of[p.begin]
    IN  [i \in 1..(IF n = 0 THEN 1 ELSE n) |-> Of[p.begin] + i - 1]
\* The loops count from the unit of the begin up to and with the unit of the end.
Units(p, Of) == [i \in 1..(Of[p.end] + 1 - Of[p.begin]) |-> Of[p.begin] + i - 1]

periodToYearMonths(p) == Units(p, MonthOf)
periodToDates(p) == Units(p, DayOf)
createYearMonthPeriod(m) == TimePeriod(MonthStart[m], MonthStart[m + 1])
createYearMonthDayPeriod(d) == TimePeriod(DayStart[d], DayStart[d + 1])

\* The periods of the logs of one channel (all_users), or of one user in it.
LogPeriods(p, all_users) ==
    IF all_users
      THEN [i \in DOMAIN periodToDates(p) |-> createYearMonthDayPeriod(periodToDates(p)[i])]
      ELSE [i \in DOMAIN periodToYearMonths(p) |-> createYearMonthPeriod(periodToYearMonths(p)[i])]

\* Every moment of the period is in one of the logs, and in one only.
CoversOnce(periods, p) ==
    \A t \in Times : isInside(p, t) =>
        \E i \in DOMAIN periods :
            isInside(periods[i], t) /\ \A j \in DOMAIN periods : isInside(periods[j], t) => j = i

=============================================================================
