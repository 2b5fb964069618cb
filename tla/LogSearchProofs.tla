--------------------------- MODULE LogSearchProofs ---------------------------
(***************************************************************************)
(* Proofs about LogTargets and LogSearch, for every calendar, every set of *)
(* commands and everything that was written: the period is the one that    *)
(* the command says, the logs of a query cover it, and the answer is the   *)
(* count, or the lines, that were asked for.                               *)
(*                                                                         *)
(* The answer is right because nothing is lost or taken twice on the way:  *)
(* at any time a line is in as many of the logs so far (Done) as were      *)
(* given or counted of it and are still to be searched (Pending); in the   *)
(* end, those are as many as the lists name it (TargetsAreNamed).          *)
(***************************************************************************)
EXTENDS LogTextProofs

-----------------------------------------------------------------------------
(* Divisions of time *)

\* Later units start later.
LEMMA StartsInOrder ==
    ASSUME NEW n, NEW Start, NEW Of, Division(n, Start, Of),
           NEW u \in 0..n, NEW v \in 0..n, u <= v
    PROVE  Start[u] \in Nat /\ Start[v] \in Nat /\ Start[u] <= Start[v]
<1>1. Start[u] \in Nat /\ Start[v] \in Nat
  BY DEF Division
<1>2. CASE u = v
  BY <1>1, <1>2
<1>3. CASE u < v
  <2>1. Start[u] < Start[v]
    BY <1>3 DEF Division
  <2> QED BY <1>1, <2>1
<1>4. n \in Nat
  BY DEF Division
<1> QED BY <1>1, <1>2, <1>3, <1>4

\* The unit of a moment does not decrease with time.
LEMMA UnitsInOrder ==
    ASSUME NEW n, NEW Start, NEW Of, Division(n, Start, Of),
           NEW s \in Times, NEW t \in Times, s <= t
    PROVE  Of[s] <= Of[t]
<1>1. Of[s] \in 0..(n - 1) /\ Of[t] \in 0..(n - 1) /\ n \in Nat \ {0} /\ Ticks \in Nat
  BY CalendarAssumption DEF Division, Times
<1>2. Start[Of[s]] <= s /\ t < Start[Of[t] + 1]
  BY DEF Division, Times
<1>3. ASSUME Of[t] < Of[s] PROVE FALSE
  <2>1. Of[t] + 1 \in 0..n /\ Of[s] \in 0..n /\ Of[t] + 1 <= Of[s]
    BY <1>1, <1>3
  <2>2. Start[Of[t] + 1] <= Start[Of[s]]
    BY <2>1, StartsInOrder
  <2>3. Start[Of[t] + 1] \in Nat /\ Start[Of[s]] \in Nat /\ s \in Nat /\ t \in Nat
    BY <2>1, <1>1 DEF Division, Times
  <2> QED BY <1>2, <2>2, <2>3
<1> QED BY <1>1, <1>3

\* A moment lies in no unit but its own.
LEMMA UnitIsUnique ==
    ASSUME NEW n, NEW Start, NEW Of, Division(n, Start, Of),
           NEW t \in Times, NEW u \in 0..(n - 1), Start[u] <= t, t < Start[u + 1]
    PROVE  u = Of[t]
<1>1. n \in Nat \ {0} /\ Ticks \in Nat /\ t \in Nat
  BY CalendarAssumption DEF Division, Times
<1>2. PICK v \in 0..(n - 1) : v = Of[t]
  BY <1>1 DEF Division, Times
<1>3. Start[v] <= t /\ t < Start[v + 1]
  BY <1>2 DEF Division, Times
<1>4. u \in 0..n /\ u + 1 \in 0..n /\ v \in 0..n /\ v + 1 \in 0..n
  BY <1>1
<1>5. Start[u] \in Nat /\ Start[u + 1] \in Nat /\ Start[v] \in Nat /\ Start[v + 1] \in Nat
  BY <1>4 DEF Division
<1>6. ASSUME u < v PROVE FALSE
  <2>1. u + 1 <= v
    BY <1>6, <1>1
  <2>2. Start[u + 1] <= Start[v]
    BY <2>1, <1>4, StartsInOrder
  <2> QED BY <2>2, <1>1, <1>3, <1>5
<1>7. ASSUME v < u PROVE FALSE
  <2>1. v + 1 <= u
    BY <1>7, <1>1
  <2>2. Start[v + 1] <= Start[u]
    BY <2>1, <1>4, StartsInOrder
  <2> QED BY <2>2, <1>1, <1>3, <1>5
<1> QED BY <1>2, <1>6, <1>7, <1>1

\* A unit that there is starts inside time, and a moment of it is a moment of time.
LEMMA StartIsTime ==
    ASSUME NEW n, NEW Start, NEW Of, Division(n, Start, Of), NEW u \in 0..(n - 1)
    PROVE  Start[u] \in Times /\ Start[u + 1] \in Nat /\ Start[u + 1] <= Ticks
<1>1. n \in Nat \ {0} /\ Ticks \in Nat
  BY CalendarAssumption DEF Division
<1>2. u \in 0..n /\ u + 1 \in 0..n /\ n \in 0..n /\ u < n /\ (u + 1 < n \/ u + 1 = n)
  BY <1>1
<1>3. Start[u] \in Nat /\ Start[u + 1] \in Nat
  BY <1>2 DEF Division
<1>4. Start[n] = Ticks /\ Start[u] < Start[n]
  BY <1>2 DEF Division
<1>5. Start[u + 1] <= Ticks
  BY <1>2, <1>4, StartsInOrder
<1> QED BY <1>1, <1>3, <1>4, <1>5 DEF Times

\* The units that a loop counts, from that of the begin to that of the end, contain each moment
\* of the period once.
LEMMA UnitsCoverOnce ==
    ASSUME NEW n, NEW Start, NEW Of, Division(n, Start, Of), NEW p \in Periods,
           NEW periods, DOMAIN periods = DOMAIN Units(p, Of),
           \A i \in DOMAIN periods :
               periods[i] = TimePeriod(Start[Units(p, Of)[i]], Start[Units(p, Of)[i] + 1])
    PROVE  CoversOnce(periods, p)
<1>1. n \in Nat \ {0} /\ Ticks \in Nat
  BY CalendarAssumption DEF Division
<1>2. p.begin \in Times /\ p.end \in Times /\ p.begin <= p.end
  BY DEF Periods
<1>3. PICK a \in 0..(n - 1) : a = Of[p.begin]
  BY <1>1, <1>2 DEF Division, Times
<1>4. PICK b \in 0..(n - 1) : b = Of[p.end]
  BY <1>1, <1>2 DEF Division, Times
<1>5. DOMAIN periods = 1..(b + 1 - a) /\ \A i \in 1..(b + 1 - a) : Units(p, Of)[i] = a + i - 1
  BY <1>3, <1>4 DEF Units
<1>6. SUFFICES ASSUME NEW t \in Times, isInside(p, t)
               PROVE  \E i \in DOMAIN periods :
                        isInside(periods[i], t)
                        /\ \A j \in DOMAIN periods : isInside(periods[j], t) => j = i
  BY DEF CoversOnce
<1>7. t >= p.begin /\ t < p.end /\ t \in Nat /\ p.begin \in Nat /\ p.end \in Nat
  BY <1>1, <1>2, <1>6 DEF isInside, Times
<1>8. PICK u \in 0..(n - 1) : u = Of[t]
  BY <1>1, <1>6 DEF Division, Times
<1>9. a <= u /\ u <= b
  <2>1. p.begin <= t /\ t <= p.end
    BY <1>7
  <2> QED BY <2>1, <1>2, <1>3, <1>4, <1>6, <1>8, UnitsInOrder
<1>10. Start[u] <= t /\ t < Start[u + 1]
  BY <1>6, <1>8 DEF Division, Times
<1> DEFINE i == u + 1 - a
<1>11. i \in DOMAIN periods /\ Units(p, Of)[i] = u
  BY <1>5, <1>9, <1>1
<1>12. isInside(periods[i], t)
  BY <1>10, <1>11, <1>7, StartIsTime DEF isInside, TimePeriod, Times
<1>13. ASSUME NEW j \in DOMAIN periods, isInside(periods[j], t) PROVE j = i
  <2>1. a + j - 1 \in 0..(n - 1) /\ Units(p, Of)[j] = a + j - 1 /\ j \in Nat
    BY <1>13, <1>5, <1>1
  <2>2. Start[a + j - 1] <= t /\ t < Start[(a + j - 1) + 1]
    <3>1. periods[j] = TimePeriod(Start[a + j - 1], Start[(a + j - 1) + 1])
      BY <2>1, <1>13
    <3>2. Start[a + j - 1] \in Nat
      BY <2>1, <1>1, StartIsTime DEF Times
    <3> QED BY <3>1, <3>2, <1>7, <1>13 DEF isInside, TimePeriod
  <2>3. a + j - 1 = u
    BY <2>1, <2>2, <1>6, <1>8, UnitIsUnique
  <2> QED BY <2>1, <2>3, <1>1
<1> HIDE DEF i
<1> QED BY <1>11, <1>12, <1>13

-----------------------------------------------------------------------------
(* Theorems *)

\* Whatever months and days a period begins and ends in, each moment of it is in one of the logs
\* that fillLogRequestTargetFields lists for a channel, and in one only.
THEOREM LogsCoverOnce ==
    ASSUME NEW p \in Periods, NEW all_users \in BOOLEAN
    PROVE  CoversOnce(LogPeriods(p, all_users), p)
<1>1. CASE all_users
  <2> DEFINE periods == LogPeriods(p, TRUE)
  <2>1. /\ DOMAIN periods = DOMAIN Units(p, DayOf)
        /\ \A i \in DOMAIN periods :
             periods[i] = TimePeriod(DayStart[Units(p, DayOf)[i]], DayStart[Units(p, DayOf)[i] + 1])
    BY DEF LogPeriods, periodToDates, createYearMonthDayPeriod
  <2>2. Division(Days, DayStart, DayOf)
    BY CalendarAssumption
  <2>3. CoversOnce(periods, p)
    <3> HIDE DEF periods
    <3> QED BY <2>1, <2>2, UnitsCoverOnce
  <2> QED BY <1>1, <2>3
<1>2. CASE ~all_users
  <2> DEFINE periods == LogPeriods(p, FALSE)
  <2>1. /\ DOMAIN periods = DOMAIN Units(p, MonthOf)
        /\ \A i \in DOMAIN periods :
             periods[i] = TimePeriod(MonthStart[Units(p, MonthOf)[i]],
                                     MonthStart[Units(p, MonthOf)[i] + 1])
    BY DEF LogPeriods, periodToYearMonths, createYearMonthPeriod
  <2>2. Division(Months, MonthStart, MonthOf)
    BY CalendarAssumption
  <2>3. CoversOnce(periods, p)
    <3> HIDE DEF periods
    <3> QED BY <2>1, <2>2, UnitsCoverOnce
  <2> QED BY <1>2, <2>3
<1> QED BY <1>1, <1>2

\* A time point of which the first k parts say a time is that time.
LEMMA TimeSaidIsTime ==
    ASSUME NEW s \in Seq(Nat), NEW k \in 1..3, SaysTime(s, k)
    PROVE  TimeSaid(s, k) \in Times
<1>1. Months \in Nat \ {0} /\ Days \in Nat \ {0} /\ Ticks \in Nat
  BY CalendarAssumption DEF Division
<1>2. s[1] \in 0..(Months - 1) /\ k \in 1..Len(s)
  BY DEF SaysTime
<1>3. MonthStart[s[1]] \in Times
  BY <1>2, CalendarAssumption, StartIsTime
<1>4. CASE k = 1
  BY <1>3, <1>4 DEF TimeSaid
<1>5. ASSUME k > 1
      PROVE  DayOfMonth(s) \in 0..(Days - 1) /\ DayStart[DayOfMonth(s)] \in Times
             /\ DayStart[DayOfMonth(s) + 1] \in Nat /\ DayStart[DayOfMonth(s) + 1] <= Ticks
  <2>1. s[2] \in Nat /\ s[2] > 0 /\ DayOfMonth(s) < Days
    BY <1>2, <1>5 DEF SaysTime
  <2>2. DayOf[MonthStart[s[1]]] \in 0..(Days - 1)
    BY <1>3, CalendarAssumption DEF Division, Times
  <2>3. PICK a \in 0..(Days - 1) : a = DayOf[MonthStart[s[1]]]
    BY <2>2
  <2>4. PICK b \in Nat : b = s[2] /\ b > 0
    BY <2>1
  <2>5. DayOfMonth(s) = a + b - 1
    BY <2>3, <2>4 DEF DayOfMonth
  <2>6. DayOfMonth(s) \in 0..(Days - 1)
    BY SMTT(30), <2>1, <2>4, <2>5, <1>1
  <2> QED BY <2>6, CalendarAssumption, StartIsTime
<1>6. CASE k = 2
  BY <1>5, <1>6 DEF TimeSaid
<1>7. CASE k = 3
  <2>1. s[3] \in Nat /\ DayStart[DayOfMonth(s)] + s[3] < DayStart[DayOfMonth(s) + 1]
    BY <1>2, <1>7 DEF SaysTime
  <2>2. PICK a \in Times, b \in Nat : a = DayStart[DayOfMonth(s)] /\ b = s[3]
    BY <2>1, <1>5, <1>7
  <2>3. PICK c \in Nat : c = DayStart[DayOfMonth(s) + 1] /\ c <= Ticks
    BY <1>5, <1>7
  <2>4. a + b < c
    BY <2>1, <2>2, <2>3
  <2>5. a + b \in Times
    BY <2>4, <2>3, <1>1 DEF Times
  <2> QED BY <2>2, <2>5, <1>7 DEF TimeSaid
<1> QED BY <1>4, <1>6, <1>7

LEMMA PointIsTime ==
    ASSUME NEW s \in Seq(Nat), Readable(s)
    PROVE  parseTimePointString(s) \in Times
<1> DEFINE Longest(k) == SaysTime(s, k) /\ \A j \in k + 1..3 : ~SaysTime(s, j)
<1>1. SaysTime(s, 1)
  BY DEF Readable
<1>2. \E k \in 1..3 : Longest(k)
  <2>1. CASE SaysTime(s, 3)
    <3>1. Longest(3) BY <2>1
    <3> QED BY <3>1
  <2>2. CASE ~SaysTime(s, 3) /\ SaysTime(s, 2)
    <3>1. Longest(2) BY <2>2
    <3> QED BY <3>1
  <2>3. CASE ~SaysTime(s, 3) /\ ~SaysTime(s, 2)
    <3>1. Longest(1) BY <2>3, <1>1
    <3> QED BY <3>1
  <2> QED BY <2>1, <2>2, <2>3
<1> DEFINE k == CHOOSE k \in 1..3 : Longest(k)
<1>3. k \in 1..3 /\ SaysTime(s, k)
  BY <1>2
<1>4. parseTimePointString(s) = TimeSaid(s, k)
  BY DEF parseTimePointString
<1> HIDE DEF k
<1> QED BY <1>3, <1>4, TimeSaidIsTime

\* Two time points that parseTimePeriod accepts make a period that begins before it ends, which
\* is what the constructor of TimePeriod asserts.
THEOREM AcceptedIsPeriod ==
    ASSUME NEW begin \in Seq(Nat), NEW end \in Seq(Nat), Accepted(begin, end)
    PROVE  parseTimePeriod(begin, end) \in Periods
BY PointIsTime DEF Accepted, parseTimePeriod, TimePeriod, Periods

-----------------------------------------------------------------------------
\* What is known of a query: why it was rejected, or which period it has.
QueryInv ==
    /\ stage = "rejected" => query \in Queries /\ ~Accepted(query.begin, query.end)
    /\ stage \notin {"idle", "rejected"} =>
         /\ query \in Queries /\ Accepted(query.begin, query.end)
         /\ period = parseTimePeriod(query.begin, query.end)

LEMMA QueryInvHolds == Spec => []QueryInv
<1>1. Init => QueryInv
  BY DEF Init, QueryInv
<1>2. QueryInv /\ [Next]_vars => QueryInv'
  <2> SUFFICES ASSUME QueryInv, [Next]_vars PROVE QueryInv'
    OBVIOUS
  <2>1. ASSUME NEW q \in Queries, Command(q) PROVE QueryInv'
    <3>1. query' = q
      BY <2>1 DEF Command
    <3>2. CASE Accepted(q.begin, q.end)
      BY <2>1, <3>1, <3>2 DEF Command, QueryInv
    <3>3. CASE ~Accepted(q.begin, q.end)
      BY <2>1, <3>1, <3>3 DEF Command, QueryInv
    <3> QED BY <3>2, <3>3
  <2>2. ASSUME UNCHANGED <<query, period>>,
               stage' = stage \/ (stage \notin {"idle", "rejected"} /\ stage' \notin {"idle", "rejected"})
        PROVE  QueryInv'
    BY <2>2 DEF QueryInv
  <2>3. CASE Receive
    BY <2>2, <2>3 DEF Receive
  <2>4. CASE NextLine
    BY <2>2, <2>4 DEF NextLine
  <2>5. CASE CountMatch
    BY <2>2, <2>5 DEF CountMatch
  <2>6. CASE NoMoreMatches
    BY <2>2, <2>6 DEF NoMoreMatches
  <2>7. CASE EndOfLog
    <3>1. UNCHANGED <<query, period>> /\ stage = "searching" /\ stage' \in {"downloading", "answered"}
      BY <2>7 DEF EndOfLog
    <3> QED BY <2>2, <3>1
  <2>8. CASE UNCHANGED vars
    BY <2>2, <2>8 DEF vars
  <2> QED BY <2>1, <2>3, <2>4, <2>5, <2>6, <2>7, <2>8 DEF Next, Search
<1> QED BY <1>1, <1>2, PTL DEF Spec

-----------------------------------------------------------------------------
\* A moment of the period of a query is in exactly one of the logs that are downloaded for it.
THEOREM PeriodIsCovered == Spec => []TargetsCoverPeriod
<1>1. QueryInv => TargetsCoverPeriod
  <2> SUFFICES ASSUME QueryInv, stage \notin {"idle", "rejected"}
               PROVE  CoversOnce(LogPeriods(period, query.all_users), period)
    BY DEF TargetsCoverPeriod
  <2>1. query \in Queries /\ Accepted(query.begin, query.end)
        /\ period = parseTimePeriod(query.begin, query.end)
    BY DEF QueryInv
  <2>2. query.begin \in Seq(Nat) /\ query.end \in Seq(Nat) /\ query.all_users \in BOOLEAN
    BY <2>1, QueriesAssumption
  <2>3. period \in Periods
    BY <2>1, <2>2, AcceptedIsPeriod
  <2> QED BY <2>2, <2>3, LogsCoverOnce
<1> QED BY <1>1, QueryInvHolds, PTL

-----------------------------------------------------------------------------
\* A time point that is right is read as the one with its omitted parts filled in.
LEMMA RightPoint ==
    ASSUME NEW s \in Seq(Nat), Len(s) <= 3, SaysTime(s, Len(s))
    PROVE  Readable(s) /\ parseTimePointString(s) = TimeSaid(Full(s), 3)
<1> DEFINE Longest(k) == SaysTime(s, k) /\ \A j \in k + 1..3 : ~SaysTime(s, j)
<1>1. Len(s) \in 1..3 /\ s[1] \in 0..(Months - 1)
  <2>1. Len(s) \in 1..Len(s) /\ s[1] \in 0..(Months - 1)
    BY DEF SaysTime
  <2>2. PICK n \in Nat : n = Len(s)
    OBVIOUS
  <2>3. n \in 1..3
    BY <2>1, <2>2
  <2> QED BY <2>1, <2>2, <2>3
<1>2. Readable(s)
  BY <1>1 DEF Readable, SaysTime
<1>3. Longest(Len(s))
  <2>1. ASSUME NEW j \in Len(s) + 1..3, SaysTime(s, j) PROVE FALSE
    <3>1. j \in 1..Len(s)
      BY <2>1 DEF SaysTime
    <3> QED BY <3>1, <2>1, <1>1
  <2> QED BY <2>1
<1>4. ASSUME NEW k \in 1..3, Longest(k) PROVE k = Len(s)
  <2>1. k \in 1..Len(s)
    BY <1>4 DEF SaysTime
  <2>2. k < Len(s) => Len(s) \in k + 1..3
    BY <1>1
  <2> QED BY <2>1, <2>2, <1>1, <1>4
<1>5. parseTimePointString(s) = TimeSaid(s, Len(s))
  <2> DEFINE c == CHOOSE k \in 1..3 : Longest(k)
  <2>1. c \in 1..3 /\ Longest(c)
    BY <1>1, <1>3
  <2>2. c = Len(s)
    <3> HIDE DEF c
    <3> QED BY <2>1, <1>4
  <2>3. parseTimePointString(s) = TimeSaid(s, c)
    BY DEF parseTimePointString
  <2> QED BY <2>2, <2>3
<1> DEFINE first == DayOf[MonthStart[s[1]]]
<1>6. first \in Nat /\ DayStart[first] = MonthStart[s[1]] /\ MonthStart[s[1]] \in Nat
  <2>1. MonthStart[s[1]] \in Times
    BY <1>1, CalendarAssumption, StartIsTime
  <2>2. first \in 0..(Days - 1) /\ Days \in Nat
    BY <2>1, CalendarAssumption DEF Division, Times
  <2>3. DayStart[first] = MonthStart[s[1]]
    BY <1>1, CalendarAssumption
  <2>4. MonthStart[s[1]] \in Nat
    BY <2>1 DEF Times
  <2> QED BY <2>2, <2>3, <2>4
<1>7. TimeSaid(Full(s), 3) = DayStart[first + Full(s)[2] - 1] + Full(s)[3]
  BY DEF TimeSaid, DayOfMonth, Full
<1>8. CASE Len(s) = 1
  <2>1. Full(s)[2] = 1 /\ Full(s)[3] = 0
    BY <1>8 DEF Full
  <2>2. first + 1 - 1 = first
    BY <1>6
  <2>3. TimeSaid(Full(s), 3) = MonthStart[s[1]]
    BY <1>6, <1>7, <2>1, <2>2
  <2>4. TimeSaid(s, 1) = MonthStart[s[1]]
    BY DEF TimeSaid
  <2> QED BY <1>2, <1>5, <1>8, <2>3, <2>4
<1>9. ASSUME Len(s) > 1
      PROVE  DayStart[DayOfMonth(s)] \in Nat /\ DayOfMonth(s) = first + s[2] - 1 /\ s[2] \in Nat
  <2>1. s[2] \in Nat /\ s[2] > 0 /\ DayOfMonth(s) < Days
    BY <1>1, <1>9 DEF SaysTime
  <2>2. PICK b \in Nat : b = s[2] /\ b > 0
    BY <2>1
  <2>3. DayOfMonth(s) = first + b - 1
    BY <2>2 DEF DayOfMonth
  <2>4. Days \in Nat
    BY CalendarAssumption DEF Division
  <2>5. DayOfMonth(s) \in 0..(Days - 1)
    <3>1. PICK a \in Nat : a = first
      BY <1>6
    <3>2. DayOfMonth(s) = a + b - 1
      BY <2>3, <3>1
    <3> QED BY SMTT(30), <2>1, <2>2, <2>4, <3>2
  <2>6. DayStart[DayOfMonth(s)] \in Times
    BY <2>5, CalendarAssumption, StartIsTime
  <2> QED BY <2>1, <2>2, <2>3, <2>6 DEF Times
<1>10. CASE Len(s) = 2
  <2>1. Full(s)[2] = s[2] /\ Full(s)[3] = 0
    BY <1>10 DEF Full
  <2>2. TimeSaid(Full(s), 3) = DayStart[DayOfMonth(s)]
    BY <1>7, <1>9, <1>10, <2>1
  <2>3. TimeSaid(s, 2) = DayStart[DayOfMonth(s)]
    BY DEF TimeSaid
  <2> QED BY <1>2, <1>5, <1>10, <2>2, <2>3
<1>11. CASE Len(s) = 3
  <2>1. Full(s)[2] = s[2] /\ Full(s)[3] = s[3]
    BY <1>11 DEF Full
  <2>2. TimeSaid(Full(s), 3) = DayStart[DayOfMonth(s)] + s[3]
    BY <1>7, <1>9, <1>11, <2>1
  <2>3. TimeSaid(s, 3) = DayStart[DayOfMonth(s)] + s[3]
    BY DEF TimeSaid
  <2> QED BY <1>2, <1>5, <1>11, <2>2, <2>3
<1> QED BY <1>1, <1>8, <1>10, <1>11

\* The period of a query is from one time point to the other, each with its omitted parts filled
\* in; it is refused only if the end is before the begin.
THEOREM PeriodIsAsSaid == Spec => []OmittedPartsAreFirst
<1>1. QueryInv => OmittedPartsAreFirst
  <2> SUFFICES ASSUME QueryInv, stage # "idle", SaysTime(query.begin, Len(query.begin)),
                      SaysTime(query.end, Len(query.end))
               PROVE  IF stage = "rejected"
                        THEN TimeSaid(Full(query.end), 3) < TimeSaid(Full(query.begin), 3)
                        ELSE period = TimePeriod(TimeSaid(Full(query.begin), 3),
                                                 TimeSaid(Full(query.end), 3))
    BY DEF OmittedPartsAreFirst
  <2>1. query \in Queries
    BY DEF QueryInv
  <2>2. /\ query.begin \in Seq(Nat) /\ Len(query.begin) <= 3
        /\ query.end \in Seq(Nat) /\ Len(query.end) <= 3
    BY <2>1, QueriesAssumption
  <2>3. /\ Readable(query.begin) /\ parseTimePointString(query.begin) = TimeSaid(Full(query.begin), 3)
        /\ Readable(query.end) /\ parseTimePointString(query.end) = TimeSaid(Full(query.end), 3)
    BY <2>2, RightPoint
  <2>4. CASE stage = "rejected"
    <3>1. ~Accepted(query.begin, query.end)
      BY <2>4 DEF QueryInv
    <3>2. ~(parseTimePointString(query.begin) <= parseTimePointString(query.end))
      BY <3>1, <2>3 DEF Accepted
    <3>3. parseTimePointString(query.begin) \in Nat /\ parseTimePointString(query.end) \in Nat
      BY <2>2, <2>3, PointIsTime DEF Times
    <3> QED BY <2>3, <2>4, <3>2, <3>3
  <2>5. CASE stage # "rejected"
    <3>1. period = parseTimePeriod(query.begin, query.end)
      BY <2>5 DEF QueryInv
    <3> QED BY <2>3, <2>5, <3>1 DEF parseTimePeriod
  <2> QED BY <2>4, <2>5
<1> QED BY <1>1, QueryInvHolds, PTL

-----------------------------------------------------------------------------
(* The lines of a log *)

\* Two lines of a channel that look the same are the same.
LEMMA SameView ==
    ASSUME NEW k \in Written, NEW l \in Written, k.channel = l.channel,
           k.time = l.time, k.user = l.user, k.text = l.text
    PROVE  k = l
<1>1. /\ k \in [channel : Words, user : Words, time : Clock, text : Seq(Tokens \ {NL}), notice : BOOLEAN]
      /\ l \in [channel : Words, user : Words, time : Clock, text : Seq(Tokens \ {NL}), notice : BOOLEAN]
  BY WrittenAssumption
<1>2. [k EXCEPT !.notice = l.notice] = l
  BY <1>1
<1> QED BY <1>2, WrittenAssumption

LinesOf(target) == {l \in Written : InLog(l, target)}
ViewsOf(service, target) == {View(service, l) : l \in {l \in LinesOf(target) : Reads(service, l)}}

\* A log has each line of its target once, and nothing else.
LEMMA LogHasLines ==
    ASSUME NEW target, NEW log \in LogOf(target)
    PROVE  /\ log \in Seq(Written) /\ \A i \in DOMAIN log : log[i] \in LinesOf(target)
           /\ \A i, j \in DOMAIN log : log[i] = log[j] => i = j
           /\ \A l \in LinesOf(target) : \E i \in DOMAIN log : log[i] = l
<1> DEFINE L == {l \in Written : InLog(l, target)}
           n == Cardinality(L)
<1>1. IsFiniteSet(L) /\ n \in Nat
  <2>1. L \in SUBSET Written /\ IsFiniteSet(Written)
    BY SearchAssumption
  <2> HIDE DEF L
  <2>2. IsFiniteSet(L)
    BY <2>1, FS_Subset
  <2> QED BY <2>2, FS_CardinalityType
<1>2. log \in [1..n -> L] /\ IsInjective(log)
  BY DEF LogOf
<1> HIDE DEF n
<1>3. IsFiniteSet(1..n) /\ Cardinality(1..n) = n
  BY <1>1, FS_Interval
<1>4. \A i, j \in 1..n : log[i] = log[j] => i = j
  <2> HIDE DEF L
  <2> QED BY <1>2, Zenon DEF IsInjective
<1>5. log \in Injection(1..n, L)
  BY <1>2, Zenon DEF Injection
<1>6. log \in Surjection(1..n, L)
  <2>1. Cardinality(1..n) = Cardinality(L)
    BY <1>3 DEF n
  <2> HIDE DEF L
  <2> QED BY <1>1, <1>5, <2>1, FS_Injection
<1>7. \A l \in L : \E i \in 1..n : log[i] = l
  BY <1>6 DEF Surjection
<1>8. DOMAIN log = 1..n /\ \A i \in 1..n : log[i] \in L
  <2> HIDE DEF L
  <2> QED BY <1>2
<1>9. L \subseteq Written /\ L = LinesOf(target)
  BY DEF LinesOf
<1>10. log \in Seq(Written)
  <2> HIDE DEF L
  <2> QED BY <1>1, <1>2, <1>9
<1> HIDE DEF L
<1> QED BY <1>4, <1>7, <1>8, <1>9, <1>10

\* What the parser makes of a log: each line of the target that can be read, once.
LEMMA LogIsParsed ==
    ASSUME NEW service \in Services, NEW target, NEW log \in LogOf(target), NEW read,
           read = LogLines(service, WriteLog(service, log))
    PROVE  /\ read \in Seq(ViewsOf(service, target))
           /\ \A l \in Written : l.channel = target.channel =>
                Occurs(read, {View(service, l)}) =
                    IF InLog(l, target) /\ Reads(service, l) THEN 1 ELSE 0
<1> DEFINE rows == [i \in DOMAIN log |-> Parsed(service, log[i])]
           n == Len(log)
           V == ViewsOf(service, target)
<1>1. /\ log \in Seq(Written) /\ \A i \in DOMAIN log : log[i] \in LinesOf(target)
      /\ \A i, j \in DOMAIN log : log[i] = log[j] => i = j
      /\ \A l \in LinesOf(target) : \E i \in DOMAIN log : log[i] = l
  BY LogHasLines
<1>2. DOMAIN log = 1..n /\ n \in Nat
  BY <1>1
<1>3. read = FlattenSeq(rows)
  BY <1>1, LogReadsBack
<1>4. \A i \in 1..n : rows[i] = Parsed(service, log[i])
  BY <1>2
<1>5. rows \in Seq(Seq(V)) /\ DOMAIN rows = 1..n /\ Len(rows) = n
  <2>1. ASSUME NEW i \in 1..n PROVE rows[i] \in Seq(V)
    <3>1. log[i] \in LinesOf(target) /\ rows[i] = Parsed(service, log[i])
      BY <1>1, <1>2, <1>4
    <3>2. CASE Reads(service, log[i])
      <4>1. View(service, log[i]) \in V
        BY <3>1, <3>2 DEF ViewsOf
      <4>2. rows[i] = <<View(service, log[i])>>
        BY <3>1, <3>2 DEF Parsed
      <4> HIDE DEF V, rows
      <4> QED BY <4>1, <4>2
    <3>3. CASE ~Reads(service, log[i])
      <4>1. rows[i] = <<>>
        BY <3>1, <3>3 DEF Parsed
      <4> HIDE DEF V, rows
      <4> QED BY <4>1
    <3> QED BY <3>2, <3>3
  <2>2. rows = [i \in 1..n |-> rows[i]]
    BY <1>2
  <2> HIDE DEF rows, V, n
  <2>3. rows \in [1..n -> Seq(V)]
    BY <2>1, <2>2, Zenon
  <2> QED BY <1>2, <2>3
<1> HIDE DEF rows
<1>6. read \in Seq(V)
  <2> HIDE DEF V
  <2> QED BY <1>3, <1>5, FlattenType
<1>7. ASSUME NEW l \in Written, l.channel = target.channel
      PROVE  Occurs(read, {View(service, l)}) =
                IF InLog(l, target) /\ Reads(service, l) THEN 1 ELSE 0
  <2> DEFINE S == {View(service, l)}
             M == {i \in 1..n : log[i] = l /\ Reads(service, l)}
  <2>1. ASSUME NEW i \in 1..n PROVE Occurs(rows[i], S) = IF i \in M THEN 1 ELSE 0
    <3> DEFINE k == log[i]
    <3>1. k \in Written /\ k.channel = l.channel /\ rows[i] = Parsed(service, k)
      BY <1>1, <1>2, <1>4, <1>7 DEF LinesOf, InLog
    <3>2. View(service, k) = View(service, l) => k = l
      <4>1. View(service, k) = View(service, l) =>
               k.time = l.time /\ <<k.user>> = <<l.user>> /\ k.text = l.text
        BY DEF View
      <4>2. <<k.user>> = <<l.user>> => k.user = l.user
        OBVIOUS
      <4> HIDE DEF k
      <4> QED BY <3>1, <4>1, <4>2, SameView
    <3>3. CASE Reads(service, k)
      <4>1. Occurs(rows[i], S) = IF View(service, k) \in S THEN 1 ELSE 0
        <5>1. rows[i] = <<View(service, k)>>
          BY <3>1, <3>3 DEF Parsed
        <5> HIDE DEF S, k
        <5> QED BY <5>1, OccursOne
      <4>2. View(service, k) \in S <=> k = l
        <5> HIDE DEF k
        <5> QED BY <3>2
      <4>3. i \in M <=> k = l
        BY <3>3
      <4> HIDE DEF S, M, k
      <4> QED BY <4>1, <4>2, <4>3
    <3>4. CASE ~Reads(service, k)
      <4>1. Occurs(rows[i], S) = 0
        <5>1. rows[i] = <<>>
          BY <3>1, <3>4 DEF Parsed
        <5> HIDE DEF S
        <5> QED BY <5>1, OccursOne
      <4>2. i \notin M
        BY <3>4
      <4> HIDE DEF S, M
      <4> QED BY <4>1, <4>2
    <3> QED BY <3>3, <3>4
  <2>2. Occurs(read, S) = Cardinality(M) * 1
    <3> HIDE DEF S, M, V
    <3> DEFINE K == 1
    <3>1. /\ \A i \in M : Occurs(rows[i], S) = K
          /\ \A i \in 1..Len(rows) : i \notin M => Occurs(rows[i], S) = 0
      BY <1>5, <2>1 DEF M
    <3>2. K \in Nat /\ rows \in Seq(Seq(V)) /\ M \in SUBSET (1..Len(rows))
      BY <1>5 DEF M
    <3>3. K = 1
      OBVIOUS
    <3> HIDE DEF K
    <3>4. Occurs(FlattenSeq(rows), S) = Cardinality(M) * K
      BY <3>1, <3>2, OccursFlatten
    <3> QED BY <1>3, <3>3, <3>4
  <2>4. ASSUME InLog(l, target), Reads(service, l) PROVE Occurs(read, S) = 1
    <3>1. PICK i \in 1..n : log[i] = l
      BY <1>1, <1>2, <2>4 DEF LinesOf
    <3>2. M = {i}
      BY <1>1, <1>2, <2>4, <3>1
    <3>3. Cardinality(M) = 1
      BY <3>2, FS_Singleton
    <3>4. Cardinality(M) * 1 = 1
      BY <3>3
    <3> HIDE DEF M, S
    <3> QED BY <2>2, <3>4, Zenon
  <2>5. ASSUME ~(InLog(l, target) /\ Reads(service, l)) PROVE Occurs(read, S) = 0
    <3>1. \A i \in 1..n : log[i] = l => InLog(l, target)
      BY <1>1, <1>2 DEF LinesOf
    <3>2. M = {}
      BY <2>5, <3>1
    <3>3. Cardinality(M) = 0
      BY <3>2, FS_EmptySet
    <3>4. Cardinality(M) * 1 = 0
      BY <3>3
    <3> HIDE DEF M, S
    <3> QED BY <2>2, <3>4, Zenon
  <2> HIDE DEF M
  <2>6. Occurs(read, S) = IF InLog(l, target) /\ Reads(service, l) THEN 1 ELSE 0
    <3> HIDE DEF S
    <3> QED BY <2>4, <2>5
  <2> QED BY <2>6
<1> QED BY <1>6, <1>7

-----------------------------------------------------------------------------
(* The targets of a query *)

Spans == [begin : Nat, end : Nat]
UserNames == Words \union {""}
Targets == [period : Spans, channel : Words, user : UserNames]
LogsWith(l) == {t \in Targets : InLog(l, t)}

\* The months, or the days, of a period are periods; there is at least one.
LEMMA UnitsAreSpans ==
    ASSUME NEW n, NEW Start, NEW Of, Division(n, Start, Of), NEW p \in Periods
    PROVE  LET N == Of[p.end] + 1 - Of[p.begin] IN
           /\ N \in Nat \ {0} /\ DOMAIN Units(p, Of) = 1..N
           /\ \A i \in 1..N : TimePeriod(Start[Units(p, Of)[i]], Start[Units(p, Of)[i] + 1]) \in Spans
<1> DEFINE N == Of[p.end] + 1 - Of[p.begin]
<1>1. p.begin \in Times /\ p.end \in Times /\ p.begin <= p.end
  BY DEF Periods
<1>2. /\ Of[p.begin] \in 0..(n - 1) /\ Of[p.end] \in 0..(n - 1) /\ Of[p.begin] <= Of[p.end]
      /\ n \in Nat \ {0}
  BY <1>1, UnitsInOrder DEF Division, Times
<1>3. N \in Nat \ {0} /\ DOMAIN Units(p, Of) = 1..N
  BY <1>2 DEF Units
<1>4. ASSUME NEW i \in 1..N
      PROVE  TimePeriod(Start[Units(p, Of)[i]], Start[Units(p, Of)[i] + 1]) \in Spans
  <2>1. PICK u : u = Units(p, Of)[i]
    OBVIOUS
  <2>2. u \in 0..(n - 1)
    BY <1>2, <2>1 DEF Units
  <2>3. Start[u] \in Times /\ Start[u + 1] \in Nat
    BY <2>2, StartIsTime
  <2>4. Start[u] \in Nat
    BY <2>3, CalendarAssumption DEF Times
  <2> QED BY <2>1, <2>3, <2>4 DEF TimePeriod, Spans
<1> QED BY <1>3, <1>4

\* A period has at least one log.
LEMMA LogsAreSpans ==
    ASSUME NEW p \in Periods, NEW all_users \in BOOLEAN
    PROVE  LogPeriods(p, all_users) \in Seq(Spans) \ {<<>>}
<1>1. Division(Months, MonthStart, MonthOf) /\ Division(Days, DayStart, DayOf)
  BY CalendarAssumption
<1>2. ASSUME NEW n, NEW Start, NEW Of, Division(n, Start, Of), NEW logs,
             logs = [i \in DOMAIN Units(p, Of) |->
                        TimePeriod(Start[Units(p, Of)[i]], Start[Units(p, Of)[i] + 1])]
      PROVE  logs \in Seq(Spans) \ {<<>>}
  <2> DEFINE N == Of[p.end] + 1 - Of[p.begin]
  <2>1. /\ N \in Nat \ {0} /\ DOMAIN Units(p, Of) = 1..N
        /\ \A i \in 1..N : TimePeriod(Start[Units(p, Of)[i]], Start[Units(p, Of)[i] + 1]) \in Spans
    BY <1>2, UnitsAreSpans
  <2> HIDE DEF N
  <2>2. logs \in [1..N -> Spans]
    BY <1>2, <2>1
  <2> QED BY <2>1, <2>2
<1>3. CASE all_users
  <2> DEFINE logs == LogPeriods(p, all_users)
  <2>1. logs = [i \in DOMAIN Units(p, DayOf) |->
                   TimePeriod(DayStart[Units(p, DayOf)[i]], DayStart[Units(p, DayOf)[i] + 1])]
    BY <1>3 DEF LogPeriods, periodToDates, createYearMonthDayPeriod
  <2> HIDE DEF logs
  <2>2. logs \in Seq(Spans) \ {<<>>}
    BY <1>1, <1>2, <2>1
  <2> QED BY <2>2 DEF logs
<1>4. CASE ~all_users
  <2> DEFINE logs == LogPeriods(p, all_users)
  <2>1. logs = [i \in DOMAIN Units(p, MonthOf) |->
                   TimePeriod(MonthStart[Units(p, MonthOf)[i]], MonthStart[Units(p, MonthOf)[i] + 1])]
    BY <1>4 DEF LogPeriods, periodToYearMonths, createYearMonthPeriod
  <2> HIDE DEF logs
  <2>2. logs \in Seq(Spans) \ {<<>>}
    BY <1>1, <1>2, <2>1
  <2> QED BY <2>2 DEF logs
<1> QED BY <1>3, <1>4

UsersOf(q) == IF q.all_users THEN <<"">> ELSE q.users
RowOf(logs, c, u) == [i \in DOMAIN logs |-> Target(logs[i], c, u)]
ChannelOf(logs, users, c) == FlattenSeq([k \in DOMAIN users |-> RowOf(logs, c, users[k])])

\* The logs of one user in one channel: one of them has a line of his.
LEMMA LogsOfUser ==
    ASSUME NEW logs \in Seq(Spans) \ {<<>>}, NEW c \in Words, NEW u \in UserNames
    PROVE  /\ RowOf(logs, c, u) \in Seq(Targets) \ {<<>>}
           /\ \A p \in Periods, l \in Written :
                CoversOnce(logs, p) /\ isInside(p, l.time) =>
                    /\ c = l.channel /\ (u # "" => u = l.user) => Occurs(RowOf(logs, c, u), LogsWith(l)) = 1
                    /\ ~(c = l.channel /\ (u # "" => u = l.user)) =>
                            Occurs(RowOf(logs, c, u), LogsWith(l)) = 0
<1> DEFINE n == Len(logs)
           row == RowOf(logs, c, u)
<1>1. DOMAIN logs = 1..n /\ n \in Nat \ {0} /\ \A i \in 1..n : logs[i] \in Spans
  BY NotEmpty, Zenon
<1>2. \A i \in 1..n : row[i] = Target(logs[i], c, u) /\ row[i] \in Targets
  BY <1>1 DEF Target, Targets, RowOf
<1>5. row = [i \in 1..n |-> row[i]]
  BY <1>1 DEF RowOf
<1> HIDE DEF row
<1>3. row \in Seq(Targets) \ {<<>>} /\ DOMAIN row = 1..n
  <2>1. row \in [1..n -> Targets]
    <3> HIDE DEF n
    <3> QED BY <1>2, <1>5, Zenon
  <2> HIDE DEF n
  <2> QED BY <1>1, <2>1, Filled
<1>4. ASSUME NEW p \in Periods, NEW l \in Written, CoversOnce(logs, p), isInside(p, l.time)
      PROVE  /\ c = l.channel /\ (u # "" => u = l.user) => Occurs(row, LogsWith(l)) = 1
             /\ ~(c = l.channel /\ (u # "" => u = l.user)) => Occurs(row, LogsWith(l)) = 0
  <2> DEFINE mine == c = l.channel /\ (u # "" => u = l.user)
             S == {i \in DOMAIN row : row[i] \in LogsWith(l)}
  <2>1. l.time \in Times
    BY Composed, SearchAssumption
  <2>2. PICK k \in 1..n : isInside(logs[k], l.time) /\ \A j \in 1..n : isInside(logs[j], l.time) => j = k
    BY <1>1, <1>4, <2>1, Zenon DEF CoversOnce
  <2>3. \A i \in 1..n : row[i] \in LogsWith(l) <=> mine /\ isInside(logs[i], l.time)
    <3>1. ASSUME NEW i \in 1..n
          PROVE  InLog(l, Target(logs[i], c, u)) <=> mine /\ isInside(logs[i], l.time)
      <4>1. PICK span : span = logs[i]
        OBVIOUS
      <4>2. PICK t : t = Target(span, c, u)
        OBVIOUS
      <4>3. t = Target(span, c, u) /\ t.channel = c /\ t.user = u /\ t.period = span
        BY <4>2 DEF Target
      <4>4. (l.channel = c <=> c = l.channel) /\ (l.user = u <=> u = l.user)
        OBVIOUS
      <4>5. InLog(l, t) <=> mine /\ isInside(span, l.time)
        BY <4>3, <4>4, Zenon DEF InLog, isInside
      <4> QED BY <4>1, <4>3, <4>5
    <3> HIDE DEF mine
    <3>2. \A i \in 1..n : row[i] \in LogsWith(l) <=> InLog(l, Target(logs[i], c, u))
      BY <1>2, Zenon DEF LogsWith
    <3> QED BY <3>1, <3>2, Zenon
  <2>4. ASSUME mine PROVE Cardinality(S) = 1
    <3>1. S = {k}
      BY <1>3, <2>2, <2>3, <2>4
    <3> QED BY <3>1, FS_Singleton
  <2>5. ASSUME ~mine PROVE Cardinality(S) = 0
    <3>1. S = {}
      BY <1>3, <2>3, <2>5
    <3> QED BY <3>1, FS_EmptySet
  <2>6. Occurs(row, LogsWith(l)) = Cardinality(S)
    BY DEF Occurs
  <2> HIDE DEF S
  <2> QED BY <2>4, <2>5, <2>6
<1> QED BY <1>3, <1>4, Zenon DEF row

\* The logs of one channel: as many as the list of users names the one of the line.
LEMMA LogsOfChannel ==
    ASSUME NEW logs \in Seq(Spans) \ {<<>>}, NEW c \in Words,
           NEW users \in Seq(UserNames) \ {<<>>}
    PROVE  /\ ChannelOf(logs, users, c) \in Seq(Targets) \ {<<>>}
           /\ \A p \in Periods, l \in Written :
                CoversOnce(logs, p) /\ isInside(p, l.time) =>
                    Occurs(ChannelOf(logs, users, c), LogsWith(l)) =
                        IF c = l.channel THEN Cardinality({k \in DOMAIN users : users[k] \in {"", l.user}})
                        ELSE 0
<1> DEFINE rows == [k \in DOMAIN users |-> RowOf(logs, c, users[k])]
           n == Len(users)
<1>1. DOMAIN users = 1..n /\ n \in Nat \ {0} /\ \A k \in 1..n : users[k] \in UserNames
  BY NotEmpty, Zenon
<1>2. ASSUME NEW k \in 1..n
      PROVE  /\ rows[k] \in Seq(Targets) /\ rows[k] # <<>>
             /\ \A p \in Periods, l \in Written :
                    CoversOnce(logs, p) /\ isInside(p, l.time) =>
                        /\ c = l.channel /\ (users[k] # "" => users[k] = l.user) =>
                                Occurs(rows[k], LogsWith(l)) = 1
                        /\ ~(c = l.channel /\ (users[k] # "" => users[k] = l.user)) =>
                                Occurs(rows[k], LogsWith(l)) = 0
  <2> DEFINE u == users[k]
             row == RowOf(logs, c, u)
  <2>1. u \in UserNames /\ rows[k] = row
    BY <1>1
  <2> HIDE DEF u, row
  <2>2. /\ row \in Seq(Targets) \ {<<>>}
        /\ \A p \in Periods, l \in Written :
                CoversOnce(logs, p) /\ isInside(p, l.time) =>
                    /\ c = l.channel /\ (u # "" => u = l.user) => Occurs(row, LogsWith(l)) = 1
                    /\ ~(c = l.channel /\ (u # "" => u = l.user)) => Occurs(row, LogsWith(l)) = 0
    BY <2>1, LogsOfUser, Zenon DEF row
  <2> HIDE DEF rows
  <2> QED BY <2>1, <2>2, Zenon DEF u
<1>3. rows \in Seq(Seq(Targets)) \ {<<>>} /\ Len(rows) = n
  <2>1. rows = [k \in 1..n |-> rows[k]]
    BY <1>1
  <2> HIDE DEF rows, n
  <2>2. rows \in [1..n -> Seq(Targets)]
    BY <1>2, <2>1, Zenon
  <2> QED BY <1>1, <2>2, Filled
<1>4. ChannelOf(logs, users, c) = FlattenSeq(rows)
  BY DEF ChannelOf
<1> HIDE DEF rows
<1>5. ChannelOf(logs, users, c) \in Seq(Targets) \ {<<>>}
  <2>1. rows \in Seq(Seq(Targets)) /\ rows # <<>> /\ \A k \in 1..Len(rows) : rows[k] # <<>>
    BY <1>2, <1>3
  <2> QED BY <1>4, <2>1, FlattenType
<1>6. ASSUME NEW p \in Periods, NEW l \in Written, CoversOnce(logs, p), isInside(p, l.time)
      PROVE  Occurs(ChannelOf(logs, users, c), LogsWith(l)) =
                IF c = l.channel THEN Cardinality({k \in DOMAIN users : users[k] \in {"", l.user}})
                ELSE 0
  <2> DEFINE M == IF c = l.channel THEN {k \in 1..n : users[k] \in {"", l.user}} ELSE {}
             S == LogsWith(l)
             K == 1
  <2>1. ASSUME NEW k \in 1..n
        PROVE  /\ k \in M => Occurs(rows[k], S) = K
               /\ k \notin M => Occurs(rows[k], S) = 0
    <3>1. /\ c = l.channel /\ (users[k] # "" => users[k] = l.user) => Occurs(rows[k], S) = 1
          /\ ~(c = l.channel /\ (users[k] # "" => users[k] = l.user)) => Occurs(rows[k], S) = 0
      BY <1>2, <1>6, Zenon
    <3>2. k \in M <=> c = l.channel /\ (users[k] # "" => users[k] = l.user)
      OBVIOUS
    <3>3. K = 1
      OBVIOUS
    <3> HIDE DEF M, S, K
    <3> QED BY <3>1, <3>2, <3>3, Zenon
  <2>2. M \in SUBSET (1..Len(rows)) /\ K \in Nat /\ rows \in Seq(Seq(Targets))
    BY <1>3
  <2>3. IF c = l.channel THEN M = {k \in DOMAIN users : users[k] \in {"", l.user}} ELSE M = {}
    BY <1>1
  <2>4. IsFiniteSet(M) /\ Cardinality(M) \in Nat /\ Cardinality({}) = 0
    <3>1. IsFiniteSet(1..n)
      BY <1>1, FS_Interval
    <3>2. M \subseteq 1..n
      OBVIOUS
    <3> HIDE DEF M, n
    <3> QED BY <3>1, <3>2, FS_Subset, FS_CardinalityType, FS_EmptySet
  <2>5. K = 1
    OBVIOUS
  <2> HIDE DEF M, S, K
  <2>6. /\ \A k \in M : Occurs(rows[k], S) = K
        /\ \A k \in 1..Len(rows) : k \notin M => Occurs(rows[k], S) = 0
    BY <1>3, <2>1, <2>2
  <2>7. Occurs(FlattenSeq(rows), S) = Cardinality(M) * K
    BY <2>2, <2>6, OccursFlatten
  <2>8. Occurs(FlattenSeq(rows), S) = Cardinality(M)
    <3>1. Cardinality(M) * 1 = Cardinality(M)
      BY <2>4
    <3> QED BY <2>5, <2>7, <3>1, Zenon
  <2> QED BY <1>4, <2>3, <2>4, <2>8 DEF S
<1> QED BY <1>5, <1>6, Zenon

\* How often the users of a query have a user: "" stands for everyone.
LEMMA UsersAreNamed ==
    ASSUME NEW q \in Queries
    PROVE  /\ UsersOf(q) \in Seq(UserNames) \ {<<>>}
           /\ \A l \in Written :
                Cardinality({k \in DOMAIN UsersOf(q) : UsersOf(q)[k] \in {"", l.user}}) =
                    IF q.all_users THEN 1 ELSE Naming(q.users, l.user)
<1>1. CASE q.all_users
  <2> DEFINE one == <<"">>
  <2>1. UsersOf(q) = one
    BY <1>1 DEF UsersOf
  <2>2. "" \in UserNames
    BY DEF UserNames
  <2>3. /\ one \in Seq(UserNames) \ {<<>>}
        /\ \A x : Cardinality({k \in DOMAIN one : one[k] \in {"", x}}) = 1
    BY <2>2, OneOfThem, Zenon
  <2> HIDE DEF one
  <2> QED BY <1>1, <2>1, <2>3
<1>2. CASE ~q.all_users
  <2> DEFINE users == q.users
  <2>1. UsersOf(q) = users
    BY <1>2 DEF UsersOf
  <2>2. users \in Seq(Words) \ {<<>>}
    BY <1>2, QueriesAssumption
  <2>3. Words \subseteq UserNames /\ "" \notin Words
    BY TextAssumption DEF UserNames
  <2> HIDE DEF users
  <2>4. DOMAIN users = 1..Len(users) /\ \A k \in 1..Len(users) : users[k] \in Words
    BY <2>2, NotEmpty, Zenon
  <2>5. users \in Seq(UserNames) \ {<<>>}
    <3>1. Len(users) \in Nat \ {0} /\ users \in Seq(Words)
      BY <2>2, NotEmpty
    <3>2. users \in [1..Len(users) -> Words]
      BY <3>1
    <3>3. users \in [1..Len(users) -> UserNames]
      BY <2>3, <3>2, Zenon
    <3> QED BY <3>1, <3>3, Filled
  <2>6. ASSUME NEW l \in Written
        PROVE  Cardinality({k \in DOMAIN users : users[k] \in {"", l.user}}) = Naming(users, l.user)
    <3>1. {k \in DOMAIN users : users[k] \in {"", l.user}} = {k \in DOMAIN users : users[k] = l.user}
      <4>1. \A k \in DOMAIN users : users[k] # ""
        BY <2>3, <2>4
      <4> QED BY <4>1
    <3> QED BY <3>1 DEF Naming
  <2> QED BY <1>2, <2>1, <2>5, <2>6 DEF users
<1> QED BY <1>1, <1>2

\* The targets of fillLogRequestTargetFields: each line of the period is in as many of the logs as
\* the lists name its channel and its user.
THEOREM TargetsAreNamed ==
    ASSUME NEW q \in Queries, NEW p \in Periods
    PROVE  /\ TargetsOf(q, p) \in Seq(Targets) \ {<<>>}
           /\ \A l \in Written : isInside(p, l.time) =>
                Occurs(TargetsOf(q, p), LogsWith(l)) =
                    Naming(q.channels, l.channel) * (IF q.all_users THEN 1 ELSE Naming(q.users, l.user))
<1> DEFINE logs == LogPeriods(p, q.all_users)
           users == UsersOf(q)
           channels == q.channels
           rows == [k \in DOMAIN channels |-> ChannelOf(logs, users, channels[k])]
           n == Len(channels)
<1>1. q.all_users \in BOOLEAN /\ channels \in Seq(Words) \ {<<>>}
  BY QueriesAssumption
<1>2. logs \in Seq(Spans) \ {<<>>} /\ CoversOnce(logs, p)
  BY <1>1, LogsAreSpans, LogsCoverOnce
<1>3. /\ users \in Seq(UserNames) \ {<<>>}
      /\ \A l \in Written :
            Cardinality({k \in DOMAIN users : users[k] \in {"", l.user}}) =
                IF q.all_users THEN 1 ELSE Naming(q.users, l.user)
  BY UsersAreNamed
<1>4. TargetsOf(q, p) = FlattenSeq(rows)
  BY DEF TargetsOf, ChannelOf, RowOf, UsersOf
<1> HIDE DEF logs, users, channels
<1>5. DOMAIN channels = 1..n /\ n \in Nat \ {0} /\ \A k \in 1..n : channels[k] \in Words
  BY <1>1, NotEmpty, Zenon
<1>6. ASSUME NEW k \in 1..n
      PROVE  /\ rows[k] \in Seq(Targets) /\ rows[k] # <<>>
             /\ \A l \in Written : isInside(p, l.time) =>
                    Occurs(rows[k], LogsWith(l)) =
                        IF channels[k] = l.channel
                          THEN IF q.all_users THEN 1 ELSE Naming(q.users, l.user) ELSE 0
  <2>1. rows[k] = ChannelOf(logs, users, channels[k]) /\ channels[k] \in Words
    BY <1>5
  <2> DEFINE c == channels[k]
  <2> HIDE DEF c, rows
  <2>2. /\ ChannelOf(logs, users, c) \in Seq(Targets) \ {<<>>}
        /\ \A r \in Periods, l \in Written :
                CoversOnce(logs, r) /\ isInside(r, l.time) =>
                    Occurs(ChannelOf(logs, users, c), LogsWith(l)) =
                        IF c = l.channel THEN Cardinality({i \in DOMAIN users : users[i] \in {"", l.user}})
                        ELSE 0
    BY <1>2, <1>3, <2>1, LogsOfChannel DEF c
  <2>3. ASSUME NEW l \in Written, isInside(p, l.time)
        PROVE  Occurs(ChannelOf(logs, users, c), LogsWith(l)) =
                    IF c = l.channel THEN IF q.all_users THEN 1 ELSE Naming(q.users, l.user) ELSE 0
    <3> DEFINE m == IF q.all_users THEN 1 ELSE Naming(q.users, l.user)
               C == Cardinality({i \in DOMAIN users : users[i] \in {"", l.user}})
    <3>1. C = m
      BY <1>3
    <3>2. Occurs(ChannelOf(logs, users, c), LogsWith(l)) = IF c = l.channel THEN C ELSE 0
      BY <1>2, <2>2, <2>3
    <3> HIDE DEF C
    <3> QED BY <3>1, <3>2
  <2> QED BY <2>1, <2>2, <2>3 DEF c
<1>7. rows \in Seq(Seq(Targets)) \ {<<>>} /\ Len(rows) = n
  <2>1. rows = [k \in 1..n |-> rows[k]]
    BY <1>5
  <2> HIDE DEF rows, n
  <2>2. rows \in [1..n -> Seq(Targets)]
    BY <1>6, <2>1, Zenon
  <2> QED BY <1>5, <2>2, Filled
<1> HIDE DEF rows
<1>8. FlattenSeq(rows) \in Seq(Targets) \ {<<>>}
  <2>1. rows \in Seq(Seq(Targets)) /\ rows # <<>> /\ \A k \in 1..Len(rows) : rows[k] # <<>>
    BY <1>6, <1>7
  <2> QED BY <2>1, FlattenType
<1>9. ASSUME NEW l \in Written, isInside(p, l.time)
      PROVE  Occurs(FlattenSeq(rows), LogsWith(l)) =
                Naming(channels, l.channel) * (IF q.all_users THEN 1 ELSE Naming(q.users, l.user))
  <2> DEFINE M == {k \in 1..n : channels[k] = l.channel}
             S == LogsWith(l)
             K == IF q.all_users THEN 1 ELSE Naming(q.users, l.user)
  <2>1. ASSUME NEW k \in 1..n
        PROVE  /\ k \in M => Occurs(rows[k], S) = K
               /\ k \notin M => Occurs(rows[k], S) = 0
    <3>1. Occurs(rows[k], S) = IF channels[k] = l.channel THEN K ELSE 0
      BY <1>6, <1>9
    <3>2. k \in M <=> channels[k] = l.channel
      OBVIOUS
    <3> HIDE DEF M, S, K
    <3> QED BY <3>1, <3>2
  <2>2. K \in Nat
    <3>1. IsFiniteSet(1..Len(users)) /\ DOMAIN users = 1..Len(users)
      <4>1. DOMAIN users = 1..Len(users) /\ Len(users) \in Nat
        BY <1>3, NotEmpty, Zenon
      <4> QED BY <4>1, FS_Interval
    <3> DEFINE H == {k \in DOMAIN users : users[k] \in {"", l.user}}
    <3>2. K = Cardinality(H)
      BY <1>3
    <3>3. H \subseteq 1..Len(users)
      BY <3>1
    <3> HIDE DEF H, K
    <3> QED BY <3>1, <3>2, <3>3, FS_Subset, FS_CardinalityType
  <2>3. M \in SUBSET (1..Len(rows)) /\ rows \in Seq(Seq(Targets))
    BY <1>7
  <2>4. Cardinality(M) = Naming(channels, l.channel)
    BY <1>5 DEF Naming
  <2> HIDE DEF M, S, K
  <2>5. /\ \A k \in M : Occurs(rows[k], S) = K
        /\ \A k \in 1..Len(rows) : k \notin M => Occurs(rows[k], S) = 0
    BY <1>7, <2>1, <2>3
  <2>6. Occurs(FlattenSeq(rows), S) = Cardinality(M) * K
    BY <2>2, <2>3, <2>5, OccursFlatten
  <2> QED BY <2>4, <2>6 DEF S, K
<1> QED BY <1>4, <1>8, <1>9 DEF channels

-----------------------------------------------------------------------------
(* Sorting *)

\* An order of a sequence has what the sequence has, as often.
LEMMA OrdersKeep ==
    ASSUME NEW T, NEW s \in Seq(T), NEW p \in Orders(s)
    PROVE  /\ p \in Seq(T)
           /\ \A S : Occurs(p, S) = Occurs(s, S)
<1> DEFINE n == Len(s)
           I == 0..n
           V == SUBSET Seq(T)
           Step(k, v) == UNION {{InsertAt(r, i, s[k]) : i \in 1..(Len(r) + 1)} : r \in v}
           orders[k \in I] == IF k = 0 THEN {<<>>} ELSE Step(k, orders[k - 1])
           stop == {k \in I : k = 0}
           size == [k \in I |-> k]
           base == [k \in I |-> {<<>>}]
           next == [k \in I |-> IF k = 0 THEN 0 ELSE k - 1]
           step == [x \in I \X V |-> IF x[1] = 0 THEN {} ELSE Step(x[1], x[2])]
<1>1. n \in Nat /\ (\A k \in 1..n : s[k] \in T) /\ DOMAIN s = 1..n
  OBVIOUS
<1>2. \A k \in I : k # 0 => k \in 1..n /\ k - 1 \in I
  BY <1>1
<1>3. ASSUME NEW k \in I, k # 0, NEW v \in V PROVE Step(k, v) \in V
  <2>1. ASSUME NEW r \in v, NEW i \in 1..(Len(r) + 1) PROVE InsertAt(r, i, s[k]) \in Seq(T)
    BY <1>1, <1>2, <1>3, OneMore
  <2> QED BY <2>1
<1>4. Recursive(I, V, size, stop, base, next, step)
  <2>1. size \in [I -> Nat] /\ stop \in SUBSET I /\ base \in [I -> V]
    BY <1>1
  <2>2. next \in [I -> I] /\ \A i \in I \ stop : size[next[i]] < size[i]
    BY <1>1
  <2>3. step \in [I \X V -> V]
    <3>1. {} \in V
      OBVIOUS
    <3> HIDE DEF I, V, Step
    <3> QED BY <1>3, <3>1
  <2> HIDE DEF I, V, stop, step, size, base, next
  <2> QED BY <2>1, <2>2, <2>3 DEF Recursive
<1>5. PICK f \in [I -> V] :
         \A i \in I : f[i] = IF i \in stop THEN base[i] ELSE step[<<i, f[next[i]]>>]
  <2> HIDE DEF I, V, stop, size, base, next, step
  <2> QED BY <1>4, Recursion DEF Computable
<1>6. \A k \in I : f[k] = IF k = 0 THEN {<<>>} ELSE Step(k, f[k - 1])
  <2> TAKE k \in I
  <2>1. CASE k = 0
    BY <1>5, <2>1
  <2>2. CASE k # 0
    <3>1. k \notin stop /\ next[k] = k - 1 /\ k - 1 \in I
      BY <1>1, <2>2
    <3>2. f[k - 1] \in V /\ f[k] = step[<<k, f[k - 1]>>]
      <4> HIDE DEF I, V, stop, step, base, next
      <4> QED BY <1>5, <3>1
    <3> HIDE DEF I, V, Step
    <3> QED BY <2>2, <3>2
  <2> QED BY <2>1, <2>2
<1>7. f = [k \in I |-> IF k = 0 THEN {<<>>} ELSE Step(k, f[k - 1])]
  <2> HIDE DEF I, V, Step
  <2> QED BY <1>5, <1>6, Zenon
<1>8. orders = [k \in I |-> IF k = 0 THEN {<<>>} ELSE Step(k, orders[k - 1])]
  <2> HIDE DEF I, Step
  <2> QED BY <1>7, Zenon
<1>9. Orders(s) = orders[n]
  BY DEF Orders
<1> HIDE DEF orders
<1>10. \A k \in I : orders[k] = IF k = 0 THEN {<<>>} ELSE Step(k, orders[k - 1])
  <2> HIDE DEF I, Step
  <2> QED BY <1>8, Zenon
<1>11. \A k \in I : orders[k] \in V
  <2>1. Obeys(orders, I, V, stop, base, next, step)
    <3>1. ASSUME NEW k \in I, k \notin stop, orders[next[k]] \in V
          PROVE  orders[k] = step[<<k, orders[next[k]]>>]
      <4>1. k # 0 /\ next[k] = k - 1
        BY <3>1
      <4>2. orders[k] = Step(k, orders[k - 1])
        <5> HIDE DEF I, Step
        <5> QED BY <1>10, <4>1
      <4>3. step[<<k, orders[k - 1]>>] = Step(k, orders[k - 1])
        <5> HIDE DEF I, V, next, Step
        <5> QED BY <3>1, <4>1
      <4> HIDE DEF Step, step, next
      <4> QED BY <4>1, <4>2, <4>3
    <3>2. ASSUME NEW k \in I, k \in stop PROVE orders[k] = base[k]
      BY <1>10, <3>2
    <3> HIDE DEF I, V, stop, step, base, next
    <3> QED BY <3>1, <3>2 DEF Obeys
  <2> HIDE DEF I, V, stop, step, size, base, next
  <2> QED BY <1>4, <2>1, RecursionType
<1> DEFINE Right == {k \in Nat : k \in I =>
                        \A r \in orders[k] : \A S : Occurs(r, S) = Occurs(SubSeq(s, 1, k), S)}
<1> HIDE DEF V
<1>12. 0 \in Right
  <2>1. orders[0] = {<<>>}
    <3>1. 0 \in I
      BY <1>1
    <3> HIDE DEF I, Step
    <3> QED BY <1>10, <3>1
  <2>2. SubSeq(s, 1, 0) = <<>>
    OBVIOUS
  <2> QED BY <2>1, <2>2
<1>13. ASSUME NEW k \in Nat, k \in Right PROVE k + 1 \in Right
  <2> SUFFICES ASSUME k + 1 \in I, NEW r \in orders[k + 1], NEW S
               PROVE  Occurs(r, S) = Occurs(SubSeq(s, 1, k + 1), S)
    OBVIOUS
  <2>1. k \in I /\ k + 1 # 0 /\ (k + 1) - 1 = k /\ k + 1 \in 1..n
    BY <1>1
  <2>2. r \in Step(k + 1, orders[k])
    <3>1. orders[k + 1] = Step(k + 1, orders[(k + 1) - 1])
      <4> HIDE DEF I, Step
      <4> QED BY <1>10, <2>1
    <3> HIDE DEF Step
    <3> QED BY <2>1, <3>1
  <2>3. PICK u \in orders[k] : \E i \in 1..(Len(u) + 1) : r = InsertAt(u, i, s[k + 1])
    BY <2>2
  <2>4. u \in Seq(T)
    BY <1>11, <2>1 DEF V
  <2>5. Occurs(r, S) = Occurs(u, S) + Occurs(<<s[k + 1]>>, S)
    BY <1>1, <2>1, <2>3, <2>4, OneMore
  <2>6. Occurs(u, S) = Occurs(SubSeq(s, 1, k), S)
    BY <1>13, <2>1
  <2> DEFINE a == SubSeq(s, 1, k)
             x == s[k + 1]
  <2>7. SubSeq(s, 1, k + 1) = a \o <<x>> /\ a \in Seq(T)
    <3>1. a \in Seq(T) /\ Len(a) = k /\ \A j \in 1..k : a[j] = s[j]
      BY <1>1, <2>1
    <3>2. Append(a, x) = a \o <<x>>
      <4> HIDE DEF a, x
      <4> QED BY <3>1, AppendIsConcat
    <3>3. SubSeq(s, 1, k + 1) = Append(a, x)
      <4> DEFINE c == SubSeq(s, 1, k + 1)
                 d == Append(a, x)
      <4>1. c \in Seq(T) /\ Len(c) = k + 1 /\ \A j \in 1..(k + 1) : c[j] = s[j]
        BY <1>1, <2>1
      <4>2. x \in T
        BY <1>1, <2>1
      <4>3. d \in Seq(T) /\ Len(d) = k + 1 /\ \A j \in 1..(k + 1) : d[j] = s[j]
        <5>1. x = s[k + 1]
          OBVIOUS
        <5> HIDE DEF a, x
        <5> QED BY <3>1, <4>2, <5>1
      <4> HIDE DEF c, d
      <4> QED BY <4>1, <4>3
    <3> QED BY <3>1, <3>2, <3>3
  <2>8. x \in T
    BY <1>1, <2>1
  <2> HIDE DEF a
  <2>9. <<x>> \in Seq(T)
    BY <2>8
  <2> HIDE DEF x
  <2>10. Occurs(a \o <<x>>, S) = Occurs(a, S) + Occurs(<<x>>, S)
    BY <2>7, <2>9, OccursConcat
  <2> QED BY <2>5, <2>6, <2>7, <2>10 DEF a, x
<1>14. \A k \in Nat : k \in Right
  <2> HIDE DEF Right
  <2> QED BY <1>12, <1>13, SetInduction
<1>15. n \in I
  BY <1>1
<1>16. p \in Seq(T)
  BY <1>9, <1>11, <1>15 DEF V
<1>17. \A S : Occurs(p, S) = Occurs(SubSeq(s, 1, n), S)
  BY <1>1, <1>9, <1>14, <1>15, Zenon
<1>18. SubSeq(s, 1, n) = s
  BY SubSeqFull
<1> QED BY <1>16, <1>17, <1>18

-----------------------------------------------------------------------------
(* The state of a search *)

\* A line found, as NextLine makes it of a line of the log.
Find(service, l) ==
    [channel |-> l.channel, line |-> [view |-> View(service, l), own |-> TRUE]]
Finds(service) == {Find(service, l) : l \in {l \in Written : Reads(service, l)}}
Progress ==
    /\ stage \in {"idle", "downloading", "searching", "answered", "rejected"}
    /\ stage = "downloading" => it <= Len(targets)
    /\ stage = "searching" => it > 1 /\ lines \in Seq(ViewsOf(query.service, targets[it - 1]))
    /\ stage # "searching" => lines = <<>>
    /\ stage = "answered" => it = Len(targets) + 1
    /\ stage \in {"idle", "rejected"} => it = 1 /\ found = <<>>
    /\ stage = "idle" => targets = <<>> /\ rest = <<>> /\ count = 0
SearchInv ==
    /\ period \in Periods
    /\ targets \in Seq(Targets) /\ it \in 1..(Len(targets) + 1)
    /\ count \in 0..(CountWidth - 1)
    /\ rest = <<>> \/ \E text \in Text : rest = <<text>>
    /\ rest # <<>> => stage = "searching" /\ ~query.find
    /\ stage \notin {"idle", "rejected"} =>
        /\ query \in Queries /\ targets = TargetsOf(query, period)
        /\ found \in Seq(Finds(query.service))
    /\ Progress

\* A line of a log is too long to be held inside a string, by InlineAssumption.
LEMMA WrittenIsLong ==
    ASSUME NEW service \in Services, NEW l \in Written
    PROVE  View(service, l).size > Inline
<1>1. View(service, l).size = Len(Write(service, l))
  BY DEF View
<1>2. Len(Write(service, l)) > 5 /\ Len(Write(service, l)) \in Nat
  BY ReadsRow
<1>3. Inline <= 5 /\ Inline \in Nat
  BY InlineAssumption
<1> QED BY <1>1, <1>2, <1>3

\* What was found and is moved is what was found: the move leaves no line behind.
LEMMA MovesKeep ==
    ASSUME NEW service \in Services, NEW s \in Seq(Finds(service))
    PROVE  [i \in DOMAIN s |-> [s[i] EXCEPT !.line = MoveLine(@)]] = s
<1>1. DOMAIN s = 1..Len(s) /\ \A i \in DOMAIN s : s[i] \in Finds(service)
  OBVIOUS
<1>2. ASSUME NEW i \in DOMAIN s
      PROVE  [s[i] EXCEPT !.line = MoveLine(@)] = s[i]
  <2>1. PICK l \in Written : s[i] = Find(service, l)
    BY <1>1 DEF Finds
  <2> DEFINE f == Find(service, l)
             v == View(service, l)
  <2>2. v.size > Inline
    BY WrittenIsLong
  <2>3. f = [channel |-> l.channel, line |-> [view |-> v, own |-> TRUE]]
    BY DEF Find
  <2> HIDE DEF f, v
  <2>4. f.line = [view |-> v, own |-> TRUE]
    BY <2>3
  <2>5. MoveLine(f.line) = f.line
    <3> DEFINE x == f.line
               b == x.own /\ x.view.size > Inline
    <3>1. x = [view |-> v, own |-> TRUE]
      BY <2>4
    <3> HIDE DEF x
    <3>2. x.own /\ x.view = v
      BY <3>1
    <3>3. b = TRUE
      BY <2>2, <3>2, Zenon
    <3>4. MoveLine(x) = [x EXCEPT !.own = b]
      BY Zenon DEF MoveLine
    <3> HIDE DEF b
    <3>5. \A t : [[view |-> v, own |-> t] EXCEPT !.own = t] = [view |-> v, own |-> t]
      OBVIOUS
    <3> QED BY <3>1, <3>3, <3>4, <3>5, Zenon DEF x
  <2>6. [f EXCEPT !.line = MoveLine(@)] = f
    BY <2>3, <2>5
  <2> QED BY <2>1, <2>6 DEF f
<1>3. s = [i \in DOMAIN s |-> s[i]]
  BY <1>1
<1> QED BY <1>2, <1>3, Zenon

\* A line of the log of a target.
LEMMA FromTarget ==
    ASSUME NEW service \in Services, NEW target, NEW view \in ViewsOf(service, target)
    PROVE  \E l \in Written :
              /\ Reads(service, l) /\ InLog(l, target) /\ view = View(service, l)
              /\ view.time = l.time /\ view.text = l.text /\ l.text \in Text
              /\ [channel |-> target.channel, line |-> CopyLine(view)] = Find(service, l)
<1>1. PICK l \in Written : Reads(service, l) /\ InLog(l, target) /\ view = View(service, l)
  BY DEF ViewsOf, LinesOf
<1>2. l.channel = target.channel
  BY <1>1 DEF InLog
<1>3. [channel |-> target.channel, line |-> CopyLine(view)] = Find(service, l)
  BY <1>1, <1>2 DEF Find, CopyLine
<1>4. view.time = l.time /\ view.text = l.text
  BY <1>1 DEF View
<1> QED BY <1>1, <1>3, <1>4, Composed

\* Growing the vector adds the line that was found and keeps the others.
LEMMA GrownIs ==
    ASSUME NEW service \in Services, NEW s \in Seq(Finds(service)), NEW target,
           NEW view \in ViewsOf(service, target), NEW l \in Written, Reads(service, l),
           [channel |-> target.channel, line |-> CopyLine(view)] = Find(service, l)
    PROVE  /\ Grown(s, target.channel, view) = Append(s, Find(service, l))
           /\ Find(service, l) \in Finds(service)
           /\ Append(s, Find(service, l)) \in Seq(Finds(service))
<1>1. Grown(s, target.channel, view) = Append(s, Find(service, l))
  BY MovesKeep DEF Grown
<1>2. Find(service, l) \in Finds(service)
  BY DEF Finds
<1> QED BY <1>1, <1>2

\* Sorting keeps what was found, in the order of time.
LEMMA DumpedIs ==
    ASSUME NEW service \in Services, NEW s \in Seq(Finds(service)), NEW r \in Dumped(s)
    PROVE  /\ r \in Seq(Finds(service))
           /\ \A S : Occurs(r, S) = Occurs(s, S)
           /\ \A i, j \in DOMAIN r : i < j => r[i].line.view.time <= r[j].line.view.time
<1>1. /\ r \in Orders(s)
      /\ \A i, j \in DOMAIN r : i < j => r[i].line.view.time <= r[j].line.view.time
  BY MovesKeep DEF Dumped
<1> QED BY <1>1, OrdersKeep

\* It holds at first.
LEMMA InitSearch == Init => SearchInv
<1> SUFFICES ASSUME Init PROVE SearchInv
  OBVIOUS
<1>1. 0 \in Times
  <2>1. Division(Months, MonthStart, MonthOf)
    BY CalendarAssumption
  <2>2. Months \in Nat \ {0} /\ 0 \in 0..Months /\ Months \in 0..Months /\ 0 < Months
    BY <2>1 DEF Division
  <2>3. MonthStart[0] \in Nat /\ MonthStart[Months] = Ticks /\ MonthStart[0] < MonthStart[Months]
    BY <2>1, <2>2 DEF Division
  <2>4. Ticks \in Nat
    BY CalendarAssumption
  <2> QED BY <2>3, <2>4 DEF Times
<1>2. period \in Periods
  BY <1>1 DEF Init, TimePeriod, Periods, Times
<1>3. targets \in Seq(Targets) /\ it \in 1..(Len(targets) + 1)
  BY DEF Init
<1>4. count \in 0..(CountWidth - 1)
  BY SearchAssumption DEF Init
<1>5. rest = <<>> /\ lines = <<>> /\ found = <<>> /\ it = 1 /\ count = 0 /\ targets = <<>> /\ stage = "idle"
  BY DEF Init, search
<1> QED BY <1>2, <1>3, <1>4, <1>5, Zenon DEF SearchInv, Progress

\* The command that starts the query sets up its targets.
LEMMA CommandKeepsSearch ==
    ASSUME SearchInv, NEW q \in Queries, Command(q)
    PROVE  SearchInv'
<1>1. /\ period \in Periods /\ targets \in Seq(Targets) /\ it \in 1..(Len(targets) + 1)
      /\ count \in 0..(CountWidth - 1)
      /\ lines = <<>> /\ it = 1 /\ found = <<>> /\ targets = <<>> /\ rest = <<>> /\ count = 0
  BY Zenon DEF SearchInv, Progress, Command
<1>2. lines' = <<>> /\ it' = 1 /\ found' = <<>> /\ rest' = <<>> /\ count' = count /\ query' = q
  BY <1>1 DEF Command, search
<1>3. CASE Accepted(q.begin, q.end)
  <2>1. stage' = "downloading" /\ period' = parseTimePeriod(q.begin, q.end) /\ targets' = TargetsOf(q, period')
    BY <1>3 DEF Command
  <2>2. q.begin \in Seq(Nat) /\ q.end \in Seq(Nat)
    BY QueriesAssumption
  <2>3. period' \in Periods
    BY <1>3, <2>1, <2>2, AcceptedIsPeriod
  <2>4. targets' \in Seq(Targets) \ {<<>>}
    BY <2>1, <2>3, TargetsAreNamed
  <2>5. Len(targets') \in Nat \ {0} /\ targets' \in Seq(Targets)
    BY <2>4, NotEmpty
  <2>6. it' \in 1..(Len(targets') + 1) /\ it' <= Len(targets')
    BY <1>2, <2>5
  <2>7. <<>> \in Seq(Finds(q.service))
    OBVIOUS
  <2> QED BY <1>1, <1>2, <2>1, <2>3, <2>5, <2>6, <2>7, Zenon DEF SearchInv, Progress
<1>4. CASE ~Accepted(q.begin, q.end)
  <2>1. stage' = "rejected" /\ period' = period /\ targets' = targets
    BY <1>4 DEF Command
  <2> QED BY <1>1, <1>2, <2>1, Zenon DEF SearchInv, Progress
<1> QED BY <1>3, <1>4

\* The service of a query.
LEMMA ServiceOfQuery ==
    ASSUME NEW q \in Queries
    PROVE  q.service \in Services
BY QueriesAssumption DEF Services

\* A log that comes has the views of its target.
LEMMA ReceiveKeepsSearch ==
    ASSUME SearchInv, Receive
    PROVE  SearchInv'
<1>1. /\ stage = "downloading" /\ stage' = "searching" /\ it' = it + 1
      /\ query' = query /\ period' = period /\ targets' = targets /\ rest' = rest
      /\ count' = count /\ found' = found
  BY DEF Receive
<1>2. /\ period \in Periods /\ targets \in Seq(Targets) /\ it \in 1..(Len(targets) + 1)
      /\ count \in 0..(CountWidth - 1) /\ it <= Len(targets) /\ rest = <<>>
      /\ query \in Queries /\ targets = TargetsOf(query, period) /\ found \in Seq(Finds(query.service))
  <2>1. "downloading" \notin {"idle", "rejected"} /\ "downloading" # "searching"
    OBVIOUS
  <2> QED BY <1>1, <2>1, Zenon DEF SearchInv, Progress
<1>3. PICK log \in LogOf(targets[it]) : lines' = LogLines(query.service, WriteLog(query.service, log))
  BY DEF Receive
<1>4. lines' \in Seq(ViewsOf(query.service, targets[it]))
  BY <1>2, <1>3, ServiceOfQuery, LogIsParsed
<1>5. it' \in 1..(Len(targets) + 1) /\ it' > 1 /\ it' - 1 = it
  BY <1>1, <1>2
<1>6. lines' \in Seq(ViewsOf(query'.service, targets'[it' - 1]))
  BY <1>1, <1>4, <1>5
<1> QED BY <1>1, <1>2, <1>5, <1>6, Zenon DEF SearchInv, Progress

\* What is known when a log is searched.
Searching ==
    /\ stage = "searching" /\ period \in Periods
    /\ targets \in Seq(Targets) /\ it \in 1..(Len(targets) + 1) /\ it > 1
    /\ count \in 0..(CountWidth - 1)
    /\ rest = <<>> \/ \E text \in Text : rest = <<text>>
    /\ rest # <<>> => ~query.find
    /\ query \in Queries /\ targets = TargetsOf(query, period)
    /\ found \in Seq(Finds(query.service))
    /\ lines \in Seq(ViewsOf(query.service, targets[it - 1]))

\* SearchInv says so.
LEMMA SearchIsSearching == SearchInv /\ stage = "searching" => Searching
<1>1. "searching" \notin {"idle", "rejected"}
  OBVIOUS
<1> QED BY <1>1, Zenon DEF SearchInv, Progress, Searching

\* And the other way around.
LEMMA SearchingIsSearch == Searching => SearchInv
<1>1. "searching" \notin {"idle", "rejected"} /\ "searching" # "downloading" /\ "searching" # "answered"
      /\ "searching" # "idle" /\ "searching" \in {"idle", "downloading", "searching", "answered", "rejected"}
  OBVIOUS
<1> QED BY <1>1, Zenon DEF SearchInv, Progress, Searching

SameLog == /\ query' = query /\ period' = period /\ targets' = targets /\ stage' = stage /\ it' = it

\* What NextLine does, in terms of the line that was written.
LEMMA NextLineReads ==
    ASSUME Searching, NextLine
    PROVE  /\ rest = <<>> /\ lines # <<>> /\ lines' = Tail(lines) /\ count' = count /\ SameLog
           /\ \E k \in Written :
                /\ Reads(query.service, k) /\ InLog(k, targets[it - 1]) /\ Head(lines) = View(query.service, k)
                /\ k.text \in Text
                /\ rest' = IF isInside(period, k.time) /\ ~query.find THEN <<k.text>> ELSE <<>>
                /\ found' = IF isInside(period, k.time) /\ query.find /\ find_func(query, k.text)
                              THEN Append(found, Find(query.service, k)) ELSE found
                /\ found' \in Seq(Finds(query.service))
<1> DEFINE service == query.service
           target == targets[it - 1]
           view == Head(lines)
<1>1. service \in Services /\ found \in Seq(Finds(service)) /\ lines \in Seq(ViewsOf(service, target))
  BY ServiceOfQuery DEF Searching
<1>2. /\ rest = <<>> /\ lines # <<>> /\ lines' = Tail(lines) /\ count' = count /\ SameLog
      /\ rest' = IF isInside(period, view.time) /\ ~query.find THEN <<view.text>> ELSE <<>>
      /\ found' = IF isInside(period, view.time) /\ query.find /\ find_func(query, view.text)
                    THEN Grown(found, target.channel, view) ELSE found
  BY Zenon DEF NextLine, SameLog
<1>3. view \in ViewsOf(service, target)
  <2> DEFINE V == ViewsOf(service, target)
  <2> HIDE DEF V, target
  <2> QED BY <1>1, <1>2, HeadTailProperties DEF V
<1> HIDE DEF service, target, view
<1>4. PICK k \in Written :
         /\ Reads(service, k) /\ InLog(k, target) /\ view = View(service, k)
         /\ view.time = k.time /\ view.text = k.text /\ k.text \in Text
         /\ [channel |-> target.channel, line |-> CopyLine(view)] = Find(service, k)
  BY <1>1, <1>3, FromTarget
<1>5. /\ Grown(found, target.channel, view) = Append(found, Find(service, k))
      /\ Append(found, Find(service, k)) \in Seq(Finds(service))
  BY <1>1, <1>3, <1>4, GrownIs
<1>6. found' = IF isInside(period, k.time) /\ query.find /\ find_func(query, k.text)
                 THEN Append(found, Find(service, k)) ELSE found
  BY <1>2, <1>4, <1>5
<1>7. found' \in Seq(Finds(service))
  BY <1>1, <1>5, <1>6
<1>8. rest' = IF isInside(period, k.time) /\ ~query.find THEN <<k.text>> ELSE <<>>
  BY <1>2, <1>4
<1> QED BY <1>2, <1>4, <1>6, <1>7, <1>8 DEF service, target, view

\* The next line is a line of the target.
LEMMA NextLineKeepsSearch ==
    ASSUME SearchInv, NextLine
    PROVE  SearchInv'
<1>1. Searching
  BY SearchIsSearching DEF NextLine
<1> DEFINE service == query.service
           V == ViewsOf(service, targets[it - 1])
<1>2. /\ lines # <<>> /\ lines' = Tail(lines) /\ count' = count /\ SameLog
      /\ \E text \in Text, yes \in {TRUE, FALSE} :
           rest' = IF yes /\ ~query.find THEN <<text>> ELSE <<>>
      /\ found' \in Seq(Finds(service))
  BY <1>1, NextLineReads
<1>3. lines' \in Seq(V)
  <2>1. lines \in Seq(V)
    BY <1>1 DEF Searching
  <2> HIDE DEF V
  <2> QED BY <1>2, <2>1, HeadTailProperties
<1>4. (rest' = <<>> \/ \E text \in Text : rest' = <<text>>) /\ (rest' # <<>> => ~query.find)
  BY <1>2
<1>5. Searching'
  BY <1>1, <1>2, <1>3, <1>4, Zenon DEF Searching, SameLog
<1>6. SearchInv'
  BY <1>5, SearchingIsSearch, PTL
<1> QED BY <1>6

\* A turn of the loop leaves a text, and its end none.
LEMMA CountingKeepsSearch ==
    ASSUME SearchInv, CountMatch \/ NoMoreMatches
    PROVE  SearchInv'
<1>1. rest # <<>> /\ rest = <<rest[1]>> /\ rest[1] \in Text /\ ~query.find /\ stage = "searching"
  <2>1. rest # <<>>
    BY DEF CountMatch, NoMoreMatches
  <2>2. \E text \in Text : rest = <<text>>
    BY <2>1 DEF SearchInv
  <2>3. ~query.find /\ stage = "searching"
    BY <2>1 DEF SearchInv
  <2> QED BY <2>1, <2>2, <2>3
<1>2. Searching
  BY <1>1, SearchIsSearching
<1>3. /\ SameLog /\ lines' = lines /\ found' = found
      /\ rest' = <<>> \/ \E text \in Text : rest' = <<text>>
      /\ count' \in 0..(CountWidth - 1)
  <2>1. CASE CountMatch
    <3>1. MatchStarts(query, rest[1]) # {} /\ rest' = <<AfterMatch(query, rest[1])>>
      BY <2>1 DEF CountMatch
    <3>2. AfterMatch(query, rest[1]) \in Text
      BY <1>1, <1>2, <3>1, AfterMatchIsText DEF Searching
    <3>3. count' = (count + 1) % CountWidth /\ count \in Nat /\ CountWidth \in Nat \ {0}
      <4>1. count \in 0..(CountWidth - 1)
        BY <1>2 DEF Searching
      <4> QED BY <2>1, <4>1, SearchAssumption DEF CountMatch
    <3>4. count' \in 0..(CountWidth - 1)
      BY <3>3
    <3> QED BY <2>1, <3>1, <3>2, <3>4 DEF CountMatch, SameLog
  <2>2. CASE NoMoreMatches
    <3>1. count' = count
      BY <2>2 DEF NoMoreMatches
    <3> QED BY <1>2, <2>2, <3>1 DEF NoMoreMatches, SameLog, Searching
  <2> QED BY <2>1, <2>2
<1>4. Searching'
  BY <1>1, <1>2, <1>3, Zenon DEF Searching, SameLog
<1>5. SearchInv'
  BY <1>4, SearchingIsSearch, PTL
<1> QED BY <1>5

\* At the end of a log there is another target, or the query is answered.
LEMMA EndKeepsSearch ==
    ASSUME SearchInv, EndOfLog
    PROVE  SearchInv'
<1>1. Searching
  BY SearchIsSearching DEF EndOfLog
<1>2. /\ query' = query /\ period' = period /\ targets' = targets /\ it' = it /\ lines' = lines
      /\ rest' = rest /\ count' = count /\ rest = <<>> /\ lines = <<>>
  BY DEF EndOfLog
<1>3. /\ period \in Periods /\ targets \in Seq(Targets) /\ it \in 1..(Len(targets) + 1) /\ it > 1
      /\ count \in 0..(CountWidth - 1)
      /\ query \in Queries /\ targets = TargetsOf(query, period)
      /\ found \in Seq(Finds(query.service))
  BY <1>1 DEF Searching
<1>4. CASE it <= Len(targets)
  <2>1. stage' = "downloading" /\ found' = found
    BY <1>4 DEF EndOfLog
  <2> QED BY <1>2, <1>3, <1>4, <2>1 DEF SearchInv, Progress
<1>5. CASE ~(it <= Len(targets))
  <2>1. stage' = "answered" /\ found' \in Dumped(found)
    BY <1>5 DEF EndOfLog
  <2>2. it = Len(targets) + 1
    BY <1>3, <1>5
  <2>3. found' \in Seq(Finds(query.service))
    BY <1>3, <2>1, DumpedIs, ServiceOfQuery
  <2>4. period' \in Periods /\ targets' \in Seq(Targets) /\ it' \in 1..(Len(targets') + 1) /\ it' = Len(targets') + 1
    BY <1>2, <1>3, <2>2
  <2>5. rest' = <<>> /\ lines' = <<>> /\ count' \in 0..(CountWidth - 1)
    BY <1>2, <1>3
  <2>6. query' \in Queries /\ targets' = TargetsOf(query', period') /\ found' \in Seq(Finds(query'.service))
    BY <1>2, <1>3, <2>3
  <2>7. stage' # "searching" /\ stage' # "downloading" /\ stage' \notin {"idle", "rejected"} /\ stage' # "idle"
        /\ stage' \in {"idle", "downloading", "searching", "answered", "rejected"}
    BY <2>1
  <2> QED BY <2>4, <2>5, <2>6, <2>7, Zenon DEF SearchInv, Progress
<1> QED BY <1>4, <1>5

\* The invariant of a search.
LEMMA SearchInvHolds == Spec => []SearchInv
<1>1. Init => SearchInv
  BY InitSearch
<1>2. SearchInv /\ [Next]_vars => SearchInv'
  <2> SUFFICES ASSUME SearchInv, [Next]_vars PROVE SearchInv'
    OBVIOUS
  <2>1. CASE UNCHANGED vars
    <3>1. UNCHANGED <<stage, query, period, targets, it, lines, rest, count, found>>
      BY <2>1 DEF vars, search
    <3> QED BY <3>1, Zenon DEF SearchInv, Progress
  <2>2. ASSUME NEW q \in Queries, Command(q) PROVE SearchInv'
    BY <2>2, CommandKeepsSearch
  <2>3. CASE Receive
    BY <2>3, ReceiveKeepsSearch
  <2>4. CASE NextLine
    BY <2>4, NextLineKeepsSearch
  <2>5. CASE CountMatch \/ NoMoreMatches
    BY <2>5, CountingKeepsSearch
  <2>6. CASE EndOfLog
    BY <2>6, EndKeepsSearch
  <2> QED BY <2>1, <2>2, <2>3, <2>4, <2>5, <2>6 DEF Next, Search
<1> QED BY <1>1, <1>2, PTL DEF Spec

\* TypeOK, for every set of commands, calendar and width of the counter: it never points past the
\* targets, and the counter stays below its width.
THEOREM SearchTyped == Spec => []TypeOK
<1>1. SearchInv => TypeOK
  <2> SUFFICES ASSUME SearchInv PROVE TypeOK
    OBVIOUS
  <2>1. Len(rest) <= 1
    <3>1. \A text : Len(<<text>>) <= 1
      OBVIOUS
    <3>2. Len(<<>>) <= 1
      OBVIOUS
    <3> QED BY <3>1, <3>2, Zenon DEF SearchInv
  <2> QED BY <2>1, Zenon DEF SearchInv, Progress, TypeOK
<1> QED BY <1>1, SearchInvHolds, PTL

\* FoundViewsOwn: however the lines that a find has are copied, moved by a vector that grows, and
\* sorted (Log::Line), each of them has the views of its own text.
THEOREM FoundAreTheirOwn == Spec => []FoundViewsOwn
<1>1. SearchInv => FoundViewsOwn
  <2> SUFFICES ASSUME SearchInv, NEW i \in DOMAIN found PROVE found[i].line.own
    BY DEF FoundViewsOwn
  <2>1. found # <<>> => found \in Seq(Finds(query.service))
    BY Zenon DEF SearchInv, Progress
  <2>2. found # <<>>
    OBVIOUS
  <2>3. found[i] \in Finds(query.service)
    BY <2>1, <2>2
  <2>4. PICK l \in Written : found[i] = Find(query.service, l)
    BY <2>3 DEF Finds
  <2>5. found[i].line.own = TRUE
    BY <2>4 DEF Find
  <2> QED BY <2>5
<1> QED BY <1>1, SearchInvHolds, PTL

-----------------------------------------------------------------------------
(* How much of a query is done *)

\* How many of the logs so far have a line, and how much of that is not searched yet.
Done(l) == Occurs(SubSeq(targets, 1, it - 1), LogsWith(l))
Pending(l) ==
    IF l.channel = targets[it - 1].channel THEN Occurs(lines, {View(query.service, l)}) ELSE 0

\* Done is a number.
LEMMA DoneIsNat ==
    ASSUME SearchInv, NEW l \in Written
    PROVE  Done(l) \in Nat
<1>1. targets \in Seq(Targets) /\ it \in 1..(Len(targets) + 1)
  BY Zenon DEF SearchInv
<1>2. SubSeq(targets, 1, it - 1) \in Seq(Targets)
  BY <1>1
<1> QED BY <1>2, OccursType DEF Done

\* Pending is a number, and nothing is pending when no lines are left.
LEMMA PendingIsNat ==
    ASSUME SearchInv, NEW l \in Written
    PROVE  Pending(l) \in Nat /\ (lines = <<>> => Pending(l) = 0)
<1>1. CASE lines = <<>>
  <2>1. Occurs(lines, {View(query.service, l)}) = 0
    BY <1>1, OccursOne
  <2> QED BY <2>1 DEF Pending
<1>2. CASE lines # <<>>
  <2> DEFINE V == ViewsOf(query.service, targets[it - 1])
             S == {View(query.service, l)}
  <2>1. lines \in Seq(V)
    BY <1>2 DEF SearchInv, Progress
  <2> HIDE DEF V, S
  <2>2. Occurs(lines, S) \in Nat
    BY <2>1, OccursType
  <2> QED BY <1>2, <2>2 DEF Pending, S
<1> QED BY <1>1, <1>2

\* A log that is received is to be searched.
LEMMA ReceiveAdds ==
    ASSUME SearchInv, Receive, NEW l \in Written, Reads(query.service, l)
    PROVE  Pending(l) = 0 /\ Done(l)' = Done(l) + Pending(l)'
<1>1. /\ stage = "downloading" /\ it' = it + 1 /\ query' = query /\ targets' = targets
  BY DEF Receive
<1>2. /\ targets \in Seq(Targets) /\ it \in 1..(Len(targets) + 1) /\ it <= Len(targets)
      /\ query \in Queries /\ lines = <<>>
  <2>1. "downloading" \notin {"idle", "rejected"} /\ "downloading" # "searching"
    OBVIOUS
  <2> QED BY <1>1, <2>1, Zenon DEF SearchInv, Progress
<1> DEFINE target == targets[it]
           S == {View(query.service, l)}
           b == IF InLog(l, target) THEN 1 ELSE 0
<1>3. PICK log \in LogOf(target) : lines' = LogLines(query.service, WriteLog(query.service, log))
  BY DEF Receive
<1>4. l.channel = target.channel => Occurs(lines', S) = b
  <2> HIDE DEF target
  <2>1. l.channel = target.channel =>
            Occurs(lines', S) = IF InLog(l, target) /\ Reads(query.service, l) THEN 1 ELSE 0
    BY <1>2, <1>3, ServiceOfQuery, LogIsParsed
  <2> HIDE DEF S
  <2> QED BY <2>1
<1>5. Pending(l)' = IF l.channel = target.channel THEN Occurs(lines', S) ELSE 0
  <2>1. it' - 1 = it
    BY <1>1, <1>2
  <2> QED BY <1>1, <2>1 DEF Pending
<1>6. Pending(l)' = b
  <2>1. InLog(l, target) => l.channel = target.channel
    BY DEF InLog
  <2> HIDE DEF S, target
  <2> QED BY <1>4, <1>5, <2>1
<1>7. Done(l)' = Done(l) + b
  <2> DEFINE a == SubSeq(targets, 1, it - 1)
             L == LogsWith(l)
  <2>1. a \in Seq(Targets) /\ target \in Targets /\ SubSeq(targets, 1, it) = Append(a, target)
    <3>1. it - 1 \in 0..(Len(targets) - 1) /\ (it - 1) + 1 = it
      BY <1>2
    <3> QED BY <1>2, <3>1, OneMoreOf
  <2>2. Done(l)' = Occurs(SubSeq(targets, 1, it), L)
    <3>1. it' - 1 = it
      BY <1>1, <1>2
    <3> QED BY <1>1, <3>1 DEF Done
  <2>3. Done(l) = Occurs(a, L)
    BY DEF Done
  <2> HIDE DEF a, L, target
  <2>4. Occurs(Append(a, target), L) = Occurs(a, L) + (IF target \in L THEN 1 ELSE 0)
    BY <2>1, OccursAppend
  <2>5. target \in L <=> InLog(l, target)
    BY <2>1 DEF L, LogsWith
  <2> QED BY <2>1, <2>2, <2>3, <2>4, <2>5
<1>8. Pending(l) = 0
  BY <1>2, PendingIsNat
<1> QED BY <1>6, <1>7, <1>8

\* A line that is searched is not pending any more.
LEMMA NextLineTakes ==
    ASSUME SearchInv, Searching, lines # <<>>, lines' = Tail(lines), SameLog,
           NEW k \in Written, InLog(k, targets[it - 1]), Head(lines) = View(query.service, k),
           NEW l \in Written
    PROVE  /\ Done(l)' = Done(l)
           /\ Pending(l) = Pending(l)' + (IF l = k THEN 1 ELSE 0) /\ Pending(l)' \in Nat
<1>1. query' = query /\ targets' = targets /\ it' = it
  BY DEF SameLog
<1>2. Done(l)' = Done(l)
  BY <1>1 DEF Done
<1> DEFINE target == targets[it - 1]
           V == ViewsOf(query.service, target)
           S == {View(query.service, l)}
<1>3. lines \in Seq(V)
  BY DEF Searching
<1>4. Pending(l) = IF l.channel = target.channel THEN Occurs(lines, S) ELSE 0
  BY DEF Pending
<1>5. Pending(l)' = IF l.channel = target.channel THEN Occurs(Tail(lines), S) ELSE 0
  BY <1>1 DEF Pending
<1>6. Head(lines) \in S /\ l.channel = target.channel <=> l = k
  <2>1. k.channel = target.channel
    BY DEF InLog
  <2>2. ASSUME View(query.service, k) = View(query.service, l), l.channel = k.channel PROVE l = k
    <3>1. k.time = l.time /\ <<k.user>> = <<l.user>> /\ k.text = l.text
      BY <2>2 DEF View
    <3>2. k.user = l.user
      BY <3>1
    <3> QED BY <2>2, <3>1, <3>2, SameView
  <2> QED BY <2>1, <2>2
<1> HIDE DEF S, V, target
<1>7. /\ Occurs(lines, S) = (IF Head(lines) \in S THEN 1 ELSE 0) + Occurs(Tail(lines), S)
      /\ Occurs(Tail(lines), S) \in Nat
  <2>1. Tail(lines) \in Seq(V)
    BY <1>3, HeadTailProperties
  <2> QED BY <1>3, <2>1, OccursTail, OccursType
<1> QED BY <1>2, <1>4, <1>5, <1>6, <1>7

\* At the end each line of the period was searched as often as the lists name it.
LEMMA AllAreSearched ==
    ASSUME SearchInv, stage = "answered", NEW l \in Written, isInside(period, l.time)
    PROVE  Done(l) = Named(l) /\ Pending(l) = 0
<1>1. /\ targets \in Seq(Targets) /\ it = Len(targets) + 1 /\ lines = <<>>
      /\ query \in Queries /\ targets = TargetsOf(query, period) /\ period \in Periods
  <2>1. "answered" \notin {"idle", "rejected"} /\ "answered" # "searching"
    OBVIOUS
  <2> QED BY <2>1, Zenon DEF SearchInv, Progress
<1>2. SubSeq(targets, 1, it - 1) = targets
  <2>1. it - 1 = Len(targets)
    BY <1>1
  <2> QED BY <1>1, <2>1, SubSeqFull
<1>3. Done(l) = Occurs(TargetsOf(query, period), LogsWith(l))
  BY <1>1, <1>2 DEF Done
<1>4. Occurs(TargetsOf(query, period), LogsWith(l)) =
        Naming(query.channels, l.channel) * (IF query.all_users THEN 1 ELSE Naming(query.users, l.user))
  BY <1>1, TargetsAreNamed
<1> QED BY <1>1, <1>3, <1>4, PendingIsNat DEF Named

-----------------------------------------------------------------------------
(* Finding *)

\* The lines a find is to give, and how often it has given them.
Wanted(l) ==
    /\ query.find /\ Reads(query.service, l) /\ isInside(period, l.time)
    /\ find_func(query, l.text)
Given(l) == Occurs(found, {Find(query.service, l)})
Settled(l) == /\ Wanted(l) => Given(l) + Pending(l) = Done(l)
              /\ ~Wanted(l) => Given(l) = 0
Ordered == \A i, j \in DOMAIN found : i < j => found[i].line.view.time <= found[j].line.view.time
FindInv ==
    /\ stage \notin {"idle", "rejected"} => \A l \in Written : Settled(l)
    /\ stage = "answered" => Ordered

\* Lines that differ are found as lines that differ.
LEMMA FindsDiffer ==
    ASSUME NEW service \in Services, NEW k \in Written, NEW l \in Written,
           Find(service, k) = Find(service, l)
    PROVE  k = l
<1>1. /\ Find(service, k).channel = k.channel /\ Find(service, l).channel = l.channel
      /\ Find(service, k).line.view = View(service, k) /\ Find(service, l).line.view = View(service, l)
  BY DEF Find
<1>2. k.channel = l.channel /\ View(service, k) = View(service, l)
  BY <1>1
<1>3. k.time = l.time /\ <<k.user>> = <<l.user>> /\ k.text = l.text
  BY <1>2 DEF View
<1>4. k.user = l.user
  BY <1>3
<1> QED BY <1>2, <1>3, <1>4, SameView

\* Given is a number.
LEMMA GivenIsNat ==
    ASSUME SearchInv, stage \notin {"idle", "rejected"}, NEW l \in Written
    PROVE  Given(l) \in Nat
<1>1. found \in Seq(Finds(query.service))
  BY DEF SearchInv
<1> QED BY <1>1, OccursType DEF Given

\* Before the first log nothing is done, pending or given.
LEMMA CommandSettles ==
    ASSUME SearchInv, NEW q \in Queries, Command(q)
    PROVE  FindInv'
<1>1. stage = "idle" /\ stage' \in {"downloading", "rejected"} /\ it' = it /\ lines' = lines /\ found' = found
  BY DEF Command, search
<1>2. it = 1 /\ lines = <<>> /\ found = <<>>
  BY <1>1 DEF SearchInv, Progress
<1>3. ASSUME NEW l \in Written PROVE Settled(l)'
  <2>1. Given(l)' = 0
    <3>1. Given(l)' = Occurs(<<>>, {Find(query'.service, l)})
      BY <1>1, <1>2 DEF Given
    <3> QED BY <3>1, OccursOne
  <2>2. Pending(l)' = 0
    <3>1. lines' = <<>>
      BY <1>1, <1>2
    <3>2. Occurs(<<>>, {View(query'.service, l)}) = 0
      BY OccursOne
    <3> QED BY <3>1, <3>2 DEF Pending
  <2>3. Done(l)' = 0
    <3>1. it' - 1 = 0
      BY <1>1, <1>2
    <3>2. SubSeq(targets', 1, 0) = <<>>
      OBVIOUS
    <3>3. Occurs(<<>>, LogsWith(l)) = 0
      BY OccursOne
    <3> QED BY <3>1, <3>2, <3>3 DEF Done
  <2> QED BY <2>1, <2>2, <2>3 DEF Settled
<1>4. stage' # "answered"
  BY <1>1
<1> QED BY <1>3, <1>4 DEF FindInv

\* A log that comes makes its lines pending.
LEMMA ReceiveSettles ==
    ASSUME SearchInv, FindInv, Receive
    PROVE  FindInv'
<1>1. stage = "downloading" /\ stage' = "searching" /\ query' = query /\ period' = period /\ found' = found
  BY DEF Receive
<1>2. ASSUME NEW l \in Written PROVE Settled(l)'
  <2>1. Settled(l)
    BY <1>1 DEF FindInv
  <2>2. (Wanted(l)' <=> Wanted(l)) /\ Given(l)' = Given(l)
    BY <1>1 DEF Wanted, Given
  <2>3. ASSUME Wanted(l) PROVE Given(l)' + Pending(l)' = Done(l)'
    <3>1. Reads(query.service, l)
      BY <2>3 DEF Wanted
    <3>2. Pending(l) = 0 /\ Done(l)' = Done(l) + Pending(l)'
      BY <3>1, ReceiveAdds
    <3>3. Given(l) + Pending(l) = Done(l)
      BY <2>1, <2>3 DEF Settled
    <3>4. Given(l) \in Nat
      BY <1>1, GivenIsNat
    <3> DEFINE g == Given(l)
               d == Done(l)
    <3>5. g + 0 = d /\ g \in Nat /\ Given(l)' = g /\ Done(l)' = d + Pending(l)'
      BY <2>2, <3>2, <3>3, <3>4
    <3> HIDE DEF g, d
    <3>6. d = g
      BY <3>5
    <3> QED BY <3>5, <3>6
  <2> QED BY <2>1, <2>2, <2>3 DEF Settled
<1> QED BY <1>1, <1>2 DEF FindInv

\* A line that is searched is given, if it is wanted, and not pending any more.
LEMMA NextLineSettles ==
    ASSUME SearchInv, FindInv, NextLine
    PROVE  FindInv'
<1>1. Searching /\ stage = "searching"
  BY SearchIsSearching DEF NextLine
<1>2. /\ rest = <<>> /\ lines # <<>> /\ lines' = Tail(lines) /\ count' = count /\ SameLog
      /\ \E k \in Written :
            /\ Reads(query.service, k) /\ InLog(k, targets[it - 1]) /\ Head(lines) = View(query.service, k)
            /\ k.text \in Text
            /\ rest' = IF isInside(period, k.time) /\ ~query.find THEN <<k.text>> ELSE <<>>
            /\ found' = IF isInside(period, k.time) /\ query.find /\ find_func(query, k.text)
                          THEN Append(found, Find(query.service, k)) ELSE found
            /\ found' \in Seq(Finds(query.service))
  BY <1>1, NextLineReads
<1>3. PICK k \in Written :
            /\ Reads(query.service, k) /\ InLog(k, targets[it - 1]) /\ Head(lines) = View(query.service, k)
            /\ found' = IF isInside(period, k.time) /\ query.find /\ find_func(query, k.text)
                          THEN Append(found, Find(query.service, k)) ELSE found
  BY <1>2, Zenon
<1>4. query' = query /\ period' = period /\ stage' = stage
  BY <1>2 DEF SameLog
<1>5. found' = IF Wanted(k) THEN Append(found, Find(query.service, k)) ELSE found
  BY <1>3 DEF Wanted
<1>6. found \in Seq(Finds(query.service)) /\ query.service \in Services
  BY <1>1, ServiceOfQuery DEF Searching
<1>7. ASSUME NEW l \in Written PROVE Settled(l)'
  <2>1. Settled(l)
    BY <1>1 DEF FindInv
  <2>2. Wanted(l)' <=> Wanted(l)
    BY <1>4 DEF Wanted
  <2>3. Given(l)' = Given(l) + (IF Wanted(k) /\ l = k THEN 1 ELSE 0)
    <3> DEFINE S == {Find(query.service, l)}
               x == Find(query.service, k)
               s == found
    <3>1. Given(l)' = Occurs(found', S) /\ Given(l) = Occurs(s, S)
      BY <1>4 DEF Given
    <3>2. x \in S <=> l = k
      BY <1>6, FindsDiffer
    <3>3. CASE Wanted(k)
      <4>1. x \in Finds(query.service)
        BY <1>3 DEF Finds
      <4>2. found' = Append(s, x)
        BY <1>5, <3>3
      <4> HIDE DEF S, x, s
      <4>3. Occurs(Append(s, x), S) = Occurs(s, S) + (IF x \in S THEN 1 ELSE 0)
        <5>1. s \in Seq(Finds(query.service))
          BY <1>6 DEF s
        <5> DEFINE T == Finds(query.service)
        <5>2. s \in Seq(T) /\ x \in T
          BY <4>1, <5>1
        <5> HIDE DEF T
        <5> QED BY <5>2, OccursAppend
      <4> QED BY <3>1, <3>2, <3>3, <4>2, <4>3
    <3>4. CASE ~Wanted(k)
      <4>1. found' = s
        BY <1>5, <3>4
      <4>2. Given(l) \in Nat
        BY <1>1, GivenIsNat
      <4> HIDE DEF S, x, s
      <4> QED BY <3>1, <3>4, <4>1, <4>2
    <3> QED BY <3>3, <3>4
  <2>4. /\ Done(l)' = Done(l)
        /\ Pending(l) = Pending(l)' + (IF l = k THEN 1 ELSE 0) /\ Pending(l)' \in Nat
    BY <1>1, <1>2, <1>3, NextLineTakes
  <2>5. Given(l) \in Nat
    BY <1>1, GivenIsNat
  <2> DEFINE g == Given(l)
             h == Given(l)'
             p == Pending(l)
             r == Pending(l)'
             d == Done(l)
             e == Done(l)'
  <2>6. ASSUME Wanted(l) PROVE h + r = e
    <3>1. l = k => Wanted(k)
      BY <2>6
    <3>2. g + p = d
      BY <2>1, <2>6 DEF Settled
    <3>3. h = g + (IF l = k THEN 1 ELSE 0)
      BY <2>3, <3>1
    <3>4. e = d /\ p = r + (IF l = k THEN 1 ELSE 0) /\ r \in Nat /\ g \in Nat
      BY <2>4, <2>5
    <3> HIDE DEF g, h, p, r, d, e
    <3> QED BY <3>2, <3>3, <3>4
  <2>7. ASSUME ~Wanted(l) PROVE h = 0
    <3>1. ~(Wanted(k) /\ l = k)
      BY <2>7
    <3>2. g = 0
      BY <2>1, <2>7 DEF Settled
    <3>3. h = g + 0
      BY <2>3, <3>1
    <3> HIDE DEF g, h
    <3> QED BY <3>2, <3>3
  <2> QED BY <2>2, <2>6, <2>7, Zenon DEF Settled
<1> QED BY <1>1, <1>4, <1>7 DEF FindInv

\* Going on to the next log changes nothing, and the answer is sorted.
LEMMA EndSettles ==
    ASSUME SearchInv, FindInv, EndOfLog
    PROVE  FindInv'
<1>1. Searching /\ stage = "searching"
  BY SearchIsSearching DEF EndOfLog
<1>2. /\ query' = query /\ period' = period /\ targets' = targets /\ it' = it /\ lines' = lines
  BY DEF EndOfLog
<1>3. found \in Seq(Finds(query.service)) /\ query.service \in Services
  BY <1>1, ServiceOfQuery DEF Searching
<1>4. /\ \A S : Occurs(found', S) = Occurs(found, S)
      /\ stage' = "answered" => Ordered'
  <2>1. CASE it <= Len(targets)
    BY <2>1 DEF EndOfLog
  <2>2. CASE ~(it <= Len(targets))
    <3>1. found' \in Dumped(found)
      BY <2>2 DEF EndOfLog
    <3> DEFINE r == found'
    <3>2. r \in Dumped(found)
      BY <3>1
    <3> HIDE DEF r
    <3>3. /\ \A S : Occurs(r, S) = Occurs(found, S)
          /\ \A i, j \in DOMAIN r : i < j => r[i].line.view.time <= r[j].line.view.time
      BY <1>3, <3>2, DumpedIs
    <3> QED BY <3>3 DEF r, Ordered
  <2> QED BY <2>1, <2>2
<1>5. ASSUME NEW l \in Written PROVE Settled(l)'
  <2>1. Settled(l)
    BY <1>1 DEF FindInv
  <2>2. /\ Wanted(l)' <=> Wanted(l)
        /\ Given(l)' = Given(l) /\ Done(l)' = Done(l) /\ Pending(l)' = Pending(l)
    BY <1>2, <1>4 DEF Wanted, Given, Done, Pending
  <2> QED BY <2>1, <2>2 DEF Settled
<1> QED BY <1>4, <1>5 DEF FindInv

\* The invariant of a find.
LEMMA FindInvHolds == Spec => []FindInv
<1>1. Init => FindInv
  <2>1. stage = "idle" => stage \in {"idle", "rejected"} /\ stage # "answered"
    OBVIOUS
  <2> QED BY <2>1, Zenon DEF Init, FindInv
<1>2. SearchInv /\ FindInv /\ [Next]_vars => FindInv'
  <2> SUFFICES ASSUME SearchInv, FindInv, [Next]_vars PROVE FindInv'
    OBVIOUS
  <2>1. ASSUME UNCHANGED <<stage, query, period, targets, it, lines, found>> PROVE FindInv'
    BY <2>1, Zenon DEF FindInv, Settled, Wanted, Given, Pending, Done, Ordered
  <2>2. CASE UNCHANGED vars
    BY <2>1, <2>2 DEF vars, search
  <2>3. ASSUME NEW q \in Queries, Command(q) PROVE FindInv'
    BY <2>3, CommandSettles
  <2>4. CASE Receive
    BY <2>4, ReceiveSettles
  <2>5. CASE NextLine
    BY <2>5, NextLineSettles
  <2>6. CASE CountMatch
    <3>1. UNCHANGED <<query, period, targets, it, lines, found>> /\ stage' = stage
      BY <2>6 DEF CountMatch
    <3> QED BY <2>1, <3>1
  <2>7. CASE NoMoreMatches
    BY <2>1, <2>7 DEF NoMoreMatches
  <2>8. CASE EndOfLog
    BY <2>8, EndSettles
  <2> QED BY <2>2, <2>3, <2>4, <2>5, <2>6, <2>7, <2>8 DEF Next, Search
<1> QED BY <1>1, <1>2, SearchInvHolds, PTL DEF Spec

\* FoundIsRight tells a line by the same parts.
LEMMA IsLineFind ==
    ASSUME NEW service \in Services, NEW k \in Written, NEW l \in Written
    PROVE  IsLine(Find(service, k), l) <=> k = l
<1>1. /\ Find(service, k).channel = k.channel
      /\ Find(service, k).line.view = View(service, k)
  BY DEF Find
<1>2. View(service, k).time = k.time /\ View(service, k).user = <<k.user>> /\ View(service, k).text = k.text
  BY DEF View
<1>3. <<k.user>> = <<l.user>> => k.user = l.user
  OBVIOUS
<1>4. IsLine(Find(service, k), l) =>
        k.channel = l.channel /\ k.time = l.time /\ k.user = l.user /\ k.text = l.text
  BY <1>1, <1>2, <1>3 DEF IsLine
<1>5. k = l => IsLine(Find(service, k), l)
  BY <1>1, <1>2 DEF IsLine
<1> QED BY <1>4, <1>5, SameView

\* FoundIsRight: for any logs, lists and words, a find of findCommandFunc gives each line asked for
\* that has the target as often as the lists name it, in the order of time, and no other line.
THEOREM FindIsAnswered == Spec => []FoundIsRight
<1>1. SearchInv /\ FindInv => FoundIsRight
  <2> SUFFICES ASSUME SearchInv, FindInv, stage = "answered", query.find, ~query.regex
               PROVE  /\ Ordered
                      /\ \A l \in Written :
                           Cardinality({i \in DOMAIN found : IsLine(found[i], l)}) =
                              IF Asked(l) /\ MatchStarts(query, l.text) # {} THEN Named(l) ELSE 0
    BY DEF FoundIsRight, Ordered
  <2>1. stage \notin {"idle", "rejected"} /\ Ordered
    BY DEF FindInv
  <2>2. found \in Seq(Finds(query.service)) /\ query \in Queries /\ query.service \in Services
    BY <2>1, ServiceOfQuery DEF SearchInv
  <2>3. ASSUME NEW l \in Written
        PROVE  Cardinality({i \in DOMAIN found : IsLine(found[i], l)}) =
                  IF Asked(l) /\ MatchStarts(query, l.text) # {} THEN Named(l) ELSE 0
    <3>1. {i \in DOMAIN found : IsLine(found[i], l)} =
          {i \in DOMAIN found : found[i] \in {Find(query.service, l)}}
      <4>1. ASSUME NEW i \in DOMAIN found
            PROVE  IsLine(found[i], l) <=> found[i] \in {Find(query.service, l)}
        <5>1. PICK k \in Written : found[i] = Find(query.service, k)
          BY <2>2 DEF Finds
        <5>2. IsLine(found[i], l) <=> k = l
          BY <2>2, <5>1, IsLineFind
        <5>3. found[i] = Find(query.service, l) <=> k = l
          BY <2>2, <5>1, FindsDiffer
        <5> QED BY <5>2, <5>3
      <4> QED BY <4>1
    <3>2. Cardinality({i \in DOMAIN found : IsLine(found[i], l)}) = Given(l)
      BY <3>1 DEF Given, Occurs
    <3>3. Asked(l) /\ MatchStarts(query, l.text) # {} <=> Wanted(l)
      BY Zenon DEF Asked, Wanted, isInside, Reads, find_func
    <3>4. Settled(l)
      BY <2>1 DEF FindInv
    <3>5. ASSUME Wanted(l) PROVE Given(l) = Named(l)
      <4>1. Done(l) = Named(l) /\ Pending(l) = 0
        BY <3>5, AllAreSearched DEF Wanted
      <4>2. Given(l) + Pending(l) = Done(l)
        BY <3>4, <3>5 DEF Settled
      <4>3. Given(l) \in Nat
        BY <2>1, GivenIsNat
      <4> QED BY <4>1, <4>2, <4>3
    <3>6. ASSUME ~Wanted(l) PROVE Given(l) = 0
      BY <3>4, <3>6 DEF Settled
    <3> QED BY <3>2, <3>3, <3>5, <3>6
  <2> QED BY <2>1, <2>3
<1> QED BY <1>1, SearchInvHolds, FindInvHolds, PTL

-----------------------------------------------------------------------------
(* Counting *)

\* How often each line that is asked for was searched: the occurrences in all of these, but for
\* those left in the message that is searched, have been counted.
AskedFor == {l \in Written : Asked(l)}
Left == IF rest = <<>> THEN 0 ELSE Occurrences(rest[1])
Shares(seen) == [l \in AskedFor |-> seen[l] * Occurrences(l.text)]
Counting == ~query.find /\ (query.regex => OneLength)
CountsOff(seen, total, turns) ==
    /\ seen \in [AskedFor -> Nat] /\ total \in Nat /\ turns \in Nat
    /\ \A l \in AskedFor : seen[l] + Pending(l) = Done(l)
    /\ total + Left = SumFunction(Shares(seen))
    /\ total = count + turns * CountWidth
CountInv ==
    stage \notin {"idle", "rejected"} /\ Counting =>
        \E seen, total, turns : CountsOff(seen, total, turns)

\* The lines asked for are finitely many.
LEMMA AskedAreFinite == IsFiniteSet(AskedFor)
<1>1. AskedFor \in SUBSET Written /\ IsFiniteSet(Written)
  BY SearchAssumption DEF AskedFor
<1> QED BY <1>1, FS_Subset

\* The lines asked for are those that are inside the period and read.
LEMMA AskedIsInside ==
    ASSUME NEW l
    PROVE  Asked(l) <=> isInside(period, l.time) /\ Reads(query.service, l)
BY Zenon DEF Asked, isInside, Reads

\* The shares are numbers.
LEMMA SharesType ==
    ASSUME query \in Queries, Counting, NEW seen \in [AskedFor -> Nat]
    PROVE  Shares(seen) \in [AskedFor -> Nat]
<1>1. ASSUME NEW l \in AskedFor PROVE seen[l] * Occurrences(l.text) \in Nat
  <2>1. l.text \in Text
    BY Composed DEF AskedFor
  <2>2. Occurrences(l.text) \in Nat /\ seen[l] \in Nat
    BY <2>1, CountedOff DEF Counting
  <2> QED BY <2>2
<1> QED BY <1>1 DEF Shares

CountingQuery == query \in Queries /\ Counting
NothingIsZero ==
    \A seen \in [AskedFor -> Nat] :
        (\A l \in AskedFor : seen[l] = 0) => SumFunction(Shares(seen)) = 0

\* They add up to zero as long as no line is searched.
LEMMA SharesStart == CountingQuery => NothingIsZero
<1> SUFFICES ASSUME query \in Queries, Counting, NEW seen \in [AskedFor -> Nat],
                    \A l \in AskedFor : seen[l] = 0
             PROVE  SumFunction(Shares(seen)) = 0
  BY DEF CountingQuery, NothingIsZero
<1>1. Shares(seen) \in [AskedFor -> Nat]
  BY SharesType
<1>2. ASSUME NEW l \in AskedFor PROVE Shares(seen)[l] = 0
  <2>1. l.text \in Text
    BY Composed DEF AskedFor
  <2>2. Occurrences(l.text) \in Nat
    BY <2>1, CountedOff DEF Counting
  <2>3. Shares(seen)[l] = 0 * Occurrences(l.text)
    BY DEF Shares
  <2> QED BY <2>2, <2>3
<1> QED BY <1>1, <1>2, AskedAreFinite, SumOfZeros

\* A line that is searched once more adds the occurrences in it.
LEMMA SharesGrow ==
    ASSUME query \in Queries, Counting, NEW seen \in [AskedFor -> Nat], NEW k \in AskedFor
    PROVE  /\ SumFunction(Shares(seen)) \in Nat /\ Occurrences(k.text) \in Nat
           /\ SumFunction(Shares([seen EXCEPT ![k] = @ + 1])) =
                SumFunction(Shares(seen)) + Occurrences(k.text)
<1> DEFINE more == [seen EXCEPT ![k] = @ + 1]
           o == Occurrences(k.text)
           f == Shares(seen)
           g == Shares(more)
<1>1. more \in [AskedFor -> Nat] /\ more[k] = seen[k] + 1 /\ \A l \in AskedFor : l # k => more[l] = seen[l]
  OBVIOUS
<1>2. o \in Nat /\ seen[k] \in Nat
  <2>1. k.text \in Text
    BY Composed DEF AskedFor
  <2> QED BY <2>1, CountedOff DEF Counting
<1>3. f[k] = seen[k] * o /\ g[k] = more[k] * o
  BY DEF Shares
<1>4. \A l \in AskedFor : l # k => f[l] = g[l]
  <2> TAKE l \in AskedFor
  <2> HAVE l # k
  <2>1. more[l] = seen[l]
    BY <1>1
  <2>2. f[l] = seen[l] * Occurrences(l.text) /\ g[l] = more[l] * Occurrences(l.text)
    BY DEF Shares
  <2> HIDE DEF more, f, g
  <2> QED BY <2>1, <2>2
<1> HIDE DEF more
<1>5. f \in [AskedFor -> Nat] /\ g \in [AskedFor -> Nat]
  BY <1>1, SharesType
<1> HIDE DEF f, g, o
<1>6. /\ SumFunction(f) \in Nat /\ SumFunction(g) \in Nat
      /\ SumFunction(f) + g[k] = SumFunction(g) + f[k]
  BY <1>4, <1>5, AskedAreFinite, SumChange
<1>7. g[k] = f[k] + o /\ f[k] \in Nat
  <2> DEFINE a == seen[k]
  <2>1. a \in Nat /\ f[k] = a * o /\ g[k] = (a + 1) * o
    BY <1>1, <1>2, <1>3
  <2> HIDE DEF a
  <2>2. (a + 1) * o = a * o + o /\ a * o \in Nat
    BY <1>2, <2>1
  <2> QED BY <2>1, <2>2
<1>8. SumFunction(g) = SumFunction(f) + o
  <2> DEFINE sf == SumFunction(f)
             sg == SumFunction(g)
             a == f[k]
             b == g[k]
  <2>1. sf \in Nat /\ sg \in Nat /\ sf + b = sg + a /\ b = a + o /\ a \in Nat /\ o \in Nat
    BY <1>2, <1>6, <1>7
  <2> HIDE DEF sf, sg, a, b
  <2>2. sg = sf + o
    BY <2>1
  <2> QED BY <2>2 DEF sf, sg
<1> QED BY <1>2, <1>6, <1>8 DEF more, f, g, o

\* What stays as it is in the search of a query.
SameQuery == query' = query /\ period' = period

\* What a count asks for stays as it is.
LEMMA SameCounting ==
    ASSUME SameQuery
    PROVE  /\ AskedFor' = AskedFor /\ (Counting' <=> Counting)
           /\ \A t : Occurrences(t)' = Occurrences(t)
           /\ \A seen : Shares(seen)' = Shares(seen)
<1>1. query' = query /\ period' = period
  BY DEF SameQuery
<1>2. AskedFor' = AskedFor
  BY <1>1 DEF AskedFor, Asked
<1>3. Counting' <=> Counting
  BY <1>1, Zenon DEF Counting, OneLength
<1>4. \A t : Occurrences(t)' = Occurrences(t)
  BY <1>1 DEF Occurrences, Disjoint
<1>5. \A seen : Shares(seen)' = Shares(seen)
  BY <1>1, <1>2, <1>4 DEF Shares
<1> QED BY <1>2, <1>3, <1>4, <1>5

\* Before the first log nothing is searched and nothing is counted.
LEMMA CommandCounts ==
    ASSUME SearchInv, SearchInv', NEW q \in Queries, Command(q)
    PROVE  CountInv'
<1> SUFFICES ASSUME stage' \notin {"idle", "rejected"}, Counting'
             PROVE  \E seen, total, turns : CountsOff(seen, total, turns)'
  BY DEF CountInv
<1>1. /\ stage = "idle" /\ it' = it /\ lines' = lines /\ rest' = rest /\ count' = count /\ query' = q
  BY DEF Command, search
<1>2. it = 1 /\ lines = <<>> /\ rest = <<>> /\ count = 0
  BY <1>1 DEF SearchInv, Progress
<1>0. PICK seen : seen = [l \in AskedFor' |-> 0]
  OBVIOUS
<1>3. seen \in [AskedFor' -> Nat] /\ \A l \in AskedFor' : seen[l] = 0
  BY <1>0
<1>4. ASSUME NEW l \in AskedFor' PROVE Pending(l)' = 0 /\ Done(l)' = 0
  <2>1. Pending(l)' = 0
    <3>1. lines' = <<>>
      BY <1>1, <1>2
    <3>2. Occurs(<<>>, {View(query'.service, l)}) = 0
      BY OccursOne
    <3> QED BY <3>1, <3>2 DEF Pending
  <2>2. Done(l)' = 0
    <3>1. it' - 1 = 0
      BY <1>1, <1>2
    <3>2. SubSeq(targets', 1, 0) = <<>>
      OBVIOUS
    <3>3. Occurs(<<>>, LogsWith(l)) = 0
      BY OccursOne
    <3> QED BY <3>1, <3>2, <3>3 DEF Done
  <2> QED BY <2>1, <2>2
<1>5. CountingQuery' => NothingIsZero'
  BY SharesStart, PTL
<1>6. SumFunction(Shares(seen)') = 0
  <2>1. CountingQuery'
    BY <1>1 DEF CountingQuery
  <2>2. NothingIsZero'
    BY <1>5, <2>1
  <2> QED BY <1>3, <2>2 DEF NothingIsZero
<1>7. Left' = 0
  BY <1>1, <1>2 DEF Left
<1>8. 0 = count' + 0 * CountWidth /\ 0 + Left' = 0
  BY <1>1, <1>2, <1>7, SearchAssumption
<1>9. CountsOff(seen, 0, 0)'
  <2>1. \A l \in AskedFor' : seen[l] + Pending(l)' = Done(l)'
    BY <1>3, <1>4
  <2> QED BY <1>3, <1>6, <1>8, <2>1 DEF CountsOff
<1> QED BY <1>9

\* A log that comes makes its lines pending.
LEMMA ReceiveCounts ==
    ASSUME SearchInv, CountInv, Receive
    PROVE  CountInv'
<1>1. /\ stage = "downloading" /\ query' = query /\ period' = period /\ rest' = rest /\ count' = count
  BY DEF Receive
<1>2. SameQuery /\ stage \notin {"idle", "rejected"}
  BY <1>1 DEF SameQuery
<1> SUFFICES ASSUME Counting PROVE \E seen, total, turns : CountsOff(seen, total, turns)'
  BY <1>2, SameCounting DEF CountInv
<1>3. PICK seen, total, turns : CountsOff(seen, total, turns)
  BY <1>2 DEF CountInv
<1>4. AskedFor' = AskedFor /\ Shares(seen)' = Shares(seen) /\ Left' = Left
  BY <1>1, <1>2, SameCounting DEF Left
<1>5. ASSUME NEW l \in AskedFor PROVE seen[l] + Pending(l)' = Done(l)'
  <2>1. l \in Written /\ Reads(query.service, l)
    BY AskedIsInside DEF AskedFor
  <2>2. Pending(l) = 0 /\ Done(l)' = Done(l) + Pending(l)'
    BY <2>1, ReceiveAdds
  <2> DEFINE s == seen[l]
             d == Done(l)
  <2>3. s \in Nat /\ s + 0 = d /\ Done(l)' = d + Pending(l)'
    BY <1>3, <2>2 DEF CountsOff
  <2> HIDE DEF s, d
  <2>4. d = s
    BY <2>3
  <2> QED BY <2>3, <2>4 DEF s
<1>6. CountsOff(seen, total, turns)'
  BY <1>1, <1>3, <1>4, <1>5 DEF CountsOff
<1> QED BY <1>6

\* A line that is searched is left to be counted, if it is asked for.
LEMMA NextLineCounts ==
    ASSUME SearchInv, CountInv, NextLine
    PROVE  CountInv'
<1>1. Searching /\ stage = "searching"
  BY SearchIsSearching DEF NextLine
<1>2. /\ rest = <<>> /\ lines # <<>> /\ lines' = Tail(lines) /\ count' = count /\ SameLog
      /\ \E k \in Written :
            /\ Reads(query.service, k) /\ InLog(k, targets[it - 1]) /\ Head(lines) = View(query.service, k)
            /\ k.text \in Text
            /\ rest' = IF isInside(period, k.time) /\ ~query.find THEN <<k.text>> ELSE <<>>
            /\ found' = IF isInside(period, k.time) /\ query.find /\ find_func(query, k.text)
                          THEN Append(found, Find(query.service, k)) ELSE found
            /\ found' \in Seq(Finds(query.service))
  BY <1>1, NextLineReads
<1>3. SameQuery /\ stage' = stage /\ query \in Queries
  BY <1>1, <1>2 DEF SameQuery, SameLog, Searching
<1> SUFFICES ASSUME Counting PROVE \E seen, total, turns : CountsOff(seen, total, turns)'
  BY <1>1, <1>3, SameCounting DEF CountInv
<1>4. PICK k \in Written :
         /\ Reads(query.service, k) /\ InLog(k, targets[it - 1]) /\ Head(lines) = View(query.service, k)
         /\ rest' = IF isInside(period, k.time) THEN <<k.text>> ELSE <<>>
  BY <1>2 DEF Counting
<1>5. PICK seen, total, turns : CountsOff(seen, total, turns)
  BY <1>1 DEF CountInv
<1>6. /\ AskedFor' = AskedFor /\ (\A s : Shares(s)' = Shares(s))
      /\ \A t : Occurrences(t)' = Occurrences(t)
  BY <1>3, SameCounting
<1>7. ASSUME NEW l \in AskedFor
      PROVE  /\ Done(l)' = Done(l)
             /\ Pending(l) = Pending(l)' + (IF l = k THEN 1 ELSE 0) /\ Pending(l)' \in Nat
  BY <1>1, <1>2, <1>4, NextLineTakes DEF AskedFor
<1>8. k \in AskedFor <=> isInside(period, k.time)
  BY <1>4, AskedIsInside DEF AskedFor
<1>9. /\ seen \in [AskedFor -> Nat] /\ total \in Nat /\ turns \in Nat
      /\ \A l \in AskedFor : seen[l] + Pending(l) = Done(l)
      /\ total = SumFunction(Shares(seen))
      /\ total = count + turns * CountWidth
  <2>1. Left = 0
    BY <1>2 DEF Left
  <2> QED BY <1>5, <2>1 DEF CountsOff
<1>10. CASE k \in AskedFor
  <2> DEFINE more == [seen EXCEPT ![k] = @ + 1]
             o == Occurrences(k.text)
  <2>1. /\ SumFunction(Shares(seen)) \in Nat /\ o \in Nat
        /\ SumFunction(Shares(more)) = SumFunction(Shares(seen)) + o
    BY <1>3, <1>9, <1>10, SharesGrow
  <2>2. Left' = o
    <3>1. rest' = <<k.text>> /\ rest' # <<>> /\ rest'[1] = k.text
      BY <1>4, <1>8, <1>10
    <3> QED BY <1>6, <3>1 DEF Left
  <2>3. more \in [AskedFor -> Nat]
    BY <1>9, <1>10
  <2>4. ASSUME NEW l \in AskedFor PROVE more[l] + Pending(l)' = Done(l)'
    <3>1. more[l] = seen[l] + (IF l = k THEN 1 ELSE 0) /\ seen[l] \in Nat
      BY <1>9, <1>10
    <3> DEFINE a == more[l]
               b == seen[l]
               p == Pending(l)
               r == Pending(l)'
               d == Done(l)
    <3>2. a = b + (IF l = k THEN 1 ELSE 0) /\ b \in Nat /\ b + p = d /\ r \in Nat
          /\ p = r + (IF l = k THEN 1 ELSE 0) /\ Done(l)' = d
      BY <1>7, <1>9, <3>1
    <3> HIDE DEF a, b, p, r, d
    <3> QED BY <3>2 DEF a, r
  <2> HIDE DEF more, o
  <2>5. CountsOff(more, total, turns)'
    BY <1>2, <1>6, <1>9, <2>1, <2>2, <2>3, <2>4 DEF CountsOff
  <2> QED BY <2>5
<1>11. CASE k \notin AskedFor
  <2>1. rest' = <<>>
    BY <1>4, <1>8, <1>11
  <2>2. Left' = 0
    BY <2>1 DEF Left
  <2>3. ASSUME NEW l \in AskedFor PROVE seen[l] + Pending(l)' = Done(l)'
    <3>1. l # k
      BY <1>11
    <3>2. Pending(l) = Pending(l)' + 0 /\ Pending(l)' \in Nat /\ Done(l)' = Done(l)
      BY <1>7, <3>1
    <3>3. Pending(l)' = Pending(l)
      BY <3>2
    <3> QED BY <1>9, <3>2, <3>3
  <2>4. total + Left' = total
    BY <1>9, <2>2
  <2>5. CountsOff(seen, total, turns)'
    BY <1>2, <1>6, <1>9, <2>3, <2>4 DEF CountsOff
  <2> QED BY <2>5
<1> QED BY <1>10, <1>11

\* A turn of the loop counts one occurrence of those that are left; the counter may wrap around.
LEMMA CountingCounts ==
    ASSUME SearchInv, CountInv, CountMatch \/ NoMoreMatches
    PROVE  CountInv'
<1>1. rest # <<>> /\ rest = <<rest[1]>> /\ rest[1] \in Text /\ stage = "searching"
  <2>1. rest # <<>>
    BY DEF CountMatch, NoMoreMatches
  <2>2. \E text \in Text : rest = <<text>>
    BY <2>1 DEF SearchInv
  <2>3. stage = "searching"
    BY <2>1 DEF SearchInv
  <2> QED BY <2>1, <2>2, <2>3
<1>2. /\ query' = query /\ period' = period /\ targets' = targets /\ stage' = stage /\ it' = it
      /\ lines' = lines
  BY DEF CountMatch, NoMoreMatches
<1>3. SameQuery /\ query \in Queries
  BY <1>1, <1>2, SearchIsSearching DEF SameQuery, Searching
<1> SUFFICES ASSUME Counting PROVE \E seen, total, turns : CountsOff(seen, total, turns)'
  BY <1>1, <1>2, <1>3, SameCounting DEF CountInv
<1>4. PICK seen, total, turns : CountsOff(seen, total, turns)
  BY <1>1 DEF CountInv
<1>5. /\ AskedFor' = AskedFor /\ Shares(seen)' = Shares(seen)
      /\ \A t : Occurrences(t)' = Occurrences(t)
  BY <1>3, SameCounting
<1>6. \A l \in AskedFor : seen[l] + Pending(l)' = Done(l)'
  <2>1. \A l \in AskedFor : Pending(l)' = Pending(l) /\ Done(l)' = Done(l)
    BY <1>2 DEF Pending, Done
  <2> QED BY <1>4, <2>1 DEF CountsOff
<1> DEFINE text == rest[1]
           o == Occurrences(text)
<1>7. /\ o \in Nat
      /\ MatchStarts(query, text) = {} => o = 0
      /\ MatchStarts(query, text) # {} => o = Occurrences(AfterMatch(query, text)) + 1
  BY <1>1, <1>3, CountedOff DEF Counting
<1>8. /\ seen \in [AskedFor -> Nat] /\ total \in Nat /\ turns \in Nat
      /\ total + o = SumFunction(Shares(seen))
      /\ total = count + turns * CountWidth
  <2>1. Left = o
    BY <1>1 DEF Left
  <2> QED BY <1>4, <2>1 DEF CountsOff
<1>9. CASE NoMoreMatches
  <2>1. rest' = <<>> /\ count' = count /\ o = 0
    BY <1>7, <1>9 DEF NoMoreMatches
  <2>2. Left' = 0
    BY <2>1 DEF Left
  <2> HIDE DEF o
  <2>3. CountsOff(seen, total, turns)'
    BY <1>5, <1>6, <1>8, <2>1, <2>2 DEF CountsOff
  <2> QED BY <2>3
<1>10. CASE CountMatch
  <2> DEFINE after == AfterMatch(query, text)
  <2>1. MatchStarts(query, text) # {} /\ rest' = <<after>> /\ count' = (count + 1) % CountWidth
    BY <1>10 DEF CountMatch
  <2>2. after \in Text
    BY <1>1, <1>3, <2>1, AfterMatchIsText
  <2>3. Left' = Occurrences(after)
    <3>1. rest' # <<>> /\ rest'[1] = after
      BY <2>1
    <3> QED BY <1>5, <3>1 DEF Left
  <2>4. Occurrences(after) \in Nat
    BY <1>3, <2>2, CountedOff DEF Counting
  <2>5. o = Occurrences(after) + 1
    BY <1>7, <2>1
  <2> DEFINE a == Occurrences(after)
  <2>6. a \in Nat /\ o = a + 1 /\ Left' = a
    BY <2>3, <2>4, <2>5
  <2> HIDE DEF o, a, after
  <2>7. (total + 1) + Left' = SumFunction(Shares(seen)) /\ total + 1 \in Nat
    <3>1. total + o = (total + 1) + a
      BY <1>8, <2>6
    <3> QED BY <1>8, <2>6, <3>1
  <2>8. count \in 0..(CountWidth - 1) /\ CountWidth \in Nat \ {0}
    BY SearchAssumption DEF SearchInv
  <2>9. CASE count + 1 = CountWidth
    <3>1. count' = 0
      BY <2>1, <2>8, <2>9
    <3>2. total + 1 = 0 + (turns + 1) * CountWidth
      <4>1. (turns + 1) * CountWidth = turns * CountWidth + CountWidth /\ turns * CountWidth \in Nat
        BY <1>8, <2>8
      <4> DEFINE x == turns * CountWidth
      <4>2. x \in Nat /\ total = count + x
        BY <1>8, <4>1
      <4> HIDE DEF x
      <4>3. total + 1 = x + CountWidth
        BY <2>8, <2>9, <4>2
      <4>4. 0 + (x + CountWidth) = x + CountWidth
        BY <2>8, <4>2
      <4> QED BY <4>1, <4>3, <4>4 DEF x
    <3>3. CountsOff(seen, total + 1, turns + 1)'
      <4>1. turns + 1 \in Nat
        BY <1>8
      <4> QED BY <1>5, <1>6, <1>8, <2>7, <3>1, <3>2, <4>1 DEF CountsOff
    <3> QED BY <3>3
  <2>10. CASE count + 1 # CountWidth
    <3>1. count' = count + 1
      <4>1. count + 1 \in 0..(CountWidth - 1)
        BY <2>8, <2>10
      <4> QED BY <2>1, <2>8, <4>1
    <3>2. total + 1 = (count + 1) + turns * CountWidth
      <4> DEFINE x == turns * CountWidth
      <4>1. x \in Nat /\ total = count + x /\ count \in Nat
        BY <1>8, <2>8
      <4> HIDE DEF x
      <4> QED BY <4>1 DEF x
    <3>3. CountsOff(seen, total + 1, turns)'
      BY <1>5, <1>6, <1>8, <2>7, <3>1, <3>2 DEF CountsOff
    <3> QED BY <3>3
  <2> QED BY <2>9, <2>10
<1> QED BY <1>9, <1>10

\* Going on to the next log changes nothing.
LEMMA EndCounts ==
    ASSUME SearchInv, CountInv, EndOfLog
    PROVE  CountInv'
<1>1. /\ query' = query /\ period' = period /\ targets' = targets /\ it' = it /\ lines' = lines
      /\ rest' = rest /\ count' = count /\ stage = "searching"
  BY DEF EndOfLog
<1>2. SameQuery
  BY <1>1 DEF SameQuery
<1> SUFFICES ASSUME Counting PROVE \E seen, total, turns : CountsOff(seen, total, turns)'
  BY <1>2, SameCounting DEF CountInv
<1>3. PICK seen, total, turns : CountsOff(seen, total, turns)
  BY <1>1 DEF CountInv
<1>4. /\ AskedFor' = AskedFor /\ Shares(seen)' = Shares(seen) /\ Left' = Left
      /\ \A l \in AskedFor : Pending(l)' = Pending(l) /\ Done(l)' = Done(l)
  BY <1>1, <1>2, SameCounting DEF Left, Pending, Done
<1>5. CountsOff(seen, total, turns)'
  BY <1>1, <1>3, <1>4 DEF CountsOff
<1> QED BY <1>5

\* The invariant of a count.
LEMMA CountInvHolds == Spec => []CountInv
<1>1. Init => CountInv
  <2>1. stage = "idle" => stage \in {"idle", "rejected"}
    OBVIOUS
  <2> QED BY <2>1, Zenon DEF Init, CountInv
<1>2. SearchInv /\ SearchInv' /\ CountInv /\ [Next]_vars => CountInv'
  <2> SUFFICES ASSUME SearchInv, SearchInv', CountInv, [Next]_vars PROVE CountInv'
    OBVIOUS
  <2>1. CASE UNCHANGED vars
    <3>1. /\ stage' = stage /\ query' = query /\ period' = period /\ targets' = targets /\ it' = it
          /\ lines' = lines /\ rest' = rest /\ count' = count
      BY <2>1 DEF vars, search
    <3>2. SameQuery
      BY <3>1 DEF SameQuery
    <3> SUFFICES ASSUME stage \notin {"idle", "rejected"}, Counting
                 PROVE  \E seen, total, turns : CountsOff(seen, total, turns)'
      BY <3>1, <3>2, SameCounting DEF CountInv
    <3>3. PICK seen, total, turns : CountsOff(seen, total, turns)
      BY DEF CountInv
    <3>4. /\ AskedFor' = AskedFor /\ Shares(seen)' = Shares(seen) /\ Left' = Left
          /\ \A l \in AskedFor : Pending(l)' = Pending(l) /\ Done(l)' = Done(l)
      BY <3>1, <3>2, SameCounting DEF Left, Pending, Done
    <3>5. CountsOff(seen, total, turns)'
      BY <3>1, <3>3, <3>4 DEF CountsOff
    <3> QED BY <3>5
  <2>2. ASSUME NEW q \in Queries, Command(q) PROVE CountInv'
    BY <2>2, CommandCounts
  <2>3. CASE Receive
    BY <2>3, ReceiveCounts
  <2>4. CASE NextLine
    BY <2>4, NextLineCounts
  <2>5. CASE CountMatch \/ NoMoreMatches
    BY <2>5, CountingCounts
  <2>6. CASE EndOfLog
    BY <2>6, EndCounts
  <2> QED BY <2>1, <2>2, <2>3, <2>4, <2>5, <2>6 DEF Next, Search
<1> QED BY <1>1, <1>2, SearchInvHolds, PTL DEF Spec

\* CountIsRight: for any logs, lists and words (of one length, if they are a regex), the answer of
\* countCommandFunc is the number of occurrences in all the lines asked for, each as often as the
\* lists name it, up to the width of the counter.
THEOREM CountIsAnswered == Spec => []CountIsRight
<1>1. SearchInv /\ CountInv => CountIsRight
  <2> DEFINE right == [l \in {l \in Written : Asked(l)} |-> Named(l) * Occurrences(l.text)]
  <2> SUFFICES ASSUME SearchInv, CountInv, stage = "answered", Counting
               PROVE  count = SumFunction(right) % CountWidth
    BY DEF CountIsRight, Counting
  <2>1. stage \notin {"idle", "rejected"}
    OBVIOUS
  <2>2. PICK seen, total, turns : CountsOff(seen, total, turns)
    BY <2>1 DEF CountInv
  <2>3. rest = <<>> /\ count \in 0..(CountWidth - 1) /\ CountWidth \in Nat \ {0}
    BY SearchAssumption DEF SearchInv
  <2>4. total = SumFunction(Shares(seen)) /\ total \in Nat
    <3>1. Left = 0
      BY <2>3 DEF Left
    <3>2. total + 0 = SumFunction(Shares(seen)) /\ total \in Nat
      BY <2>2, <3>1 DEF CountsOff
    <3> QED BY <3>2
  <2>5. Shares(seen) = right
    <3>1. ASSUME NEW l \in AskedFor PROVE seen[l] = Named(l)
      <4>1. l \in Written /\ isInside(period, l.time)
        BY AskedIsInside DEF AskedFor
      <4>2. Done(l) = Named(l) /\ Pending(l) = 0
        BY <4>1, AllAreSearched
      <4>3. seen[l] \in Nat /\ seen[l] + Pending(l) = Done(l)
        BY <2>2 DEF CountsOff
      <4> QED BY <4>2, <4>3
    <3> QED BY <3>1 DEF Shares, AskedFor
  <2> HIDE DEF right
  <2>6. total = count + turns * CountWidth /\ turns \in Nat
    BY <2>2 DEF CountsOff
  <2>7. count = total % CountWidth
    BY <2>3, <2>4, <2>6, Remainder
  <2> QED BY <2>4, <2>5, <2>7
<1> QED BY <1>1, SearchInvHolds, CountInvHolds, PTL

==============================================================================
