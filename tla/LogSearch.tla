----------------------------- MODULE LogSearch -----------------------------
(***************************************************************************)
(* What a count or a find computes: from the period, channels and users of *)
(* the command to the logs, through their lines, to the number or the      *)
(* lines of the answer (src/src/SaivBot.cpp, src/include/SaivBot.hpp).     *)
(* LogQuery has the threads and the errors of the same query.              *)
(***************************************************************************)
EXTENDS LogTargets, LogText, FiniteSetsExt

CONSTANTS
    Queries,     \* the commands of a behaviour
    Written,     \* what the users wrote: a set of lines
    CountWidth,  \* the counter wraps around here
    Inline       \* the longest text a string holds inside the object

ASSUME SearchAssumption ==
    CountWidth \in Nat \ {0} /\ IsFiniteSet(Written) /\ Clock \subseteq Times
\* What a line of a log has before its message, the time and a name, is not held inside.
ASSUME InlineAssumption == Inline \in 0..5
\* A line is one line; a notice has no colon; and no two lines differ in being a notice only.
ASSUME WrittenAssumption ==
    /\ \A l \in Written :
        /\ l \in [channel : Words, user : Words, time : Clock, text : Seq(Tokens \ {NL}),
                  notice : BOOLEAN]
        /\ l.notice => \A i \in DOMAIN l.text : l.text[i] # ":"
    /\ \A k, l \in Written : [k EXCEPT !.notice = l.notice] = l => k = l
\* A list of channels or users is not empty.
ASSUME QueriesAssumption ==
    \A q \in Queries :
        /\ q.begin \in Seq(Nat) /\ Len(q.begin) <= 3 /\ q.end \in Seq(Nat) /\ Len(q.end) <= 3
        /\ {q.find, q.regex, q.caseless, q.all_users} \subseteq BOOLEAN
        /\ q.service \in {"gempir", "overrustle"}
        /\ q.channels \in Seq(Words) \ {<<>>}
        /\ ~q.all_users => q.users \in Seq(Words) \ {<<>>}
        /\ q.words # {} /\ q.words \subseteq Text

VARIABLES
    stage,    \* "idle", "downloading", "searching", "answered", "rejected"
    query,
    period,
    targets,  \* LogRequest::targets: [period, channel, user], user "" for all of them
    it,       \* the target that is next
    lines,    \* the lines of the log that are not searched yet
    rest,     \* what is left of the message that is searched: a sequence with it, or <<>>
    count,
    found     \* shared_lines_found

search == <<lines, rest, count, found>>
vars == <<stage, query, period, targets, it, search>>

NoQuery == [find |-> FALSE]

Init ==
    /\ stage = "idle" /\ query = NoQuery /\ period = TimePeriod(0, 0) /\ targets = <<>> /\ it = 1
    /\ lines = <<>> /\ rest = <<>> /\ count = 0 /\ found = <<>>

-----------------------------------------------------------------------------
\* fillLogRequestTargetFields: every log of every user in every channel.
Target(p, channel, user) == [period |-> p, channel |-> channel, user |-> user]
TargetsOf(q, p) ==
    LET logs == LogPeriods(p, q.all_users)
        users == IF q.all_users THEN <<"">> ELSE q.users
        ofUser(c, u) == [i \in DOMAIN logs |-> Target(logs[i], c, u)]
        ofChannel(c) == FlattenSeq([k \in DOMAIN users |-> ofUser(c, users[k])])
    IN  FlattenSeq([k \in DOMAIN q.channels |-> ofChannel(q.channels[k])])

\* countCommandFunc, findCommandFunc.
Command(q) ==
    /\ stage = "idle"
    /\ query' = q
    /\ IF Accepted(q.begin, q.end)
         THEN /\ stage' = "downloading"
              /\ period' = parseTimePeriod(q.begin, q.end)
              /\ targets' = TargetsOf(q, period')
         ELSE stage' = "rejected" /\ UNCHANGED <<period, targets>>
    /\ UNCHANGED <<it, search>>

\* The service has the lines of a log in the order of time.
InLog(line, target) ==
    /\ line.channel = target.channel
    /\ target.user # "" => line.user = target.user
    /\ line.time >= target.period.begin /\ line.time < target.period.end
LogOf(target) ==
    {s \in [1..Cardinality({l \in Written : InLog(l, target)}) -> {l \in Written : InLog(l, target)}] :
        IsInjective(s) /\ \A i, j \in DOMAIN s : i < j => s[i].time <= s[j].time}

\* The log of a target has come, and is parsed.
Receive ==
    /\ stage = "downloading"
    /\ \E log \in LogOf(targets[it]) : lines' = LogLines(query.service, WriteLog(query.service, log))
    /\ stage' = "searching" /\ it' = it + 1
    /\ UNCHANGED <<query, period, targets, rest, count, found>>

\* A Log::Line is a string and views into it.  It is made from the views of a log, or copied,
\* with new views at the same distances.  The default move keeps the views; a string that is held
\* inside the object is left behind.  (The Bug operators of this module are used by no definition:
\* each is a slip in the definition after it.)
BugCopyLine(view) == [view |-> view, own |-> FALSE]
CopyLine(view) == [view |-> view, own |-> TRUE]
MoveLine(line) == [line EXCEPT !.own = @ /\ line.view.size > Inline]
\* A vector that grows moves what it has.
Grown(lines_found, channel, view) ==
    Append([i \in DOMAIN lines_found |-> [lines_found[i] EXCEPT !.line = MoveLine(@)]],
           [channel |-> channel, line |-> CopyLine(view)])

\* The callbacks: the next line, if it is inside the period.
NextLine ==
    /\ stage = "searching" /\ rest = <<>> /\ lines # <<>>
    /\ lines' = Tail(lines)
    /\ LET line == Head(lines)
           inside == isInside(period, line.time)
       IN  /\ rest' = IF inside /\ ~query.find THEN <<line.text>> ELSE <<>>
           /\ found' = IF inside /\ query.find /\ find_func(query, line.text)
                         THEN Grown(found, targets[it - 1].channel, line) ELSE found
    /\ UNCHANGED <<stage, query, period, targets, it, count>>

\* A turn of the loop of countTargetOccurrences, and its end.
CountMatch ==
    /\ rest # <<>> /\ MatchStarts(query, rest[1]) # {}
    /\ count' = (count + 1) % CountWidth
    /\ rest' = <<AfterMatch(query, rest[1])>>
    /\ UNCHANGED <<stage, query, period, targets, it, lines, found>>
NoMoreMatches ==
    /\ rest # <<>> /\ MatchStarts(query, rest[1]) = {}
    /\ rest' = <<>>
    /\ UNCHANGED <<stage, query, period, targets, it, lines, count, found>>

\* The orders of a sequence: each element goes in somewhere among those before it.
Orders(s) ==
    LET orders[k \in 0..Len(s)] ==
            IF k = 0 THEN {<<>>}
            ELSE UNION {{InsertAt(p, i, s[k]) : i \in 1..(Len(p) + 1)} : p \in orders[k - 1]}
    IN  orders[Len(s)]

BugDumped(lines_found) == {lines_found}
\* dump_func sorts by time, lines of the same time in any order.  Sorting moves the lines.
Dumped(lines_found) ==
    {s \in Orders([i \in DOMAIN lines_found |-> [lines_found[i] EXCEPT !.line = MoveLine(@)]]) :
        \A i, j \in DOMAIN s : i < j => s[i].line.view.time <= s[j].line.view.time}

EndOfLog ==
    /\ stage = "searching" /\ rest = <<>> /\ lines = <<>>
    /\ IF it <= Len(targets) THEN stage' = "downloading" /\ UNCHANGED found
       ELSE stage' = "answered" /\ found' \in Dumped(found)
    /\ UNCHANGED <<query, period, targets, it, lines, rest, count>>

-----------------------------------------------------------------------------
Search == NextLine \/ CountMatch \/ NoMoreMatches \/ EndOfLog
Next == (\E q \in Queries : Command(q)) \/ Receive \/ Search

\* The thread that searches goes on as long as there is something to do; a log may never come
\* (LogQuery has that).
Spec == Init /\ [][Next]_vars /\ WF_vars(Search)

-----------------------------------------------------------------------------
(* Properties *)

TypeOK ==
    /\ stage \in {"idle", "downloading", "searching", "answered", "rejected"}
    /\ period \in Periods
    /\ it \in 1..Len(targets) + 1
    /\ Len(rest) <= 1
    /\ count \in 0..CountWidth - 1

\* The part of a time point that is omitted is the first of its kind: "2018" is "2018-1-1-0-0-0".
\* Two time points that are right are refused only if the end is before the begin.
Full(s) == <<s[1], IF Len(s) > 1 THEN s[2] ELSE 1, IF Len(s) > 2 THEN s[3] ELSE 0>>
OmittedPartsAreFirst ==
    stage # "idle" /\ SaysTime(query.begin, Len(query.begin)) /\ SaysTime(query.end, Len(query.end)) =>
        LET begin == TimeSaid(Full(query.begin), 3)
            end == TimeSaid(Full(query.end), 3)
        IN  IF stage = "rejected" THEN end < begin ELSE period = TimePeriod(begin, end)

\* Every moment of the period is in exactly one of the logs that are downloaded, whatever
\* months or days it begins and ends in.
TargetsCoverPeriod ==
    stage \notin {"idle", "rejected"} => CoversOnce(LogPeriods(period, query.all_users), period)

\* The lines asked for: of a channel in the list, of one of the users, inside the period; with
\* how often the lists name them.  The parser leaves out the notices of gempir.
Asked(l) ==
    l.time >= period.begin /\ l.time < period.end /\ ~(l.notice /\ query.service = "gempir")
Naming(s, x) == Cardinality({i \in DOMAIN s : s[i] = x})
Named(l) ==
    Naming(query.channels, l.channel) * (IF query.all_users THEN 1 ELSE Naming(query.users, l.user))

IsLine(f, l) ==
    LET view == f.line.view IN
    f.channel = l.channel /\ view.time = l.time /\ view.user = <<l.user>> /\ view.text = l.text

\* Matches of a regex whose words are of one length that do not overlap, at most.
OneLength == <<>> \notin query.words /\ \A v, w \in query.words : Len(v) = Len(w)
Disjoint(text) ==
    LET length == Len(CHOOSE w \in query.words : TRUE)
        apart(S) == \A i, j \in S : i < j => i + length <= j
    IN  Max({Cardinality(S) : S \in {S \in SUBSET MatchStarts(query, text) : apart(S)}})
Occurrences(text) == IF query.regex THEN Disjoint(text) ELSE Cardinality(MatchStarts(query, text))

\* A count is the number of occurrences in all the lines asked for: overlapping ones of a word,
\* those of a regex from left to right.  No line is counted twice or left out at the seam of two
\* logs or at the ends of the period.
CountIsRight ==
    stage = "answered" /\ ~query.find /\ (query.regex => OneLength) =>
        count = SumFunction([l \in {l \in Written : Asked(l)} |-> Named(l) * Occurrences(l.text)])
                    % CountWidth

\* A find (of a word) gives each line asked for that contains it, as often as the lists name it,
\* in the order of time.
FoundIsRight ==
    stage = "answered" /\ query.find /\ ~query.regex =>
        /\ \A i, j \in DOMAIN found : i < j => found[i].line.view.time <= found[j].line.view.time
        /\ \A l \in Written :
             Cardinality({i \in DOMAIN found : IsLine(found[i], l)}) =
                IF Asked(l) /\ MatchStarts(query, l.text) # {} THEN Named(l) ELSE 0

\* However the lines found are copied and moved, none of them looks into the text of another: a
\* line of a log, with its time, is longer than what a string holds inside the object.
FoundViewsOwn == \A i \in DOMAIN found : found[i].line.own

\* The search of a log comes to an end, unless the target is a regex that matches nothing at all.
SearchEnds == (stage = "searching" /\ <<>> \notin query.words) ~> stage # "searching"

\* What README says of find: "Find all lines containing target in logs."
FindsContaining ==
    stage = "answered" /\ query.find =>
        \A l \in Written :
            Asked(l) /\ Named(l) > 0 /\ MatchStarts(query, l.text) # {} =>
                \E i \in DOMAIN found : IsLine(found[i], l)

=============================================================================
