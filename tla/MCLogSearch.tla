---------------------------- MODULE MCLogSearch ----------------------------
(* The calendar, the logs and the commands of the instance that TLC checks. *)
EXTENDS LogSearch

MCMonthStart == 0 :> 0 @@ 1 :> 2 @@ 2 :> 8
MCDayStart == [d \in 0..4 |-> 2 * d]
MCMonthOf == [t \in 0..7 |-> IF t < 2 THEN 0 ELSE 1]
MCDayOf == [t \in 0..7 |-> t \div 2]

MCTimeText == [t \in 0..7 |-> ToString(t)]
MCWords == {TimeText[t] : t \in Clock} \union {"a", "b", "A", "u", "v", "c", "d"}

Line(channel, user, time, text) ==
    [channel |-> channel, user |-> user, time |-> time, text |-> text, notice |-> FALSE]
MCWritten ==
    {Line("c", "u", 1, <<"a", "a", "a">>),
     Line("c", "u", 2, <<"A", "b", "]", SP, "a">>),
     Line("c", "v", 2, <<"b", ":", SP, "a", "b">>),
     Line("c", "u", 5, <<"a", "b">>),
     Line("d", "u", 4, <<"b", "a">>),
     [Line("c", "u", 3, <<"a", "a">>) EXCEPT !.notice = TRUE]}

Plain == {{<<"a">>}, {<<"a", "a">>}, {<<"a", "b">>}}
Regexes == {{<<"a">>}, {<<"a", "a">>, <<"a", "b">>}, {<<>>, <<"a">>}}

\* All spellings of time points, right and wrong ones, for one command; a few for the others.
Points == {<<m>> : m \in 0..2} \union {<<m, d>> : m \in 0..1, d \in 0..2}
            \union {<<m, d, k>> : m \in 0..1, d \in {1, 3}, k \in 0..2}
SomePeriods == {<<<<0>>, <<1>>>>, <<<<0, 1, 1>>, <<1, 3>>>>, <<<<1, 1>>, <<1, 2, 1>>>>, <<<<1>>, <<1, 9>>>>}

QueriesOf(find, words, regex, caseless, lists, periods) ==
    [find : {find}, words : words, regex : {regex}, caseless : caseless,
     service : {"gempir", "overrustle"}, all_users : BOOLEAN,
     channels : lists[1], users : lists[2], begin : periods[1], end : periods[2]]
MCQueries ==
    LET lists == <<{<<"c">>, <<"d", "c", "d">>}, {<<"u">>, <<"v", "u">>}>> IN
    QueriesOf(TRUE, {{<<"a">>}}, FALSE, {FALSE}, <<{<<"c">>}, {<<"u">>}>>, <<Points, Points>>)
    \union UNION {QueriesOf(find, Plain, FALSE, BOOLEAN, lists, <<{p[1]}, {p[2]}>>) :
                    find \in BOOLEAN, p \in SomePeriods}
    \union UNION {QueriesOf(find, Regexes, TRUE, {FALSE}, lists, <<{p[1]}, {p[2]}>>) :
                    find \in BOOLEAN, p \in SomePeriods}

=============================================================================
