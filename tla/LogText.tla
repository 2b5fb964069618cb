------------------------------ MODULE LogText ------------------------------
(***************************************************************************)
(* The text of a log, as the log services write it and as gempirLogParser  *)
(* and overrustleLogParser read it (src/src/LogDownloader.cpp), and the    *)
(* search for a target in a message (src/src/SaivBot.cpp,                  *)
(* src/include/SaivBot.hpp).                                               *)
(*                                                                         *)
(* A text is a sequence of tokens: the characters the parsers look for,    *)
(* letters, and words.                                                     *)
(***************************************************************************)
EXTENDS Strings, FiniteSets

CONSTANTS
    Clock,     \* the times a log line can have
    TimeText,  \* how they are written
    Words      \* what stands between the characters: letters, names and times

NL == "\n"
SP == " "
Characters == {NL, SP, "[", "]", "#", ":"}
Tokens == Characters \union Words
Text == Seq(Tokens)

\* No word looks like a character, and no two times look the same.
ASSUME TextAssumption ==
    /\ Words \intersect Characters = {} /\ "" \notin Words
    /\ TimeText \in [Clock -> Words] /\ IsInjective(TimeText)

Failure == <<"Failure reading log">>

-----------------------------------------------------------------------------
(* The log services (external) *)

\* A line is a message of a user, or a notice about one, which has no colon.
WriteGempir(line) ==
    <<"[", TimeText[line.time], "]", SP, "#", SP, line.user>>
        \o (IF line.notice THEN <<SP>> ELSE <<":", SP>>) \o line.text \o <<NL>>
WriteOverrustle(line) ==
    <<"[", TimeText[line.time], "]", SP, line.user, ":", SP>> \o line.text \o <<NL>>

WriteLog(service, lines) ==
    CASE lines = <<>> -> Failure
      [] lines # <<>> /\ service = "gempir" ->
            FlattenSeq([i \in DOMAIN lines |-> WriteGempir(lines[i])])
      [] OTHER -> FlattenSeq([i \in DOMAIN lines |-> WriteOverrustle(lines[i])])

-----------------------------------------------------------------------------
(* The parsers *)

\* Where "] " starts, or 0.
TimeEnd(text) ==
    SelectInSeq([i \in 1..Len(text) |-> i < Len(text) /\ text[i] = "]" /\ text[i + 1] = SP],
                LAMBDA b : b)

\* parseGempirTimeString, parseOverrustleTimeString.
IsTime(view) == Len(view) = 1 /\ \E t \in Clock : TimeText[t] = view[1]
TimeOf(view) == CHOOSE t \in Clock : TimeText[t] = view[1]

\* One line, of this size: a sequence with what was read, or empty if the line is skipped.
ReadLine(size, time_view, user, message) ==
    IF IsTime(time_view)
      THEN <<[size |-> size, time |-> TimeOf(time_view), user |-> user, text |-> message]>> ELSE <<>>

ReadGempir(view) ==
    LET close == TimeEnd(view)
        all == From(view, close + 2)
        space == FindFirstOf(all, {SP})
        rest == From(all, space + 1)
        colon == FindFirstOf(rest, {":"})
    IN  IF close = 0 \/ space = 0 \/ colon = 0 THEN <<>>
        ELSE ReadLine(Len(view) + 1, SubSeq(view, 2, close - 1), Upto(rest, colon),
                      From(rest, colon + 2))

ReadOverrustle(view) ==
    LET close == TimeEnd(view)
        all == From(view, close + 2)
        space == FindFirstOf(all, {SP})
    IN  IF close = 0 \/ space = 0 THEN <<>>
        ELSE ReadLine(Len(view) + 1, SubSeq(view, 2, close - 1), SubSeq(all, 1, space - 2),
                      From(all, space + 1))

\* The lines of the data; what does not end with a newline is left out.
ReadLineOf(service, view) == IF service = "gempir" THEN ReadGempir(view) ELSE ReadOverrustle(view)
ParseLines(service, data) ==
    LET parse[text \in Text] ==
            LET n == FindFirstOf(text, {NL}) IN
            IF n = 0 THEN <<>>
            ELSE ReadLineOf(service, Upto(text, n)) \o parse[From(text, n + 1)]
    IN  parse[data]

\* The lines of a Log; one that is not valid is not searched.
LogLines(service, data) == IF data = Failure THEN <<>> ELSE ParseLines(service, data)

-----------------------------------------------------------------------------
(* Searching *)

Lower(letter) == CASE letter = "A" -> "a" [] letter = "B" -> "b" [] OTHER -> letter

\* A target is a set of words: one for a plain search, the language of a regex.  -caseless is
\* for a plain search only.
Same(query, x, y) == IF query.caseless /\ ~query.regex THEN Lower(x) = Lower(y) ELSE x = y
MatchesAt(query, text, i, word) ==
    /\ i + Len(word) - 1 <= Len(text)
    /\ \A k \in DOMAIN word : Same(query, text[i + k - 1], word[k])
\* Where there is a match: std::search finds nothing in an empty text, a regex may.
MatchStarts(query, text) ==
    {i \in 1..(Len(text) + IF query.regex THEN 1 ELSE 0) :
        \E w \in query.words : MatchesAt(query, text, i, w)}
FirstMatch(query, text) ==
    CHOOSE i \in MatchStarts(query, text) : \A j \in MatchStarts(query, text) : i <= j
\* The regexes are greedy: of the matches at a place the longest is taken.
MatchLength(query, text, i) ==
    Len(CHOOSE w \in query.words :
            /\ MatchesAt(query, text, i, w)
            /\ \A v \in query.words : MatchesAt(query, text, i, v) => Len(v) <= Len(w))

\* (The Bug operators of this module are used by no definition: each is a slip in the
\* definition after it.)
BugAfterMatch(query, text) == From(text, FirstMatch(query, text))
\* Both countTargetOccurrences: where the search goes on after a match.
AfterMatch(query, text) ==
    LET i == FirstMatch(query, text) IN
    From(text, i + IF query.regex THEN MatchLength(query, text, i) ELSE 1)

\* find_func: a plain target is searched, a regex has to match all of the text.
find_func(query, text) ==
    IF query.regex THEN text \in query.words ELSE MatchStarts(query, text) # {}

=============================================================================
