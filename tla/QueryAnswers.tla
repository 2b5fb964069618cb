---------------------------- MODULE QueryAnswers ----------------------------
(***************************************************************************)
(* What count, find and clip promise to the user who asked                 *)
(* (src/README.md: "the result will either be sent back directly to the    *)
(* user in twitch chat or the bot will upload the result"): a query gets   *)
(* one answer at most, which is the result over all of its logs or says    *)
(* that a download failed.                                                 *)
(***************************************************************************)
EXTENDS Naturals, Sequences

CONSTANTS
    Queries,    \* the queries of a behaviour
    Requests,   \* what can be asked: [kind, n, upto]
    NoRequest,  \* a query that was not asked yet
    Partial     \* may the search in a log be cut short by an exception?

VARIABLES
    request,    \* what each query asks
    answers     \* the answers sent to each query

vars == <<request, answers>>

\* The hits in the n logs of a request: upto[i] of them in the first i logs.
Total(r) == r.upto[r.n]

AnswerKinds == {"error", "count", "nothing", "link"}
AnswerError == [kind |-> "error", value |-> 0]
AnswerCount(n) == [kind |-> "count", value |-> n]
AnswerNothing == [kind |-> "nothing", value |-> 0]
AnswerLink(n) == [kind |-> "link", value |-> n]

\* The results that are right for r: all the hits, or some when the search was cut short.
Results(r) == IF Partial THEN 0..Total(r) ELSE {Total(r)}

RightAnswer(r, a) ==
    \/ r.kind \in {"count", "find"} /\ a = AnswerError
    \/ r.kind = "count" /\ a.value \in Results(r) /\ a = AnswerCount(a.value)
    \/ r.kind = "find" /\ 0 \in Results(r) /\ a = AnswerNothing
    \/ r.kind = "find" /\ a.value \in Results(r) \ {0} /\ a = AnswerLink(a.value)
    \/ r.kind = "clip" /\ a = AnswerLink(Total(r))

Init == request = [q \in Queries |-> NoRequest] /\ answers = [q \in Queries |-> <<>>]

Ask(q) ==
    /\ request[q] = NoRequest
    /\ \E r \in Requests : request' = [request EXCEPT ![q] = r]
    /\ UNCHANGED answers

Answer(q) ==
    /\ answers[q] = <<>>
    /\ \E a \in [kind : AnswerKinds, value : 0..Total(request[q])] :
         RightAnswer(request[q], a) /\ answers' = [answers EXCEPT ![q] = <<a>>]
    /\ UNCHANGED request

Next == \E q \in Queries : Ask(q) \/ Answer(q)

Spec == Init /\ [][Next]_vars

=============================================================================
