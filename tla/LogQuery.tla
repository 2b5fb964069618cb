------------------------------ MODULE LogQuery ------------------------------
(***************************************************************************)
(* The queries of SaivBot: count and find download logs and search them,   *)
(* find and clip upload what they found (src/src/SaivBot.cpp,              *)
(* src/include/SaivBot.hpp, src/src/LogDownloader.cpp,                     *)
(* src/src/DankHttp.cpp).                                                  *)
(*                                                                         *)
(* A LogDownloader gets the logs of a request one after the other over one *)
(* connection.  readHandler starts the next request before it searches the *)
(* log it has, so the handlers of the next log, and an error, can run on   *)
(* another thread while the search goes on.  The searches share            *)
(* reference_count and the result; whoever brings reference_count to zero  *)
(* answers.                                                                *)
(***************************************************************************)
EXTENDS Naturals, Sequences, FiniteSets

CONSTANTS
    Queries,     \* the queries of a behaviour
    Workers,     \* threads in io_context::run
    QueryFaults, \* what may fail
    MaxTargets,  \* bound: logs of a request
    MaxHits      \* bound: hits in the logs of a request

AllQueryFaults == {"sni", "download", "search", "upload"}

ASSUME QueriesAssumption == IsFiniteSet(Queries)
ASSUME WorkersAssumption == Workers \in Nat \ {0}
ASSUME QueryFaultsAssumption == QueryFaults \subseteq AllQueryFaults
ASSUME BoundsAssumption == MaxTargets \in Nat /\ MaxHits \in Nat

VARIABLES
    request,         \* what was asked
    op,              \* the outstanding operation of the LogDownloader
    it,              \* the target that operation is about
    searching,       \* the target whose log is searched: m_read_handler_mutex is held
    reference_count, \* logs that are not searched yet
    found,           \* shared_count, or the size of shared_lines_found
    upload,          \* the outstanding operation of the NuulsUploader
    answers          \* history: the answers sent

vars == <<request, op, it, searching, reference_count, found, upload, answers>>

-----------------------------------------------------------------------------
(* Requests and operations *)

\* The request for n logs, of which the first i hold upto[i] hits.
Downloads(kinds, n) ==
    [kind : kinds, n : {n},
     upto : {u \in [0..n -> 0..MaxHits] : u[0] = 0 /\ \A i \in 1..n : u[i - 1] <= u[i]}]
LogRequests(kind) == UNION {Downloads({kind}, n) : n \in 1..MaxTargets}
ClipRequests == [kind : {"clip"}, n : {0}, upto : [{0} -> 1..MaxHits]]
Requests == LogRequests("count") \union LogRequests("find") \union ClipRequests
NoRequest == [kind |-> "none", n |-> 0, upto |-> [i \in {0} |-> 0]]

Hits(r, i) == r.upto[i] - r.upto[i - 1]

\* resolve, connect and handshake are done once, write and read for every log.
NextOp == [resolve |-> "connect", connect |-> "handshake", handshake |-> "write",
           write |-> "read", read |-> "shutdown", shutdown |-> "end"]
Ops == DOMAIN NextOp
\* LogDownloader gives an error of these to errorHandler.  (The Bug operators of this
\* module are used by no definition: each is a slip in the definition after it.)
BugReportedOps == Ops
ReportedOps == Ops \ {"shutdown"}

\* Some thread can run a handler: the others hold the log of a query each.
ThreadFree == Cardinality({q \in Queries : searching[q] # 0}) < Workers

AllAnswers == INSTANCE QueryAnswers WITH Partial <- "search" \in QueryFaults

Send(q, answer) == answers' = [answers EXCEPT ![q] = Append(answers[q], answer)]

\* NuulsUploader::run, which may give up at once.
StartUpload(q) ==
    \/ upload' = [upload EXCEPT ![q] = "resolve"]
    \/ "sni" \in QueryFaults /\ upload' = [upload EXCEPT ![q] = "end"]

\* LogDownloader::run, which may give up at once.
StartDownload(q) ==
    \/ op' = [op EXCEPT ![q] = "resolve"]
    \/ "sni" \in QueryFaults /\ op' = [op EXCEPT ![q] = "end"]

-----------------------------------------------------------------------------
(* Commands *)

BugOneLess(r) == r.n - 1
References(r) == r.n

DownloadCommand(q, kind) ==
    /\ request[q] = NoRequest
    /\ \E r \in LogRequests(kind) :
         /\ request' = [request EXCEPT ![q] = r]
         /\ reference_count' = [reference_count EXCEPT ![q] = References(r)]
    /\ StartDownload(q)
    /\ it' = [it EXCEPT ![q] = 1]
    /\ UNCHANGED <<searching, found, upload, answers>>

CountCommand(q) == DownloadCommand(q, "count")
FindCommand(q) == DownloadCommand(q, "find")

\* The lines to upload are in the IRCMessageBuffer of the channel.
ClipCommand(q) ==
    /\ request[q] = NoRequest
    /\ \E r \in ClipRequests :
         /\ request' = [request EXCEPT ![q] = r]
         /\ found' = [found EXCEPT ![q] = r.upto[0]]
    /\ StartUpload(q)
    /\ UNCHANGED <<op, it, searching, reference_count, answers>>

-----------------------------------------------------------------------------
(* LogDownloader *)

\* resolveHandler, connectHandler, handshakeHandler and writeHandler.
DownloadStep(q) ==
    /\ ThreadFree
    /\ op[q] \in Ops \ {"read", "shutdown"}
    /\ op' = [op EXCEPT ![q] = NextOp[op[q]]]
    /\ UNCHANGED <<request, it, searching, reference_count, found, upload, answers>>

\* readHandler up to the search: the next log is asked for, or the stream shut down.
ReadHandler(q) ==
    /\ ThreadFree
    /\ op[q] = "read" /\ searching[q] = 0
    /\ searching' = [searching EXCEPT ![q] = it[q]]
    /\ IF it[q] < request[q].n
         THEN /\ op' = [op EXCEPT ![q] = "write"]
              /\ it' = [it EXCEPT ![q] = it[q] + 1]
         ELSE /\ op' = [op EXCEPT ![q] = NextOp["read"]]
              /\ UNCHANGED it
    /\ UNCHANGED <<request, reference_count, found, upload, answers>>

\* shutdownHandler, with or without an error.
ShutdownHandler(q) ==
    /\ ThreadFree
    /\ op[q] = "shutdown"
    /\ op' = [op EXCEPT ![q] = NextOp["shutdown"]]
    /\ UNCHANGED <<request, it, searching, reference_count, found, upload, answers>>

BugStillCounting(q) == UNCHANGED answers
ReportError(q) == Send(q, AllAnswers!AnswerError)

\* errorHandler with countCommandErrorHandler or findCommandErrorHandler; the
\* exception it throws ends the chain.
ErrorHandler(q) ==
    /\ ThreadFree
    /\ "download" \in QueryFaults /\ op[q] \in ReportedOps
    /\ op' = [op EXCEPT ![q] = "end"]
    /\ reference_count' = [reference_count EXCEPT ![q] = 0]
    /\ ReportError(q)
    /\ UNCHANGED <<request, it, searching, found, upload>>

-----------------------------------------------------------------------------
(* The search of one log *)

\* The hits the search of a log comes to: an exception leaves the search with
\* those it has.
SearchResults(r, i) == IF "search" \in QueryFaults THEN 0..Hits(r, i) ELSE {Hits(r, i)}

BugLastTwo(references) == references <= 1
LastSearch(references) == references = 0

\* The end of countCommandCallback and of findCommandCallback: the last search answers.
Conclude(q, total) ==
    \/ /\ request[q].kind = "count"
       /\ Send(q, AllAnswers!AnswerCount(total))
       /\ UNCHANGED upload
    \/ /\ request[q].kind = "find" /\ total = 0
       /\ Send(q, AllAnswers!AnswerNothing)
       /\ UNCHANGED upload
    \/ /\ request[q].kind = "find" /\ total > 0
       /\ StartUpload(q)
       /\ UNCHANGED answers

SearchEnds(q, hits) ==
    /\ reference_count' = [reference_count EXCEPT ![q] = reference_count[q] - 1]
    /\ found' = [found EXCEPT ![q] = found[q] + hits]
    /\ IF LastSearch(reference_count'[q])
         THEN Conclude(q, found'[q])
         ELSE UNCHANGED <<upload, answers>>

BugAwaited(q) == TRUE
Awaited(q) == reference_count[q] > 0

\* countCommandCallback and findCommandCallback.  After an error nobody waits for
\* the result.
Callback(q) ==
    /\ searching[q] # 0
    /\ searching' = [searching EXCEPT ![q] = 0]
    /\ \E hits \in SearchResults(request[q], searching[q]) :
         IF Awaited(q)
           THEN SearchEnds(q, hits)
           ELSE UNCHANGED <<reference_count, found, upload, answers>>
    /\ UNCHANGED <<request, op, it>>

-----------------------------------------------------------------------------
(* NuulsUploader *)

\* resolveHandler to readHandler.
UploadStep(q) ==
    /\ ThreadFree
    /\ upload[q] \in Ops \ {"shutdown"}
    /\ upload' = [upload EXCEPT ![q] = NextOp[upload[q]]]
    /\ UNCHANGED <<request, op, it, searching, reference_count, found, answers>>

\* shutdownHandler, and nuulsServerReply with the link.
UploadEnds(q) ==
    /\ ThreadFree
    /\ upload[q] = "shutdown"
    /\ upload' = [upload EXCEPT ![q] = NextOp["shutdown"]]
    /\ Send(q, AllAnswers!AnswerLink(found[q]))
    /\ UNCHANGED <<request, op, it, searching, reference_count, found>>

\* A handler is given an error and throws: nobody answers.
UploadFails(q) ==
    /\ ThreadFree
    /\ "upload" \in QueryFaults /\ upload[q] \in Ops
    /\ upload' = [upload EXCEPT ![q] = "end"]
    /\ UNCHANGED <<request, op, it, searching, reference_count, found, answers>>

-----------------------------------------------------------------------------
Init ==
    /\ request = [q \in Queries |-> NoRequest]
    /\ op = [q \in Queries |-> "none"] /\ upload = [q \in Queries |-> "none"]
    /\ it = [q \in Queries |-> 0] /\ searching = [q \in Queries |-> 0]
    /\ reference_count = [q \in Queries |-> 0] /\ found = [q \in Queries |-> 0]
    /\ answers = [q \in Queries |-> <<>>]

Command(q) == CountCommand(q) \/ FindCommand(q) \/ ClipCommand(q)
Handler(q) ==
    \/ DownloadStep(q) \/ ReadHandler(q) \/ ShutdownHandler(q) \/ ErrorHandler(q)
    \/ Callback(q)
    \/ UploadStep(q) \/ UploadEnds(q) \/ UploadFails(q)

Next == \E q \in Queries : Command(q) \/ Handler(q)

Spec == Init /\ [][Next]_vars

\* The io_context runs every handler that is ready; every operation ends.
FairSpec == Spec /\ \A q \in Queries : WF_vars(Handler(q))

-----------------------------------------------------------------------------
(* Properties *)

TypeOK ==
    /\ request \in [Queries -> Requests \union {NoRequest}]
    /\ op \in [Queries -> Ops \union {"none", "end"}]
    /\ upload \in [Queries -> Ops \union {"none", "end"}]
    /\ it \in [Queries -> Nat] /\ searching \in [Queries -> Nat]
    /\ reference_count \in [Queries -> Nat] /\ found \in [Queries -> Nat]
    /\ answers \in [Queries -> Seq([kind : AllAnswers!AnswerKinds, value : Nat])]

\* A query is answered once, though an error on one thread can meet the search of
\* an earlier log on another, and though every search may be the last.
OneAnswer == \A q \in Queries : Len(answers[q]) <= 1

\* The answer is the result over all logs of the request, neither cut short by an
\* answer that came too early nor counting a log twice, or it says that a download failed.
AnswerIsRight ==
    \A q \in Queries : \A i \in 1..Len(answers[q]) :
        AllAnswers!RightAnswer(request[q], answers[q][i])

\* Every step of a query is a step of QueryAnswers or none: it is asked, then
\* answered, and neither is ever changed or taken back.
ImplementsQueryAnswers == AllAnswers!Spec

\* Unless giving up at once or the upload fails, whoever asks is answered.
EveryQueryAnswered ==
    \A q \in Queries : (request[q] # NoRequest) ~> (answers[q] # <<>>)

-----------------------------------------------------------------------------
(* The inductive invariant behind OneAnswer, AnswerIsRight and                *)
(* ImplementsQueryAnswers, in parts.                                          *)

\* What may be found in the first i logs of a request.
FoundIn(r, i) == IF "search" \in QueryFaults THEN 0..r.upto[i] ELSE {r.upto[i]}

NotAsked(q) ==
    /\ op[q] = "none" /\ searching[q] = 0 /\ upload[q] = "none" /\ answers[q] = <<>>

\* An upload is under way, was answered, or was lost.
Uploading(q) ==
    \/ upload[q] \in Ops \union {"end"} /\ answers[q] = <<>>
    \/ upload[q] = "end" /\ answers[q] = <<AllAnswers!AnswerLink(found[q])>>

\* Nobody but the uploader is going to answer.
Concluded(q) ==
    \/ upload[q] = "none" /\ answers[q] = <<AllAnswers!AnswerError>>
    \/ /\ found[q] \in FoundIn(request[q], request[q].n)
       /\ \/ /\ request[q].kind = "count" /\ upload[q] = "none"
             /\ answers[q] = <<AllAnswers!AnswerCount(found[q])>>
          \/ /\ request[q].kind = "find" /\ upload[q] = "none" /\ found[q] = 0
             /\ answers[q] = <<AllAnswers!AnswerNothing>>
          \/ request[q].kind = "find" /\ found[q] > 0 /\ Uploading(q)

\* reference_count is the number of logs that are not searched yet, and while it is
\* not zero nobody has answered.  Only an error sets it to zero before its time.
DownloadInv(q) ==
    LET r == request[q]
    IN  /\ it[q] \in 1..r.n /\ searching[q] \in 0..r.n /\ reference_count[q] \in 0..r.n
        /\ op[q] \in ReportedOps =>
             reference_count[q] = r.n - it[q] + (IF searching[q] = 0 THEN 1 ELSE 2)
        /\ reference_count[q] > 0 =>
             /\ searching[q] # 0 => searching[q] = r.n - reference_count[q] + 1
             /\ found[q] \in FoundIn(r, r.n - reference_count[q])
             /\ upload[q] = "none" /\ answers[q] = <<>>
        /\ reference_count[q] = 0 => Concluded(q)

ClipInv(q) ==
    /\ op[q] = "none" /\ searching[q] = 0
    /\ found[q] = AllAnswers!Total(request[q])
    /\ Uploading(q)

QueryInv(q) ==
    /\ request[q].kind = "none" => NotAsked(q) /\ found[q] = 0
    /\ request[q].kind = "clip" => ClipInv(q)
    /\ request[q].kind \in {"count", "find"} => DownloadInv(q)

IInv == TypeOK /\ \A q \in Queries : QueryInv(q)

=============================================================================
