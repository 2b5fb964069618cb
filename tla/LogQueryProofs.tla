--------------------------- MODULE LogQueryProofs ---------------------------
(***************************************************************************)
(* That a query gets one right answer at most, for any number of queries,  *)
(* threads, logs and hits, and whatever fails; and that LogQuery           *)
(* implements QueryAnswers.                                                *)
(***************************************************************************)
EXTENDS LogQuery, TLAPS

AnAnswer == [kind : AllAnswers!AnswerKinds, value : Nat]

\* What is known of a request to download logs.
LEMMA LogRequestFacts ==
    ASSUME NEW kind, NEW r \in LogRequests(kind)
    PROVE  /\ r.kind = kind /\ r.n \in Nat \ {0}
           /\ r.upto[0] = 0 /\ \A i \in 0..r.n : r.upto[i] \in Nat
           /\ \A i \in 1..r.n : r.upto[i - 1] <= r.upto[i]
<1>1. PICK n \in 1..MaxTargets : r \in Downloads({kind}, n)
  BY DEF LogRequests
<1>2. n \in Nat \ {0}
  BY BoundsAssumption
<1> QED
  BY <1>1, <1>2, BoundsAssumption DEF Downloads

LEMMA ClipRequestFacts ==
    ASSUME NEW r \in ClipRequests
    PROVE  r.kind = "clip" /\ r.n = 0 /\ r.upto[0] \in Nat
  BY BoundsAssumption DEF ClipRequests

LEMMA Asked ==
    ASSUME TypeOK, NEW q \in Queries
    PROVE  /\ request[q].kind \in {"none", "clip", "count", "find"}
           /\ request[q].kind = "none" <=> request[q] = NoRequest
           /\ request[q].kind = "clip" => request[q] \in ClipRequests
           /\ request[q].kind \in {"count", "find"} => request[q] \in LogRequests(request[q].kind)
<1>1. request[q] \in LogRequests("count") \union LogRequests("find") \union ClipRequests
        \union {NoRequest}
  BY DEF TypeOK, Requests
<1>2. NoRequest.kind = "none"
  BY DEF NoRequest
<1> QED
  BY <1>1, <1>2, LogRequestFacts, ClipRequestFacts

\* A hit more or less: the hits of the logs searched so far.
LEMMA FoundMore ==
    ASSUME NEW kind, NEW r \in LogRequests(kind), NEW i \in 1..r.n,
           NEW n \in FoundIn(r, i - 1), NEW hits \in SearchResults(r, i)
    PROVE  n + hits \in FoundIn(r, i) /\ n + hits \in Nat
<1>1. r.upto[i] \in Nat /\ r.upto[i - 1] \in Nat /\ r.upto[i - 1] <= r.upto[i]
  BY LogRequestFacts
<1> DEFINE a == r.upto[i - 1]
           b == r.upto[i]
<1>2. CASE "search" \in QueryFaults
  BY <1>1, <1>2 DEF FoundIn, SearchResults, Hits
<1>3. CASE "search" \notin QueryFaults
  BY <1>1, <1>3 DEF FoundIn, SearchResults, Hits
<1> QED
  BY <1>2, <1>3

\* Steps of one query leave the others alone.
Untouched(p) ==
    /\ request'[p] = request[p] /\ op'[p] = op[p] /\ it'[p] = it[p]
    /\ searching'[p] = searching[p] /\ reference_count'[p] = reference_count[p]
    /\ found'[p] = found[p] /\ upload'[p] = upload[p] /\ answers'[p] = answers[p]

LEMMA UntouchedInv ==
    ASSUME NEW p \in Queries, QueryInv(p), Untouched(p)
    PROVE  QueryInv(p)'
  BY DEF QueryInv, Untouched, NotAsked, ClipInv, DownloadInv, Concluded, Uploading

LEMMA OthersUntouched ==
    ASSUME TypeOK, NEW q \in Queries, Command(q) \/ Handler(q)
    PROVE  \A p \in Queries \ {q} : Untouched(p)
<1> USE DEF TypeOK, Untouched, Send
<1>1. CASE CountCommand(q) \/ FindCommand(q)
  BY <1>1 DEF CountCommand, FindCommand, DownloadCommand, StartDownload
<1>2. CASE ClipCommand(q)
  BY <1>2 DEF ClipCommand, StartUpload
<1>3. CASE DownloadStep(q) \/ ReadHandler(q) \/ ShutdownHandler(q)
  BY <1>3 DEF DownloadStep, ReadHandler, ShutdownHandler
<1>4. CASE ErrorHandler(q)
  BY <1>4 DEF ErrorHandler, ReportError
<1>5. CASE Callback(q)
  BY <1>5 DEF Callback, SearchEnds, Conclude, StartUpload
<1>6. CASE UploadStep(q) \/ UploadEnds(q) \/ UploadFails(q)
  BY <1>6 DEF UploadStep, UploadEnds, UploadFails
<1> QED
  BY <1>1, <1>2, <1>3, <1>4, <1>5, <1>6 DEF Command, Handler

LEMMA InitInv == Init => IInv
<1> SUFFICES ASSUME Init PROVE IInv
  OBVIOUS
<1> USE DEF Init
<1>1. TypeOK
  BY DEF TypeOK
<1>2. ASSUME NEW q \in Queries PROVE QueryInv(q)
  BY <1>2 DEF QueryInv, NotAsked, NoRequest
<1> QED
  BY <1>1, <1>2 DEF IInv

\* The values answers and results are made of.
LEMMA AnswerTypes ==
    /\ AllAnswers!AnswerError \in AnAnswer /\ AllAnswers!AnswerNothing \in AnAnswer
    /\ \A n \in Nat : AllAnswers!AnswerCount(n) \in AnAnswer /\ AllAnswers!AnswerLink(n) \in AnAnswer
  BY DEF AnAnswer, AllAnswers!AnswerKinds, AllAnswers!AnswerError, AllAnswers!AnswerNothing,
         AllAnswers!AnswerCount, AllAnswers!AnswerLink

LEMMA CommandType == ASSUME TypeOK, NEW q \in Queries, Command(q) PROVE TypeOK'
<1> USE DEF TypeOK
<1>1. CASE CountCommand(q) \/ FindCommand(q)
  <2>1. PICK kind \in {"count", "find"} : DownloadCommand(q, kind)
    BY <1>1 DEF CountCommand, FindCommand
  <2>2. PICK r \in LogRequests(kind) :
          /\ request' = [request EXCEPT ![q] = r]
          /\ reference_count' = [reference_count EXCEPT ![q] = r.n]
    BY <2>1 DEF DownloadCommand, References
  <2>3. r \in Requests /\ r.n \in Nat
    BY LogRequestFacts DEF Requests
  <2> QED
    BY <2>1, <2>2, <2>3 DEF DownloadCommand, StartDownload, Ops, NextOp
<1>2. CASE ClipCommand(q)
  <2>1. PICK r \in ClipRequests :
          request' = [request EXCEPT ![q] = r] /\ found' = [found EXCEPT ![q] = r.upto[0]]
    BY <1>2 DEF ClipCommand
  <2>2. r \in Requests /\ r.upto[0] \in Nat
    BY ClipRequestFacts DEF Requests
  <2> QED
    BY <1>2, <2>1, <2>2 DEF ClipCommand, StartUpload, Ops, NextOp
<1> QED
  BY <1>1, <1>2 DEF Command

LEMMA SendType ==
    ASSUME TypeOK, NEW q \in Queries, NEW a \in AnAnswer, Send(q, a)
    PROVE  /\ answers' \in [Queries -> Seq(AnAnswer)]
           /\ answers'[q] = Append(answers[q], a)
<1>1. answers \in [Queries -> Seq(AnAnswer)]
  BY DEF TypeOK, AnAnswer
<1>2. answers[q] \in Seq(AnAnswer)
  BY <1>1
<1>3. Append(answers[q], a) \in Seq(AnAnswer)
  BY <1>2
<1> QED
  BY <1>1, <1>3 DEF Send

\* The search of a log of q ends, and q was waiting for it.
LEMMA SearchEndsFacts ==
    ASSUME IInv, NEW q \in Queries, searching[q] # 0, Awaited(q),
           NEW hits \in SearchResults(request[q], searching[q]), SearchEnds(q, hits)
    PROVE  /\ request[q].kind \in {"count", "find"}
           /\ request[q] \in LogRequests(request[q].kind)
           /\ reference_count' \in [Queries -> Nat] /\ reference_count'[q] = reference_count[q] - 1
           /\ found' \in [Queries -> Nat] /\ found'[q] = found[q] + hits
           /\ found'[q] \in FoundIn(request[q], request[q].n - reference_count'[q])
           /\ reference_count'[q] # 0 => UNCHANGED <<upload, answers>>
           /\ reference_count'[q] = 0 => Conclude(q, found'[q])
<1>1. TypeOK /\ QueryInv(q)
  BY DEF IInv
<1>2. request[q].kind \in {"count", "find"}
  BY <1>1, Asked DEF QueryInv, NotAsked, ClipInv
<1>3. request[q] \in LogRequests(request[q].kind)
  BY <1>1, <1>2, Asked
<1> DEFINE r == request[q]
           n == reference_count[q]
<1>4. r.n \in Nat /\ n \in Nat /\ n > 0 /\ n <= r.n /\ searching[q] = r.n - n + 1
      /\ found[q] \in FoundIn(r, r.n - n)
  BY <1>1, <1>2, <1>3, LogRequestFacts DEF TypeOK, QueryInv, DownloadInv, Awaited
<1>5. searching[q] \in 1..r.n /\ searching[q] - 1 = r.n - n /\ r.n - (n - 1) = searching[q]
  BY <1>4
<1>6. found[q] + hits \in FoundIn(r, searching[q]) /\ found[q] + hits \in Nat
  BY <1>3, <1>4, <1>5, FoundMore
<1>7. reference_count' \in [Queries -> Nat] /\ reference_count'[q] = n - 1
      /\ found' \in [Queries -> Nat] /\ found'[q] = found[q] + hits
  BY <1>1, <1>4, <1>6 DEF TypeOK, SearchEnds
<1>8. r.n - reference_count'[q] = searching[q]
  BY <1>5, <1>7
<1> QED
  BY <1>2, <1>3, <1>6, <1>7, <1>8 DEF SearchEnds, LastSearch

LEMMA HandlerType == ASSUME IInv, NEW q \in Queries, Handler(q) PROVE TypeOK'
<1> DEFINE OpValues == Ops \union {"none", "end"}
<1>0. TypeOK /\ QueryInv(q)
  BY DEF IInv
<1>1. \A o \in Ops : NextOp[o] \in OpValues
  BY DEF Ops, NextOp
<1>2. /\ request \in [Queries -> Requests \union {NoRequest}]
      /\ op \in [Queries -> OpValues] /\ upload \in [Queries -> OpValues]
      /\ it \in [Queries -> Nat] /\ searching \in [Queries -> Nat]
      /\ reference_count \in [Queries -> Nat] /\ found \in [Queries -> Nat]
      /\ answers \in [Queries -> Seq(AnAnswer)]
  BY <1>0 DEF TypeOK, AnAnswer
<1>3. "resolve" \in Ops /\ "write" \in Ops /\ "read" \in Ops /\ "shutdown" \in Ops
  BY DEF Ops, NextOp
<1>4. CASE DownloadStep(q) \/ ShutdownHandler(q)
  BY <1>1, <1>2, <1>3, <1>4 DEF DownloadStep, ShutdownHandler, TypeOK, AnAnswer
<1>5. CASE ReadHandler(q)
  <2>1. it[q] \in Nat /\ it[q] + 1 \in Nat /\ NextOp["read"] \in OpValues /\ "write" \in OpValues
    BY <1>1, <1>2, <1>3
  <2>2. op' \in [Queries -> OpValues]
    BY <1>2, <1>5, <2>1 DEF ReadHandler
  <2>3. it' \in [Queries -> Nat] /\ searching' \in [Queries -> Nat]
    <3>1. /\ it' = [it EXCEPT ![q] = it[q] + 1] \/ it' = it
          /\ searching' = [searching EXCEPT ![q] = it[q]]
      BY <1>5, Zenon DEF ReadHandler
    <3> QED
      BY <1>2, <2>1, <3>1
  <2> QED
    BY <1>2, <1>5, <2>2, <2>3 DEF ReadHandler, TypeOK, AnAnswer
<1>6. CASE ErrorHandler(q)
  <2>1. answers' \in [Queries -> Seq(AnAnswer)]
    BY <1>0, <1>6, SendType, AnswerTypes DEF ErrorHandler, ReportError
  <2> QED
    BY <1>2, <1>6, <2>1 DEF ErrorHandler, TypeOK, AnAnswer
<1>7. CASE Callback(q)
  <2>1. PICK hits \in SearchResults(request[q], searching[q]) :
          IF Awaited(q) THEN SearchEnds(q, hits)
                        ELSE UNCHANGED <<reference_count, found, upload, answers>>
    BY <1>7 DEF Callback
  <2>2. CASE ~Awaited(q)
    BY <1>2, <1>7, <2>1, <2>2 DEF Callback, TypeOK, AnAnswer
  <2>3. CASE Awaited(q)
    <3>1. SearchEnds(q, hits) /\ searching[q] # 0
      BY <1>7, <2>1, <2>3 DEF Callback
    <3>2. /\ reference_count' \in [Queries -> Nat] /\ found' \in [Queries -> Nat]
          /\ reference_count'[q] # 0 => UNCHANGED <<upload, answers>>
          /\ reference_count'[q] = 0 => Conclude(q, found'[q])
      BY <2>3, <3>1, SearchEndsFacts
    <3>3. upload' \in [Queries -> OpValues] /\ answers' \in [Queries -> Seq(AnAnswer)]
      <4>1. CASE reference_count'[q] # 0
        BY <1>2, <3>2, <4>1
      <4>2. CASE reference_count'[q] = 0
        <5>1. found'[q] \in Nat
          BY <3>2
        <5>2. CASE UNCHANGED answers
          BY <1>2, <1>3, <3>2, <4>2, <5>2 DEF Conclude, StartUpload
        <5>3. CASE UNCHANGED upload /\ Send(q, AllAnswers!AnswerCount(found'[q]))
          BY <1>0, <1>2, <5>1, <5>3, SendType, AnswerTypes
        <5>4. CASE UNCHANGED upload /\ Send(q, AllAnswers!AnswerNothing)
          BY <1>0, <1>2, <5>4, SendType, AnswerTypes
        <5> QED
          BY <3>2, <4>2, <5>2, <5>3, <5>4 DEF Conclude
      <4> QED
        BY <4>1, <4>2
    <3> QED
      BY <1>2, <1>7, <3>2, <3>3 DEF Callback, TypeOK, AnAnswer
  <2> QED
    BY <2>2, <2>3
<1>8. CASE UploadStep(q) \/ UploadFails(q)
  BY <1>1, <1>2, <1>3, <1>8 DEF UploadStep, UploadFails, TypeOK, AnAnswer
<1>9. CASE UploadEnds(q)
  <2>1. answers' \in [Queries -> Seq(AnAnswer)]
    BY <1>0, <1>2, <1>9, SendType, AnswerTypes DEF UploadEnds
  <2> QED
    BY <1>1, <1>2, <1>3, <1>9, <2>1 DEF UploadEnds, TypeOK, AnAnswer
<1> QED
  BY <1>4, <1>5, <1>6, <1>7, <1>8, <1>9 DEF Handler

\* What a command makes of the query it asks.
LEMMA CommandInv == ASSUME IInv, NEW q \in Queries, Command(q) PROVE QueryInv(q)'
<1>1. TypeOK /\ QueryInv(q)
  BY DEF IInv
<1>2. request[q].kind = "none"
  BY <1>1, Asked DEF Command, CountCommand, FindCommand, DownloadCommand, ClipCommand
<1>3. NotAsked(q) /\ found[q] = 0
  BY <1>1, <1>2 DEF QueryInv
<1>4. CASE CountCommand(q) \/ FindCommand(q)
  <2>1. PICK kind \in {"count", "find"} : DownloadCommand(q, kind)
    BY <1>4 DEF CountCommand, FindCommand
  <2>2. PICK r \in LogRequests(kind) :
          request'[q] = r /\ reference_count'[q] = r.n
    BY <1>1, <2>1 DEF DownloadCommand, References, TypeOK
  <2>3. r.kind = kind /\ r.n \in Nat \ {0} /\ r.upto[0] = 0
    BY LogRequestFacts
  <2>4. /\ it'[q] = 1 /\ op'[q] \in {"resolve", "end"}
        /\ UNCHANGED <<searching, found, upload, answers>>
    BY <1>1, <2>1 DEF DownloadCommand, StartDownload, TypeOK
  <2>5. 0 \in FoundIn(r, 0)
    BY <2>3 DEF FoundIn
  <2>6. r.n - r.n = 0 /\ 1 \in 1..r.n /\ r.n = r.n - 1 + 1 /\ r.n \in 0..r.n /\ 0 \in 0..r.n
    BY <2>3
  <2>7. DownloadInv(q)'
    BY <1>3, <2>2, <2>3, <2>4, <2>5, <2>6 DEF DownloadInv, NotAsked
  <2> QED
    BY <2>1, <2>2, <2>3, <2>7 DEF QueryInv
<1>5. CASE ClipCommand(q)
  <2>1. PICK r \in ClipRequests : request'[q] = r /\ found'[q] = r.upto[0]
    BY <1>1, <1>5 DEF ClipCommand, TypeOK
  <2>2. r.kind = "clip" /\ r.n = 0
    BY ClipRequestFacts
  <2>3. /\ UNCHANGED <<op, searching, answers>>
        /\ upload'[q] \in Ops \union {"end"}
    BY <1>1, <1>5 DEF ClipCommand, StartUpload, TypeOK, Ops, NextOp
  <2>4. ClipInv(q)'
    BY <1>3, <2>1, <2>2, <2>3 DEF ClipInv, NotAsked, Uploading, AllAnswers!Total
  <2> QED
    BY <2>1, <2>2, <2>4 DEF QueryInv
<1> QED
  BY <1>4, <1>5 DEF Command

\* A handler of the downloader runs for a query that downloads.
LEMMA Downloading ==
    ASSUME IInv, NEW q \in Queries, op[q] \in Ops \/ searching[q] # 0
    PROVE  /\ request[q].kind \in {"count", "find"} /\ DownloadInv(q)
           /\ request[q].n \in Nat \ {0}
<1>1. TypeOK /\ QueryInv(q)
  BY DEF IInv
<1>2. "none" \notin Ops
  BY DEF Ops, NextOp
<1>3. request[q].kind \in {"count", "find"}
  BY <1>1, <1>2, Asked DEF QueryInv, NotAsked, ClipInv
<1> QED
  BY <1>1, <1>3, Asked, LogRequestFacts DEF QueryInv

\* An upload runs for a query whose result is known.
LEMMA UploadRunning ==
    ASSUME IInv, NEW q \in Queries, upload[q] \in Ops
    PROVE  /\ request[q].kind \in {"clip", "find"} /\ answers[q] = <<>>
           /\ request[q].kind = "find" =>
                /\ request[q].n \in Nat \ {0} /\ reference_count[q] = 0
                /\ found[q] \in FoundIn(request[q], request[q].n) \ {0} /\ found[q] > 0
           /\ request[q].kind = "clip" => found[q] = AllAnswers!Total(request[q])
<1>1. TypeOK /\ QueryInv(q)
  BY DEF IInv
<1>2. "none" \notin Ops /\ "end" \notin Ops
  BY DEF Ops, NextOp
<1>3. CASE request[q].kind = "clip"
  BY <1>1, <1>2, <1>3 DEF QueryInv, ClipInv, Uploading
<1>4. CASE request[q].kind \in {"count", "find"}
  <2>1. DownloadInv(q) /\ request[q].n \in Nat \ {0}
    BY <1>1, <1>4, Asked, LogRequestFacts DEF QueryInv
  <2>2. reference_count[q] = 0
    BY <1>1, <1>2, <2>1 DEF DownloadInv, TypeOK
  <2>3. Concluded(q)
    BY <2>1, <2>2 DEF DownloadInv
  <2> QED
    BY <1>2, <1>4, <2>1, <2>2, <2>3 DEF Concluded, Uploading
<1> QED
  BY <1>1, <1>2, <1>3, <1>4, Asked DEF QueryInv, NotAsked

\* The last search of a log of q concludes the query.
LEMMA ConcludeInv ==
    ASSUME TypeOK, NEW q \in Queries, UNCHANGED request,
           request[q].kind \in {"count", "find"}, answers[q] = <<>>, upload[q] = "none",
           found'[q] \in Nat, found'[q] \in FoundIn(request[q], request[q].n),
           Conclude(q, found'[q])
    PROVE  Concluded(q)'
<1>1. \A a : Send(q, a) => answers'[q] = <<a>>
  BY DEF TypeOK, Send
<1>2. StartUpload(q) => upload'[q] \in Ops \union {"end"}
  BY DEF TypeOK, StartUpload, Ops, NextOp
<1>3. FoundIn(request'[q], request'[q].n) = FoundIn(request[q], request[q].n)
  OBVIOUS
<1>4. CASE request[q].kind = "count" /\ Send(q, AllAnswers!AnswerCount(found'[q])) /\ UNCHANGED upload
  BY <1>1, <1>3, <1>4 DEF Concluded, AllAnswers!AnswerCount
<1>5. CASE request[q].kind = "find" /\ found'[q] = 0 /\ Send(q, AllAnswers!AnswerNothing)
           /\ UNCHANGED upload
  BY <1>1, <1>3, <1>5 DEF Concluded, AllAnswers!AnswerNothing
<1>6. CASE request[q].kind = "find" /\ found'[q] > 0 /\ StartUpload(q) /\ UNCHANGED answers
  BY <1>2, <1>3, <1>6 DEF Concluded, Uploading
<1> QED
  BY <1>4, <1>5, <1>6 DEF Conclude

LEMMA CallbackInv == ASSUME IInv, NEW q \in Queries, Callback(q) PROVE QueryInv(q)'
<1> DEFINE r == request[q]
           n == reference_count[q]
<1>1. TypeOK /\ searching[q] # 0 /\ UNCHANGED <<request, op, it>>
  BY DEF IInv, Callback
<1>2. r.kind \in {"count", "find"} /\ DownloadInv(q) /\ r.n \in Nat \ {0}
  BY <1>1, Downloading
<1>3. searching'[q] = 0
  BY <1>1 DEF Callback, TypeOK
<1>4. PICK hits \in SearchResults(r, searching[q]) :
        IF Awaited(q) THEN SearchEnds(q, hits)
                      ELSE UNCHANGED <<reference_count, found, upload, answers>>
  BY DEF Callback
<1>5. n \in Nat /\ n <= r.n /\ it[q] \in Nat /\ it[q] >= 1 /\ it[q] <= r.n
  BY <1>1, <1>2 DEF DownloadInv, TypeOK
<1>6. CASE n = 0
  <2>1. UNCHANGED <<reference_count, found, upload, answers>>
    BY <1>4, <1>6 DEF Awaited
  <2>2. op[q] \notin ReportedOps
    BY <1>1, <1>2, <1>5, <1>6 DEF DownloadInv
  <2>3. DownloadInv(q)'
    BY <1>1, <1>2, <1>3, <1>6, <2>1, <2>2 DEF DownloadInv, Concluded, Uploading
  <2> QED
    BY <1>1, <1>2, <2>3 DEF QueryInv
<1>7. CASE n > 0
  <2>1. SearchEnds(q, hits) /\ Awaited(q)
    BY <1>4, <1>7 DEF Awaited
  <2>2. /\ reference_count'[q] = n - 1 /\ found'[q] \in FoundIn(r, r.n - reference_count'[q])
        /\ found' \in [Queries -> Nat]
        /\ reference_count'[q] # 0 => UNCHANGED <<upload, answers>>
        /\ reference_count'[q] = 0 => Conclude(q, found'[q])
    BY <1>1, <1>4, <2>1, SearchEndsFacts
  <2>3. upload[q] = "none" /\ answers[q] = <<>>
    BY <1>2, <1>7 DEF DownloadInv
  <2>4. op[q] \in ReportedOps => reference_count'[q] = r.n - it[q] + 1
    BY <1>1, <1>2, <1>5, <2>2 DEF DownloadInv
  <2>5. reference_count'[q] = 0 => Concluded(q)'
    <3> SUFFICES ASSUME reference_count'[q] = 0 PROVE Concluded(q)'
      OBVIOUS
    <3>1. r.n - reference_count'[q] = r.n
      BY <1>2
    <3>2. found'[q] \in FoundIn(r, r.n) /\ found'[q] \in Nat
      BY <2>2, <3>1
    <3> QED
      BY <1>1, <1>2, <2>2, <2>3, <3>2, ConcludeInv
  <2>6. reference_count'[q] \in 0..r.n /\ 0 \in 0..r.n
    BY <1>2, <1>5, <1>7, <2>2
  <2>7. DownloadInv(q)'
    BY <1>1, <1>2, <1>3, <2>2, <2>3, <2>4, <2>5, <2>6 DEF DownloadInv, FoundIn
  <2> QED
    BY <1>1, <1>2, <2>7 DEF QueryInv
<1> QED
  BY <1>5, <1>6, <1>7

LEMMA DownloadStepInv == ASSUME IInv, NEW q \in Queries, DownloadStep(q) PROVE QueryInv(q)'
<1>1. TypeOK /\ op[q] \in Ops \ {"read", "shutdown"}
  BY DEF IInv, DownloadStep
<1>2. request[q].kind \in {"count", "find"} /\ DownloadInv(q)
  BY <1>1, Downloading
<1>3. op[q] \in ReportedOps /\ op'[q] \in ReportedOps
  BY <1>1 DEF DownloadStep, TypeOK, ReportedOps, Ops, NextOp
<1>4. UNCHANGED <<request, it, searching, reference_count, found, upload, answers>>
  BY DEF DownloadStep
<1>5. DownloadInv(q)'
  BY <1>2, <1>3, <1>4 DEF DownloadInv, Concluded, Uploading
<1> QED
  BY <1>2, <1>4, <1>5 DEF QueryInv

LEMMA ReadHandlerInv == ASSUME IInv, NEW q \in Queries, ReadHandler(q) PROVE QueryInv(q)'
<1> DEFINE r == request[q]
           n == reference_count[q]
<1>1. TypeOK /\ op[q] = "read" /\ searching[q] = 0
  BY DEF IInv, ReadHandler
<1>2. "read" \in Ops /\ "read" \in ReportedOps /\ NextOp["read"] = "shutdown"
      /\ "shutdown" \notin ReportedOps
  BY DEF ReportedOps, Ops, NextOp
<1>3. r.kind \in {"count", "find"} /\ DownloadInv(q) /\ r.n \in Nat \ {0}
  BY <1>1, <1>2, Downloading
<1>4. UNCHANGED <<request, reference_count, found, upload, answers>>
  BY DEF ReadHandler
<1>5. it[q] \in 1..r.n /\ n = r.n - it[q] + 1
  BY <1>1, <1>2, <1>3 DEF DownloadInv
<1>6. n > 0 /\ n \in 0..r.n /\ it[q] \in 0..r.n /\ it[q] # 0 /\ it[q] = r.n - n + 1
  BY <1>3, <1>5
<1>7. searching'[q] = it[q]
  BY <1>1 DEF ReadHandler, TypeOK
<1>8. \/ op'[q] = "write" /\ it'[q] = it[q] + 1 /\ it[q] < r.n
      \/ op'[q] = "shutdown" /\ it'[q] = it[q]
  BY <1>1, <1>2 DEF ReadHandler, TypeOK
<1>9. it'[q] \in 1..r.n /\ (op'[q] \in ReportedOps => n = r.n - it'[q] + 2)
  BY <1>2, <1>3, <1>5, <1>8
<1>10. DownloadInv(q)'
  BY <1>3, <1>4, <1>6, <1>7, <1>9 DEF DownloadInv
<1> QED
  BY <1>3, <1>4, <1>10 DEF QueryInv

LEMMA ShutdownHandlerInv ==
    ASSUME IInv, NEW q \in Queries, ShutdownHandler(q)
    PROVE  QueryInv(q)'
<1>1. TypeOK /\ op[q] = "shutdown" /\ "shutdown" \in Ops
  BY DEF IInv, ShutdownHandler, Ops, NextOp
<1>2. request[q].kind \in {"count", "find"} /\ DownloadInv(q)
  BY <1>1, Downloading
<1>3. op'[q] \notin ReportedOps
  BY <1>1 DEF ShutdownHandler, TypeOK, ReportedOps, Ops, NextOp
<1>4. UNCHANGED <<request, it, searching, reference_count, found, upload, answers>>
  BY DEF ShutdownHandler
<1>5. DownloadInv(q)'
  BY <1>2, <1>3, <1>4 DEF DownloadInv, Concluded, Uploading
<1> QED
  BY <1>2, <1>4, <1>5 DEF QueryInv

LEMMA ErrorHandlerInv == ASSUME IInv, NEW q \in Queries, ErrorHandler(q) PROVE QueryInv(q)'
<1> DEFINE r == request[q]
           n == reference_count[q]
<1>1. TypeOK /\ op[q] \in ReportedOps /\ op[q] \in Ops
  BY DEF IInv, ErrorHandler, ReportedOps
<1>2. r.kind \in {"count", "find"} /\ DownloadInv(q) /\ r.n \in Nat \ {0}
  BY <1>1, Downloading
<1>3. n > 0
  <2>1. it[q] \in 1..r.n /\ (n = r.n - it[q] + 1 \/ n = r.n - it[q] + 2)
    BY <1>1, <1>2 DEF DownloadInv
  <2> QED
    BY <1>2, <2>1
<1>4. upload[q] = "none" /\ answers[q] = <<>>
  BY <1>2, <1>3 DEF DownloadInv
<1>5. UNCHANGED <<request, it, searching, found, upload>>
  BY DEF ErrorHandler
<1>6. /\ reference_count'[q] = 0 /\ op'[q] \notin ReportedOps
      /\ answers'[q] = <<AllAnswers!AnswerError>>
  BY <1>1, <1>4 DEF ErrorHandler, ReportError, Send, TypeOK, ReportedOps, Ops, NextOp
<1>7. Concluded(q)'
  BY <1>4, <1>5, <1>6 DEF Concluded, AllAnswers!AnswerError
<1>8. 0 \in 0..r.n
  BY <1>2
<1>9. DownloadInv(q)'
  BY <1>2, <1>5, <1>6, <1>7, <1>8 DEF DownloadInv
<1> QED
  BY <1>2, <1>5, <1>9 DEF QueryInv

\* The uploader goes on, ends with its answer, or fails.
LEMMA UploadInv ==
    ASSUME IInv, NEW q \in Queries, UploadStep(q) \/ UploadEnds(q) \/ UploadFails(q)
    PROVE  QueryInv(q)'
<1>1. TypeOK /\ QueryInv(q) /\ upload[q] \in Ops
  BY DEF IInv, UploadStep, UploadEnds, UploadFails, Ops, NextOp
<1>2. /\ request[q].kind \in {"clip", "find"} /\ answers[q] = <<>>
      /\ request[q].kind = "find" =>
           /\ reference_count[q] = 0
           /\ found[q] \in FoundIn(request[q], request[q].n) /\ found[q] > 0
  BY <1>1, UploadRunning
<1>3. UNCHANGED <<request, op, it, searching, reference_count, found>>
  BY DEF UploadStep, UploadEnds, UploadFails
<1>4. Uploading(q)'
  <2>1. CASE UploadStep(q) \/ UploadFails(q)
    <3>1. upload'[q] \in Ops \union {"end"} /\ UNCHANGED answers
      BY <1>1, <2>1 DEF UploadStep, UploadFails, TypeOK, Ops, NextOp
    <3> QED
      BY <1>2, <3>1 DEF Uploading
  <2>2. CASE UploadEnds(q)
    <3>1. upload'[q] = "end" /\ answers'[q] = <<AllAnswers!AnswerLink(found[q])>>
      BY <1>1, <1>2, <2>2 DEF UploadEnds, TypeOK, Send, Ops, NextOp
    <3> QED
      BY <1>3, <3>1 DEF Uploading, AllAnswers!AnswerLink
  <2> QED
    BY <2>1, <2>2
<1>5. CASE request[q].kind = "clip"
  <2>1. ClipInv(q)'
    BY <1>1, <1>3, <1>4, <1>5 DEF QueryInv, ClipInv, AllAnswers!Total
  <2> QED
    BY <1>3, <1>5, <2>1 DEF QueryInv
<1>6. CASE request[q].kind = "find"
  <2>1. Concluded(q)'
    BY <1>2, <1>3, <1>4, <1>6 DEF Concluded, FoundIn
  <2>2. DownloadInv(q)
    BY <1>1, <1>6 DEF QueryInv
  <2>3. DownloadInv(q)'
    BY <1>2, <1>3, <1>6, <2>1, <2>2 DEF DownloadInv
  <2> QED
    BY <1>3, <1>6, <2>3 DEF QueryInv
<1> QED
  BY <1>2, <1>5, <1>6

LEMMA NextInv == IInv /\ [Next]_vars => IInv'
<1> SUFFICES ASSUME IInv, [Next]_vars PROVE IInv'
  OBVIOUS
<1>1. TypeOK /\ \A q \in Queries : QueryInv(q)
  BY DEF IInv
<1>2. ASSUME NEW q \in Queries, Command(q) \/ Handler(q) PROVE IInv'
  <2>1. TypeOK'
    BY <1>1, <1>2, CommandType, HandlerType
  <2>2. QueryInv(q)'
    BY <1>2, CommandInv, DownloadStepInv, ReadHandlerInv, ShutdownHandlerInv, ErrorHandlerInv,
       CallbackInv, UploadInv DEF Handler
  <2>3. \A p \in Queries \ {q} : QueryInv(p)'
    BY <1>1, <1>2, OthersUntouched, UntouchedInv
  <2>4. \A p \in Queries : QueryInv(p)'
    BY <2>2, <2>3
  <2> QED
    BY <2>1, <2>4 DEF IInv
<1>3. CASE UNCHANGED vars
  <2>1. TypeOK'
    BY <1>1, <1>3 DEF TypeOK, vars
  <2>2. \A q \in Queries : Untouched(q)
    BY <1>3 DEF Untouched, vars
  <2>3. \A q \in Queries : QueryInv(q)'
    BY <1>1, <2>2, UntouchedInv
  <2> QED
    BY <2>1, <2>3 DEF IInv
<1> QED
  BY <1>2, <1>3 DEF Next

\* IInv holds in every reachable state.
THEOREM Invariance == Spec => []IInv
  BY InitInv, NextInv, PTL DEF Spec

\* Every variable has its type: reference_count, a size_t, never drops below zero.
THEOREM TypeCorrect == Spec => []TypeOK
<1>1. IInv => TypeOK
  BY DEF IInv
<1> QED
  BY <1>1, Invariance, PTL

\* What IInv says of the answer to a query.
LEMMA AnswerOfQuery ==
    ASSUME IInv, NEW q \in Queries
    PROVE  \/ answers[q] = <<>>
           \/ \E a \in [kind : AllAnswers!AnswerKinds, value : 0..AllAnswers!Total(request[q])] :
                answers[q] = <<a>> /\ AllAnswers!RightAnswer(request[q], a)
<1> USE DEF AllAnswers!AnswerKinds
<1> DEFINE r == request[q]
           total == AllAnswers!Total(r)
           Right(a) == /\ a \in [kind : AllAnswers!AnswerKinds, value : 0..total]
                       /\ AllAnswers!RightAnswer(r, a)
<1>1. TypeOK /\ QueryInv(q)
  BY DEF IInv
<1>2. CASE r.kind = "none"
  BY <1>1, <1>2 DEF QueryInv, NotAsked
<1>3. CASE r.kind = "clip"
  <2>1. total \in Nat /\ found[q] = total
    BY <1>1, <1>3, Asked, ClipRequestFacts DEF QueryInv, ClipInv, AllAnswers!Total
  <2>2. Right(AllAnswers!AnswerLink(total))
    BY <1>3, <2>1 DEF AllAnswers!AnswerLink, AllAnswers!RightAnswer
  <2> QED
    BY <1>1, <1>3, <2>1, <2>2 DEF QueryInv, ClipInv, Uploading
<1>4. CASE r.kind \in {"count", "find"}
  <2>1. DownloadInv(q) /\ total \in Nat
    BY <1>1, <1>4, Asked, LogRequestFacts DEF QueryInv, AllAnswers!Total
  <2>2. CASE reference_count[q] > 0
    BY <2>1, <2>2 DEF DownloadInv
  <2>3. CASE reference_count[q] = 0
    <3>1. Concluded(q)
      BY <2>1, <2>3 DEF DownloadInv
    <3>2. CASE answers[q] = <<AllAnswers!AnswerError>>
      <4>1. Right(AllAnswers!AnswerError)
        BY <1>4, <2>1 DEF AllAnswers!AnswerError, AllAnswers!RightAnswer
      <4> QED
        BY <3>2, <4>1
    <3>3. CASE answers[q] # <<AllAnswers!AnswerError>>
      <4>1. found[q] \in FoundIn(r, r.n) /\ found[q] \in Nat
        BY <1>1, <3>1, <3>3 DEF Concluded, TypeOK
      <4>2. found[q] \in 0..total
        BY <2>1, <4>1 DEF FoundIn, AllAnswers!Total
      <4>3. found[q] \in AllAnswers!Results(r)
        BY <4>1 DEF FoundIn, AllAnswers!Results, AllAnswers!Total
      <4>4. r.kind = "count" => Right(AllAnswers!AnswerCount(found[q]))
        BY <4>2, <4>3 DEF AllAnswers!AnswerCount, AllAnswers!RightAnswer
      <4>5. r.kind = "find" /\ found[q] = 0 => Right(AllAnswers!AnswerNothing)
        BY <2>1, <4>3 DEF AllAnswers!AnswerNothing, AllAnswers!RightAnswer
      <4>6. r.kind = "find" /\ found[q] > 0 => Right(AllAnswers!AnswerLink(found[q]))
        BY <4>2, <4>3 DEF AllAnswers!AnswerLink, AllAnswers!RightAnswer
      <4> QED
        BY <3>1, <3>3, <4>4, <4>5, <4>6 DEF Concluded, Uploading
    <3> QED
      BY <3>2, <3>3
  <2> QED
    BY <1>1, <2>2, <2>3 DEF TypeOK
<1> QED
  BY <1>1, <1>2, <1>3, <1>4, Asked

\* However the threads interleave errors, searches and uploads, nobody is answered
\* twice.
THEOREM AnsweredOnce == Spec => []OneAnswer
<1>1. ASSUME IInv, NEW q \in Queries PROVE Len(answers[q]) <= 1
  <2>1. answers[q] = <<>> \/ \E a : answers[q] = <<a>>
    BY <1>1, AnswerOfQuery
  <2>2. ASSUME NEW a, answers[q] = <<a>> PROVE Len(answers[q]) <= 1
    <3>1. Len(<<a>>) = 1
      OBVIOUS
    <3> QED
      BY <2>2, <3>1
  <2>3. CASE answers[q] = <<>>
    BY <2>3
  <2> QED
    BY <2>1, <2>2, <2>3
<1>2. IInv => OneAnswer
  BY <1>1 DEF OneAnswer
<1> QED
  BY <1>2, Invariance, PTL

\* An answer is the result over all logs, or says that a download failed.
THEOREM AnsweredRight == Spec => []AnswerIsRight
<1>1. ASSUME IInv PROVE AnswerIsRight
  <2> SUFFICES ASSUME NEW q \in Queries, NEW i \in 1..Len(answers[q])
               PROVE  AllAnswers!RightAnswer(request[q], answers[q][i])
    BY DEF AnswerIsRight
  <2>1. CASE answers[q] = <<>>
    BY <2>1
  <2>2. CASE \E a : answers[q] = <<a>> /\ AllAnswers!RightAnswer(request[q], a)
    BY <2>2
  <2> QED
    BY <1>1, <2>1, <2>2, AnswerOfQuery
<1> QED
  BY <1>1, Invariance, PTL

\* A step that answers nobody, or one query that had no answer.
LEMMA AnswerStep ==
    ASSUME TypeOK, NEW q \in Queries, Handler(q)
    PROVE  /\ UNCHANGED request
           /\ \/ UNCHANGED answers
              \/ \E a : answers' = [answers EXCEPT ![q] = Append(answers[q], a)]
<1>1. CASE ErrorHandler(q)
  BY <1>1 DEF ErrorHandler, ReportError, Send
<1>2. CASE Callback(q)
  BY <1>2 DEF Callback, SearchEnds, Conclude, Send
<1>3. CASE UploadEnds(q)
  BY <1>3 DEF UploadEnds, Send
<1>4. CASE DownloadStep(q) \/ ReadHandler(q) \/ ShutdownHandler(q) \/ UploadStep(q) \/ UploadFails(q)
  BY <1>4 DEF DownloadStep, ReadHandler, ShutdownHandler, UploadStep, UploadFails
<1> QED
  BY <1>1, <1>2, <1>3, <1>4 DEF Handler

\* Asking a query of the downloader or the uploader asks it of QueryAnswers.
LEMMA AskStep ==
    ASSUME NEW q \in Queries, Command(q)
    PROVE  AllAnswers!Ask(q)
<1>1. CASE CountCommand(q) \/ FindCommand(q)
  BY <1>1 DEF CountCommand, FindCommand, DownloadCommand, Requests, AllAnswers!Ask
<1>2. CASE ClipCommand(q)
  BY <1>2 DEF ClipCommand, Requests, AllAnswers!Ask
<1> QED
  BY <1>1, <1>2 DEF Command

\* What every query has: no answer, or a right one.
AnswerInv ==
    \A q \in Queries :
        \/ answers[q] = <<>>
        \/ \E a \in [kind : AllAnswers!AnswerKinds, value : 0..AllAnswers!Total(request[q])] :
             answers[q] = <<a>> /\ AllAnswers!RightAnswer(request[q], a)

LEMMA AnswersOfAll == IInv => AnswerInv
  BY AnswerOfQuery DEF AnswerInv

LEMMA AppendIsFirst ==
    ASSUME NEW S, NEW s \in Seq(S), NEW a, NEW b, Append(s, a) = <<b>>
    PROVE  s = <<>>
<1> DEFINE T == S \union {a}
<1>1. s \in Seq(T) /\ a \in T
  OBVIOUS
<1>2. Len(Append(s, a)) = Len(s) + 1
  BY <1>1
<1>3. Len(<<b>>) = 1
  OBVIOUS
<1>4. Len(s) \in Nat /\ Len(s) = 0
  BY <1>2, <1>3
<1> QED
  BY <1>4

\* LogQuery implements QueryAnswers.
THEOREM Implementation == Spec => ImplementsQueryAnswers
<1>1. Init => AllAnswers!Init
  BY DEF Init, AllAnswers!Init
<1>2. ASSUME TypeOK, AnswerInv', [Next]_vars
      PROVE  [AllAnswers!Next]_AllAnswers!vars
  <2>1. ASSUME NEW q \in Queries, Command(q) PROVE AllAnswers!Next
    BY <2>1, AskStep DEF AllAnswers!Next
  <2>2. ASSUME NEW q \in Queries, Handler(q), ~UNCHANGED answers PROVE AllAnswers!Next
    <3>1. PICK a : answers' = [answers EXCEPT ![q] = Append(answers[q], a)]
      BY <1>2, <2>2, AnswerStep
    <3>2. UNCHANGED request
      BY <1>2, <2>2, AnswerStep
    <3>3. answers'[q] = Append(answers[q], a) /\ answers[q] \in Seq(AnAnswer)
      BY <1>2, <3>1 DEF TypeOK, AnAnswer
    <3>4. answers'[q] # <<>>
      BY <3>3
    <3>5. PICK b \in [kind : AllAnswers!AnswerKinds, value : 0..AllAnswers!Total(request[q])] :
            answers'[q] = <<b>> /\ AllAnswers!RightAnswer(request[q], b)
      BY <1>2, <3>2, <3>4 DEF AnswerInv, AllAnswers!Total, AllAnswers!RightAnswer,
         AllAnswers!Results
    <3>6. answers[q] = <<>>
      <4>1. Append(answers[q], a) = <<b>>
        BY <3>3, <3>5
      <4> QED
        BY <3>3, <4>1, AppendIsFirst
    <3>7. answers' = [answers EXCEPT ![q] = <<b>>]
      BY <3>1, <3>3, <3>5
    <3>8. AllAnswers!Answer(q)
      BY <3>2, <3>5, <3>6, <3>7 DEF AllAnswers!Answer
    <3> QED
      BY <3>8 DEF AllAnswers!Next
  <2>3. ASSUME NEW q \in Queries, Handler(q) PROVE [AllAnswers!Next]_AllAnswers!vars
    <3>1. UNCHANGED request
      BY <1>2, <2>3, AnswerStep
    <3> QED
      BY <2>2, <2>3, <3>1 DEF AllAnswers!vars
  <2>4. CASE UNCHANGED vars
    BY <2>4 DEF vars, AllAnswers!vars
  <2> QED
    BY <1>2, <2>1, <2>3, <2>4 DEF Next
<1>3. IInv => TypeOK
  BY DEF IInv
<1> QED
  BY <1>1, <1>2, <1>3, AnswersOfAll, Invariance, PTL DEF Spec, ImplementsQueryAnswers, AllAnswers!Spec

=============================================================================
