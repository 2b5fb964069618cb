# SaivBot in TLA+

TLA+ models of SaivBot, a Twitch chat bot in C++17 on Boost.Asio, with TLC configurations that
check them on small instances and TLAPS proofs of what matters most for every instance.
Definitions keep the names of the source; `PROJECT.json` maps each of them to its lines.

## 1. The system

`main` starts `hardware_concurrency()` threads, each of which calls `io_context::run` and goes on
when a handler throws (`src/src/main.cpp`). All else happens in handlers.

| Component | State | Operations |
|-|-|-|
| IRC connection (`SaivBot.cpp`) | `m_stream`, `m_suspend_read`, `m_suspend_send`, `m_send_queue`, `m_send_queue_busy`, `m_last_message_sendt(_time)`, the timer, `m_msg_pre_buffer`, two strands | `run`, `onResolve`, `onConnect`, `onHandshake`, `onRead`, `consumeMsgBuffer`, `postSendIRC`, `doSendQueue`, `onSendQueue`, `postDoRECONNECT`, `reconnectHandler`, `doShutdown` |
| Line splitting, `IRCMessage` | `m_buffer`; a string and views into it | `parseBuffer`; parse, copy, move |
| Queries (`SaivBot.hpp`, `SaivBot.cpp`) | per query: `reference_count`, `shared_count` or `shared_lines_found`, a mutex | `countCommandFunc`, `findCommandFunc`, `clipCommandFunc`, their callbacks and error handlers |
| `LogDownloader` | the stream, the request, `m_http_response_parser`, `m_read_handler_mutex` | a chain of handlers, `errorHandler` |
| `NuulsUploader` (`DankHttp.cpp`) | the stream and the request | a chain of handlers and the callback |
| Log parsing, periods (`Log`, `TimeDetail.hpp`) | none | the two parsers, `parseTimePeriod`, `periodToYearMonths`, `periodToDates` |
| Commands and permissions | `m_whitelist`, `m_modlist`, `m_channels` | `promote`, `demote`, `join`, `part`, `say` and others |
| Config file | `Config.txt` | `loadConfig`, `saveConfig` |
| `IRCMessageBuffer` | the last 1000 messages of a channel, a mutex | `push`, `accessLinesFromNow` |
| `IRCMessageTimedBuffer` | compiled, but used by nothing | |

How they interact. The handlers that read run on `m_read_strand`, those that write on
`m_send_strand`; `reconnectHandler`, downloads and uploads run on no strand. A line is handled by
`consumeMsgBuffer` inside `onRead`; a command answers with `postSendIRC`, or starts a
`LogDownloader` whose callbacks, on any thread, answer or start a `NuulsUploader`. RECONNECT goes
from the read strand to the send strand and from there to `reconnectHandler`, which calls `run`.

What is hard: handlers that were posted can overtake each other; three places continue the send
loop and only flags keep them apart; a reconnect replaces the queue under an outstanding write;
each error path is an exception that leaves state behind; the handlers of the next download run
while the log before it is searched; a shutdown meets all of these. Besides the threads: what is read
may be cut anywhere, and be left over from another connection; objects hold views into their own
strings and are moved; the config is saved by emptying its file first; lists of channels follow a
server that may refuse or never confirm; periods meet the ends of months. `PROJECT.json` lists these
hazards at their lines, with the properties that cover them or a note saying what is missing.

## 2. Modules

| Module | What it is |
|-|-|
| `IrcConnection` | the connection: state, one action per handler, safety properties, inductive invariant |
| `MCIrcConnection` | fairness and the liveness properties of the connection |
| `Transmission` | abstract: what the send side promises to callers of `postSendIRC` |
| `IrcConnectionProofs`, `IrcWriteProofs` | proofs about `IrcConnection`: its invariants; what it writes, and when, and that it implements `Transmission` |
| `LogQuery` | count, find and clip, with the downloader and the uploader |
| `QueryAnswers` | abstract: a query gets at most one answer, and a right one |
| `LogQueryProofs` | proofs about `LogQuery`, and that it implements `QueryAnswers` |
| `BotConfig`, `MCBotConfig` | whitelist, modlist and channels, in memory, in `Config.txt` and at the server |
| `ConfigStore` | abstract: what the file is to the runs of the bot |
| `BotConfigProofs` | proofs about `BotConfig`, and that it implements `ConfigStore` |
| `Strings` | operators: what is used of `std::string_view` |
| `IrcText` | operators: lines of the server, `parseBuffer`, `IRCMessage::parseImplementation` |
| `MessagePath`, `MCMessagePath` | a message from the bytes of the connection to the buffer of its channel and to late answers |
| `MessagePathProofs` | proofs about `IrcText` and `MessagePath` |
| `LogTargets` | operators: time points, periods and the logs of a period |
| `LogText` | operators: the text of a log, its parsers, searching a message |
| `LogSearch`, `MCLogSearch` | what a count or find computes, from the command to the answer |
| `LogTextProofs` | proofs about `LogText`: what the parsers read, and the matches of a text |
| `LogSearchProofs` | proofs about `LogTargets` and `LogSearch`: periods, their logs, and the answers |
| `TextLemmas` | lemmas on texts, sequences, sums, induction and recursion, for the proofs about texts |

How they fit together. A line comes through `MessagePath`; its commands change `BotConfig` or start a
query, whose threads and errors are `LogQuery` and whose result is `LogSearch`; every answer is a
message offered to `Transmission`, which `IrcConnection` implements. `IrcConnection` keeps of the others
the shape it needs: lines have a kind, a query ends with a reply or without. `LogQuery` keeps of
`LogSearch` the number of logs and the hits in each.

Operators named `Bug...` are used by no definition. Each is a slip in the definition that follows
it; substituting it must violate the property that `PROJECT.json` pairs it with.

### IrcConnection

`posted` holds the handlers given to `boost::asio::post` that have not run, each with an id from one
counter. Asio runs the oldest first, but a thread takes a handler off the queue before it enters the
strand; with `Workers` threads a handler can thus be overtaken by the next `Workers - 1`
(`Runnable`). A handler is one action because its strand runs it alone, except `consumeMsgBuffer`:
its turns are actions of their own (`Consume...`), since what one turn posts can run before the next.

| Action | Code |
|-|-|
| `OnResolve`, `OnConnect`, `OnHandshake`, `ConnectFails` | `run` and its chain; `OnHandshake` queues PASS and NICK directly and posts the joins in the arbitrary order of the `unordered_map` |
| `OnRead`, `OnReadError`, `FinishRead` | `onRead` before and after the loop, and with an error |
| `ConsumePing`, `ConsumeCommand`, `ConsumeQuery`, `ConsumeJoinPart`, `ConsumeReconnect`, `ConsumeShutdown`, `ConsumeThrow` | the branches of `consumeMsgBuffer` |
| `PostedSend` | the handler of `postSendIRC` |
| `WaitHandler`, `SendHandler`, `OnSendQueue` | the loop: `wait_handler`, `send_handler`, the completion of `async_write` |
| `SuspendWriteHandler`, `ReconnectHandler` | RECONNECT |
| `StreamHandler` | the end of `async_shutdown`: the socket is closed, or, after an error of the shutdown itself, left open (`unclosed`) |
| `QueryReply`, `QueryLost` | the answer of a query, or its end without one, on any thread |

A text is a command and one argument: `PASS`, `NICK`, `PONG`, `JOIN c`, `PRIVMSG r`. The suffix of
repeated messages is the flag `pad`. Time is counted in ticks up to `Gap`, the 1500 ms of the rate
limit. `wire` (texts written on this connection) and `past` (ids written before) are history.

Assumptions: the server sends at most one RECONNECT on a connection and, unless `EarlyReconnect`, not
before the client has written its login (with `EarlyReconnect = TRUE` a PASS cut off by RECONNECT is
the last message when the next connection sends it, and would get the suffix). `test_insertmessage`
is not used. `onHandshake` is atomic, although handlers of the send strand read the flag it sets.
Connecting a stream for the second time works as the first time, and aborts a shutdown in progress.

### LogQuery

All variables are functions of the query. `op` and `upload` are the outstanding operation of the
downloader and of the uploader; `searching` is the log in the hands of a thread that holds
`m_read_handler_mutex`. `ReadHandler` is the first half of `readHandler`: it starts the next
operation and takes the log; `Callback` is the second half and runs at any time later, so an
`ErrorHandler` or the next write can come between. The search itself touches nothing shared and is
part of `Callback`, which is atomic because of the mutex of the shared data. A thread that searches
is not free for other handlers (`ThreadFree`).

A request is the number of logs and `upto`, the hits in the first i logs. It stands for everything the
commands parse and the logs hold: occurrences to count, or lines to find. With the fault `"search"`
the search of a log can throw (the callbacks catch it) and leaves the hits it has. Requests have one
log at least: with none, the code dereferences an empty vector.

### BotConfig

One run of the program goes from `Load` to `Gone`; the file outlives it. `saveConfig` is two steps,
since opening an `ofstream` empties the file: `SaveOpen`, `SaveWrite`. It is called by the handlers of
JOIN, PART, promote and demote, by `loadConfig` when there is no file (phase `first`), and by the
destructor (phase `exit`). The bot may be killed between any two steps (`Kill`), the file may not open
(`SaveOpenFails`) and the write may fail (`SaveWriteFails`: nobody looks at the stream). The
administrator writes the file only while the bot is down (`Edit`).

| Action | Code |
|-|-|
| `LoadAbsent`, `Load` | `loadConfig` |
| `SaveOpen`, `SaveWrite`, `SaveOpenFails`, `SaveWriteFails` | `saveConfig` |
| `HandlerEnds`, `HandlerReconnects` (of `SaveOpenFails`) | the exception leaves `onRead`, and reading stops or not |
| `Finish`, `Kill` | the end of `main` and the destructor; a crash |
| `OnHandshake`, `Reconnect` | the JOINs of a new connection, in any order; RECONNECT |
| `Confirmation` | the JOIN and PART branches of `consumeMsgBuffer`, when the nick is the bot's |
| `UserCommand`, `ChannelCommand` | `promote` and `demote`; `join` and `part` |
| `Server` | external: takes a line, joins or refuses, parts, and confirms in lower case |

A name is a login or channel with a flag for its spelling: lower case, or with capitals, which only
the file and a command can have. `memory` and `file` hold the three lists; host, port, nick and
password never change while the bot runs. `change` and `settled` are history: what the running save is
for, and what was saved last about a name. A save runs inside its handler, so no other handler of
the read strand runs meanwhile; the server and its lines go on.

A save that cannot open the file throws out of `consumeMsgBuffer`. Its line stays at the front of
`m_msg_pre_buffer`, and `onRead` ends before it starts the next read. In general nothing follows but
the end of the program, whose destructor saves again (`HandlerEnds`). But a RECONNECT that came earlier in
the same read has posted its handler: the bot connects and reads again (`HandlerReconnects`). The line is then
handled a second time, finds that the change has been made, and saves nothing. So the change is in memory only, until
the next save: `unsaved` has it. The lines of that read behind it (`left`, up to `MaxLeft`) are about a
connection that is gone; the channels they join are `stale` on the new one. A save that cannot open the file in
phase `first` or `exit` ends the process.

The refinement mapping to `ConfigStore` is `Stored` (the file; a first run has stored nothing until its write is
done), `Running` (the memory of a bot that runs, `ending` while the destructor saves) and, as what the store has
missed, `Unsaved`.

### IrcText and MessagePath

A text is a sequence of tokens: the characters the code looks for (CR, LF, space, `:`, `!`, `@`) and
words. `Split` is the loop of `parseBuffer`; an erase that goes past the end of the buffer is undefined,
and the model allows that the program ends or that the erase stops at the end (`torn`). `Parse` is
`parseImplementation`; `Fields` says what the message was that the server wrote, and is the reference.
The host of a prefix is read by nothing and left out. What the server may send is the constant `Messages`:
its lines have one CR and LF, at the end, and no space inside a parameter
(`MessagesAssumption`). That the prefix before `PRIVMSG` is longer than what a string holds inside the object
(15 bytes with libstdc++; `:nick!nick@nick.tmi.twitch.tv ` is longer) is `PrefixAssumption`.

`Read(k)` is `onRead`: any part of what is under way arrives. Reads that end within a line are bounded by
`MaxCuts`. `Consume` is one turn of `consumeMsgBuffer`: the command, then the move into the buffer of the
channel. An `IRCMessage` is what it parsed, its size, and `own`: whether its views still point into its
own string. The default move keeps the views, so an object that is short enough to be stored in place
loses them (`Move`); a copy makes them anew. A PRIVMSG without a
parameter, or the bot's own JOIN or PART, reads past an empty vector (`ConsumeBadPrivmsg`, `ConsumeBadOwnLine`):
the program may end there. `find` keeps a copy of its message, `clip` writes its lines at
once and keeps a copy for the answer; `Answer` is the callback that comes when the download or upload has
ended. The buffers run on one strand, so the model has no mutex. `seen` is the history of a channel.

### LogTargets, LogText, LogSearch

`LogTargets` has a calendar as constants: any division of time into months and days in which months
begin with a day. A time point has three parts instead of six (a month, a day of it, a moment of
the day); `parseTimePointString` tries them from the most to the fewest, as the formats are tried from
the longest to the shortest, and ignores what is left over. `Units` is the loop of `periodToYearMonths`
and of `periodToDates`. The default period of a command is from the first of this month to the first
of the next, which is a period like any other.

`LogText` writes a log as the two services do (external) and reads it as the two parsers do, on tokens.
A target is a set of words, one for a plain search, several for a regex, whose matches are greedy.
`AfterMatch` is where `countTargetOccurrences` goes on. The vocabulary is a constant: what stands between
the characters the parsers look for is one token, and a time is one of these, different for each moment
(`TextAssumption`).

`LogSearch` is one query on one thread: `Command` (reading the period and listing the targets),
`Receive` (a log comes and is parsed), `NextLine`, `CountMatch`, `NoMoreMatches` (the callbacks) and
`EndOfLog` (the next log, or the answer, sorted for a find). A found line is a `Log::Line`, a string with views,
copied when it is found and moved when the vector grows and when it is sorted. A line of a log, which
carries its time, is never short enough to be stored in place. `Written` is everything the users wrote: finitely many
lines without a newline; a notice has no colon, and no two of them differ only in being one, since then nobody could say
which of them an answer shows (`WrittenAssumption`). A string holds at
most 15 characters inside, and the time in front of a line alone has more; in tokens, a line has more than five, and `Inline`
is five at most (`InlineAssumption`). Lists of channels and users are not empty (`QueriesAssumption`, as in `LogQuery`). `CountIsRight` is
about plain targets and about regexes whose words have one length: for others, what a greedy search from left
to right counts is its own definition. That a service is not valid is not
modelled, nor a download that fails (`LogQuery` has that).

## 3. What is checked

| Run | Instance | States | Shows |
|-|-|-|-|
| `connection_two_workers` | 2 threads, 1 channel, PING, QUERY, RECONNECT; 2 lines, 2 connections | 547k | `OneWrite`, `BufferAlive`, `AuthFirst`, `AuthUnpadded`, `AtMostOnce`, `NoRepeat`, `RateLimit`, and that the send side implements `Transmission` |
| `connection_faults` | 1 thread, every kind of line and fault; 3 lines, 2 connections | 567k | `TypeOK`, the inductive invariant `IInv`, and `InOrder` |
| `connection_liveness` | 2 threads, no faults, fair | 130k | `NeverDeaf`, `ReconnectServed`, `SendQueueDrains` |
| `shutdown_terminates` | 2 threads, faults in reads, writes, queries and the shutdown, throwing commands, no RECONNECT, fair | 90k | `ShutdownTerminates` |
| `reconnect_after_write_error` | as liveness, with write errors | violated | finding 1 |
| `shutdown_during_reconnect` | SHUTDOWN with RECONNECT, fair | violated | finding 2 |
| `query_answers` | 2 queries, 2 threads, 3 logs, failing downloads and uploads | 180k | `TypeOK`, `IInv`, `OneAnswer`, `AnswerIsRight`, implements `QueryAnswers` |
| `queries_answered` | 2 queries, 1 thread, 2 logs, failing downloads and searches, fair | 31k | `EveryQueryAnswered` |
| `config_survives` | 1 user, the bot's own channel and one more, each in two spellings, two edits, every fault of a save, also next to RECONNECT | 2.5M | `TypeOK`, `FileMatchesMemory`, `SettledRightsHold`, `ChannelsFollowServer`, `SettledChannelsJoined`, implements `ConfigStore` |
| `message_path` | 9 messages of 2 users, the bot and the server; 5 of them in a behaviour, 1 cut within a line, 2 unread, buffers of 2 | 1.0M | `TypeOK`, `MessagesIntact`, `ViewsOwn`, `AnswerToAsker`, `ClipIsRecent`, `BoundsKept` |
| `log_search` | 2 months of 1 and 3 days, 6 lines, 2 users, 2 channels, all spellings of periods, words and regexes, fair | 35k | `TypeOK`, `OmittedPartsAreFirst`, `TargetsCoverPeriod`, `CountIsRight`, `FoundIsRight`, `FoundViewsOwn`, `SearchEnds` |
| `find_regex_matches_whole_line` | the same | violated | finding 3 |

What the newer properties say. `ChannelsFollowServer` relates the channels of the bot to those of the server
through lines that may be lost with a connection, or read on the next one: a channel joined by such a line (`stale`) may
not be the server's. `FileMatchesMemory` allows for names whose change could not be saved (`unsaved`), each until the
next save, and for a write that failed, which nobody notices; `ImplementsConfigStore` says that these are the only
ways in which file and memory differ, and that the file is put at risk only when there is something to save. `ShutdownTerminates`
names a failing `async_shutdown`, after which the handler throws before it closes the socket and the bot stays up. `SettledChannelsJoined` is about a step, the handshake of any later
connection or run: it joins what was saved as joined, and nothing that was saved as parted. It names the exception
that the code has: PART removes the lower-case spelling of a channel, so one that the file spells with
capitals is joined again. `MessagesIntact` and `BoundsKept` also name their exceptions: a read that ends
between CR and LF, and the piece of a line that stays in `m_buffer` over a reconnect; nothing else damages a message.
`BoundsKept` has one more: a line of the server that names no channel where the code wants one (`NamesNoChannel`), so that only
such a line, and only in its own turn, reads past a vector. `CountIsRight` and
`FoundIsRight` compare the answer with what was written, not with what was downloaded.

Bounds. Two connections are enough for every interplay of an old and a new one, since nothing
reaches beyond the next but `m_last_message_sendt` and posted handlers, which do not tell connections
apart. Two or three lines of input let a RECONNECT meet a running loop, queued replies and another
line of the same read. Two threads are the fewest that reorder handlers; with one the order is kept
(`InOrder`). Three logs give a first, a middle and a last search. The proofs need none of these
bounds: `MaxConn`, `MaxInputs`, `MaxTargets`, `MaxHits`, `MaxLines` and `MaxLeft` are any natural numbers there. In
`config_survives` two lines under way (`MaxLines`) when a command comes let a JOIN and a PART of one channel cross
with a confirmation, and one line left over (`MaxLeft`) meets what the new connection sends; runs, edits and reconnects are not bounded. In `message_path` five messages fill a buffer of two and
push out of it, before and after a PART, with a RECONNECT between; one cut tears any line at any place. The calendar
of `log_search` has a month of one day and one of three, and lines at every seam; a list that names a channel
twice shows that the answer then counts twice. Some runs do not check for deadlock because the
system stops: the input is bounded, a query is answered, and after a shutdown the threads return.

Fairness. Each asynchronous operation except reading an open socket completes, the timer expires,
and the `io_context` runs its oldest handler: weak fairness on each. Nothing forces the server to send
a line, or an operation to fail. `LogQuery` has weak fairness per query. `LogSearch` has weak fairness of
`Search`: a thread that searches a log runs on; a log may never come. The other new modules have none.

Findings.

1. `onSendQueue` throws on an error of `async_write` and leaves `m_send_queue_busy` set. A RECONNECT read
   after that waits, as the comment in `postDoRECONNECT` says, "for send queue handler to post
   reconnectHandler"; there is none, the bot has stopped reading, and it never reconnects.
2. `doShutdown` shuts down one stream. With a RECONNECT in the same read (or one that is on its way),
   `run` opens the connection again and the bot stays up. (It also stays up when `async_shutdown` fails, since
   `stream_handler` throws before the close; no run of its own shows this, `ShutdownTerminates` names it.)
3. `find` with `-regex` uses `std::regex_match` (`src/src/SaivBot.cpp:817`), which has to match the whole
   message, where `count` uses `regex_search`. README says "Find all lines containing target in logs."

## 4. What is proved

`IrcConnectionProofs`: `Spec => []IInv`, and from it `TypeCorrect`, `WritesDoNotOverlap`,
`BufferStaysAlive`, `LoginComesFirst`, `NothingSentTwice` and `KeepsListening`. None of the properties is
inductive but the last, which needs only that no line throws. The argument has five parts, conjuncts of `IInv`:

* `LoopInv`: a pending step of the loop (timer, posted `send_handler`, outstanding write) means that the
  connection is up, the loop is marked busy, the queue is not empty and nobody is about to replace it.
  This is why the busy flag keeps the three entries of the loop apart.
* `ReconnectInv`: a RECONNECT is a line in the buffer, a handler on the send strand, a suspended loop
  or a posted `reconnectHandler`, and one of these at a time. This is why the queue is replaced with
  no write outstanding. It uses the assumption about the server.
* `IdleInv`: from `reconnectHandler` to `onHandshake` nothing is queued or written.
* `AuthInv`: until they are written, PASS and NICK lead the queue.
* `IdInv`: an id is in one place, posted, queued or written; ids grow.

`LogQueryProofs`: `Spec => []IInv` where `DownloadInv` says that `reference_count` is the number of logs
not searched yet, that nobody has answered while it is above zero, and that at zero the query is
concluded; so an error, which is only reported while a log is missing, finds a query without an
answer. From it `AnsweredOnce`, `AnsweredRight`, and the refinement `Implementation`.

`IrcWriteProofs` uses that invariant and two smaller ones. `LastInv`, that `m_last_message_sendt` is what
was written last on this connection, gives `NothingRepeated`. `RateInv` gives `WritesKeepDistance`: when a
write is due (a timer, a posted `send_handler`, or an idle loop) on a connection that has written, the
time the code measures, which does not start at every completion, is not longer than the time since the last one.
A write that failed or met a RECONNECT resets neither or only the latter, but leaves the loop busy, so that
nothing is due until the next connection.

Two more invariants are about the order of messages. `OrderInv` gives `OneThreadKeepsOrder`: the ids of what is posted,
queued and written ascend from the wire to the queue to the posted handlers, those of earlier connections
before all. It needs `Workers = 1`, because the oldest handler then runs alone; with two threads the order
is lost. `LoginInv` gives `LoginIsUnpadded`: PASS and NICK are the first two writes, so that NICK is compared with
PASS and PASS with what the connection before sent last. That this is never PASS is `PatientInv`, and needs
`EarlyReconnect = FALSE`: RECONNECT comes to a client that has logged in.

The last part of `IrcWriteProofs` shows that every step of `IrcConnection` is a step of `Transmission` or a stutter, from these
invariants and `FlightInv`, that what is outstanding on the stream has been written. What is offered is what
posted handlers hold and what the queue has not written yet; entering the queue, waiting for the timer and
the completion of a write (the front of the queue has been written by then) leave it as it is, and the three
ways to start a write transmit the front of a queue that is ready: nothing of it has been written, and the
login leads it. New messages are fresh because ids grow; what is refused, or thrown away with the queue, is
lost while `m_suspend_send` holds.

`BotConfigProofs`: `Spec => []IInv` with `SaveInv` and `SettledInv` (what is settled about a user or a channel is so in
the memory of a running bot and in a file that is whole, and the save that runs is of what is in memory). Neither is
inductive alone. `SaveInv` says where a save may be and that the file is broken in the middle of one, and has three
parts of weight. `HandlerSaves`: a save of a running bot belongs to a handler that has changed something. `Pending`: before it
opens the file, the file is what memory is but for that change and those that are `unsaved`, and there is such a difference.
`FileMatchesMemory` itself speaks of a bot at rest, and does not carry over a save that cannot open the file; `Pending` does,
and the refinement needs it as well, as the store may break only with something to save.

From these follow `FileIsMemory`, `RightsHold`, and the refinement `Implementation`. `Finish` and `HandlerEnds` close the store, which
then saves and ends; `HandlerReconnects` misses a change, or stutters when it was missed before; `SaveOpen` breaks it; `SaveWrite`
saves, ends a run, or is the first run; a kill is the end of a run. `ChannelsRejoined` adds what the handshake sends: every
channel of the memory, in whatever order.

`ChannelsAgree` rests on `FollowInv`, about all lines under way. The last confirmation of a channel under way
decides: if the server has the bot in the channel, every PART of it is followed by a JOIN, and the bot remembers
it or a JOIN is coming; if not, the other way round, or its own JOIN is still on the way to the server, or
was refused, or the channel is `stale`, joined by a line of the connection before. The lines are sequences of any length; a line is taken from one end and added at the other.

`LogSearchProofs`: in a division of time the units are in order, a moment is in one of them, and
counting from the unit of the begin to that of the end lists each of them once; so `LogsCoverOnce`, for months
and for days. `AcceptedIsPeriod`: what `parseTimePeriod` accepts is a period. `QueryInv` carries both over
to the states of a query: `PeriodIsCovered`, `PeriodIsAsSaid`.

That the answers are right is shown for any calendar, vocabulary, commands and lines. It rests on facts about data:

* `LogReadsBack` (`LogTextProofs`): parsing a log gives its lines back, in their order, without the notices of gempir.
  Each line is read back for itself (`ReadsGempir`, `SkipsNotice`, `ReadsOverrustle`); `ParseJoins` puts them together.
* `TargetsAreNamed`: the logs of a query that have a line are as many as the lists name its channel and its user,
  from `LogsCoverOnce` and the three nested loops of `fillLogRequestTargetFields`.
* `CountedOff`: a turn of `countTargetOccurrences` takes one off the occurrences in what is left of the message. For a plain
  target these are all the matches; for a regex the largest number that do not overlap, and the first match is
  always one of such a choice (`RegexOccurrences`).
* `OrdersKeep`, `OccursFlatten`, `SumChange`: sorting keeps what it sorts; counting in flattened lists; sums of functions.

and on invariants, where `Done(l)` is how many of the logs so far have the line `l`, and `Pending(l)` whether it is among the
lines that are not searched yet:

* `SearchInv`: the lines that are left are views of lines of the current target, what is found are lines of the logs with
  views of their own, and what a stage needs of `it` and `rest`. It gives `SearchTyped` and `FoundAreTheirOwn`.
* `FindInv`: a line that is asked for and has the target was given `Done(l) - Pending(l)` times, any other never, and an
  answer is sorted. When the query is answered nothing is pending, so `FindIsAnswered` follows from `TargetsAreNamed`.
* `CountInv`: there is, for each line asked for, a number `Done(l) - Pending(l)` of times it was searched; the occurrences in
  all of these, but for those left in `rest`, are `count` and some turns of the counter. The property itself says nothing
  before the end, and `count` alone does not tell how often it has wrapped around, so both have to be part of it.
  It gives `CountIsAnswered`.

`MessagePathProofs` is about texts and sequences of any length. `parseBuffer`, `Params` and `Body` loop
over a text; in `IrcText` they are functions that call themselves on a shorter one. Induction over the library's
operator parameters is not available here, so `SetInduction` and `Recursion` of `TextLemmas` state induction and recursion
with sets and functions only (from the well-foundedness of Nat), and `SplitEquation`, `ParamsEquation` and
`BodyEquation` are the equations of the three loops. From them:

* `ReadsLine`: `Parse(Render(m)) = Fields(m)` for every message.
* `SplitStream`: if text `t` and what is still under way are together a piece of an old line and the lines of
  messages `q`, then `Split(t)` makes the first lines of these, whole, and leaves the piece at the end of `t`, or
  it has erased past the end of the buffer.
* `StreamInv`: unless a read has torn a line, `m_buffer` and the network are together the stream of the messages that
  are due and not in `m_msg_pre_buffer` (behind a piece of an old line, if one is glued), and the lines in
  `m_msg_pre_buffer` are the others. `MessagesReadAsSent` and `OutOfBoundsOnlyTorn` follow,
  the latter because a line that is read as it was sent has parameters unless the server sent none (`NamesNoChannel`). The rest of the buffer has to be
  part of the invariant: the property itself speaks of whole lines only.
* `FarInv`: in what is kept, under way and parsed, a `PRIVMSG` has more before it than a string holds inside. It holds
  of torn streams as well, since an erase takes one character too much and the assumption leaves room for it. This is
  why the default move does not spoil the views (`MessagesKeepTheirText`).
* `ChannelsOK`: the buffer of a channel holds the last `Min({Capacity, ...})` messages of its history, in order
  (`PushRemembers`), so what `accessLinesFromNow` returns are the last ones (`ClipsRecent`, `ClipsAreRecent`).
* `OutputOK`: a job keeps a copy of the message that asked for it, hence `AnswersGoToAsker`.

Each needs the ones before it; together they are `PathInv`. TLC checked all of them on `message_path` first.

The proofs assume what the modules assume of their constants: `Workers` is a positive natural number,
`Channels` and `Queries` of the connection and of `LogQuery` are finite, the bounds are natural numbers,
users are not channels, the calendar is a division of time in which months begin with a day, words are not characters
(`WordsAssumption`, `TextAssumption`), and the messages of the server and the lines of the logs are as said above.

Three theorems have a hypothesis of their own, which is that of their run: `KeepsListening` (no failing read and no
throwing line), `OneThreadKeepsOrder` (`Workers = 1`) and `LoginIsUnpadded` (`EarlyReconnect = FALSE`).

Only model-checked: every liveness property (`ReconnectServed`, `SendQueueDrains`, `ShutdownTerminates`,
`EveryQueryAnswered`, `SearchEnds`), as TLAPS does not reason about fairness here. Every invariant and every action property
of the passing runs is a theorem.

## 5. Not modelled, and the plan

* `IRCMessageTimedBuffer` is compiled and used by nothing; there is no behaviour of the program to model.
* `test_insertmessage`, a debugging command that posts a line into `consumeMsgBuffer`, and whispers, a branch
  that is commented out.
* `say` (which posts like any reply), and with `-channel` uses a view of a string that is gone within one
  handler; `help`, `uptime`, `commands` and the flags of the bot, which only reply.
* What a TLS stream does when it is connected a second time; certificates, DNS, HTTP and JSON formats, the
  texts of replies; OptionParser and the date library, which are not in this repository; the build.
* Memory that runs out, as in the `reserve` of `accessLinesFromNow` (`src/src/IRCMessageBuffer.cpp:34`) for a `clip` of
  a huge number of lines, which then throws like other commands; the anchors of regexes (`^`, `$`): a match is a match
  anywhere in a message.
* A request without targets: whether OptionParser can return an empty list is not known here.

What a next step could add: the composition of `LogQuery` with `IrcConnection`, whose `QueryReply` and `QueryLost` are the last steps of a query.
