--------------------------- MODULE IrcConnection ---------------------------
(***************************************************************************)
(* The core of SaivBot (src/src/SaivBot.cpp): one TLS connection to the    *)
(* IRC server, read by handlers of m_read_strand, written by handlers of   *)
(* m_send_strand, all of them run by Workers threads that call             *)
(* io_context::run().  A handler is an action; only the loop of            *)
(* consumeMsgBuffer is one action per line, because the posts it makes can *)
(* be run by other threads before the loop ends.                           *)
(*                                                                         *)
(* A text is the command and one argument of an IRC line.  Every post and  *)
(* every queued text has an id, drawn from one counter, by which the       *)
(* history (wire, past) tells equal texts apart.                           *)
(***************************************************************************)
EXTENDS Naturals, Sequences, FiniteSets, Functions

CONSTANTS
    Workers,        \* threads in io_context::run (hardware_concurrency)
    Channels,       \* the channels of the config file
    OwnChannel,     \* '#' followed by m_nick
    Replies,        \* what commands and finished queries answer
    Greeting,       \* "monkaMEGA"
    Nil,            \* no argument
    LineKinds,      \* the kinds of lines the server may send
    Faults,         \* the asynchronous operations that may fail
    EarlyReconnect, \* may RECONNECT arrive before NICK has been written?
    Gap,            \* m_send_message_duration, in ticks
    MaxConn,        \* bound: connections made in a behaviour
    MaxInputs,      \* bound: lines received in a behaviour
    MaxChunk        \* bound: lines completed by one read

AllLineKinds == {"PING", "COMMAND", "QUERY", "JOIN", "PART", "RECONNECT",
                 "SHUTDOWN", "THROW"}

ASSUME WorkersAssumption == Workers \in Nat \ {0}
ASSUME ChannelsAssumption == IsFiniteSet(Channels)
ASSUME LineKindsAssumption == LineKinds \subseteq AllLineKinds
ASSUME FaultsAssumption == Faults \subseteq {"connect", "read", "write", "query", "shutdown"}
ASSUME EarlyReconnectAssumption == EarlyReconnect \in BOOLEAN
ASSUME GapAssumption == Gap \in Nat
ASSUME BoundsAssumption == MaxConn \in Nat /\ MaxInputs \in Nat /\ MaxChunk \in Nat

VARIABLES
    stage,       \* where run()'s chain of handlers is
    conn,        \* calls of run() so far
    link,        \* the TCP socket: open, closing (TLS shutdown in progress), closed, or
                 \* unclosed (the shutdown has failed, the socket is still open)
    reading,     \* an async_read_some is outstanding
    consuming,   \* consumeMsgBuffer is running: m_read_strand is taken
    m_suspend_read,
    m_msg_pre_buffer,
    m_channels,
    inputs,      \* lines received so far
    queries,     \* downloads that will answer
    m_suspend_send,
    m_send_queue_busy,
    m_send_queue,
    m_last_message_sendt,
    timer,       \* m_send_message_timer is being waited for
    inflight,    \* outstanding async_write operations
    since_sent,  \* ticks since m_last_message_sendt_time, at most Gap
    quiet,       \* ticks since a write last completed, at most Gap
    posted,      \* posted handlers that have not run
    nextId,
    wire,        \* history: texts written on this connection
    past         \* history: ids of the texts written on earlier connections

connVars == <<stage, conn, link>>
readVars == <<reading, consuming, m_suspend_read, m_msg_pre_buffer, m_channels,
              inputs, queries>>
loopVars == <<m_last_message_sendt, timer, inflight, wire>>
sendVars == <<m_suspend_send, m_send_queue_busy, m_send_queue, past>>
clockVars == <<since_sent, quiet>>
workVars == <<posted, nextId>>
vars == <<connVars, readVars, loopVars, sendVars, clockVars, workVars>>

-----------------------------------------------------------------------------
(* Data *)

AllChannels == Channels \union {OwnChannel}

Cmd(command, arg) == [cmd |-> command, arg |-> arg]
NoText == Cmd("", Nil)
Pass == Cmd("PASS", Nil)
Nick == Cmd("NICK", Nil)
Join(channel) == Cmd("JOIN", channel)
Say(what) == Cmd("PRIVMSG", what)
Pong == Cmd("PONG", Nil)

Texts == {Pass, Nick, Pong}
         \union {Join(c) : c \in AllChannels}
         \union {Say(r) : r \in Replies \union {Greeting}}

Line(kind, arg) == [kind |-> kind, arg |-> arg]
Lines == {Line(k, Nil) : k \in LineKinds \ {"JOIN", "PART", "COMMAND"}}
         \union {Line(k, c) : k \in LineKinds \intersect {"JOIN", "PART"}, c \in AllChannels}
         \union {Line(k, r) : k \in LineKinds \intersect {"COMMAND"}, r \in Replies}
IsReconnect(line) == line.kind = "RECONNECT"

Message == [id : Nat, text : Texts]
Written == [id : Nat, text : Texts, pad : BOOLEAN]
Task == [id : Nat, kind : {"send"}, text : Texts]
        \union [id : Nat, kind : {"suspend", "write", "reconnect"}, text : {NoText}]

Ids(entries) == {entries[i].id : i \in 1..Len(entries)}
NoTask(kind) == \A t \in posted : t.kind # kind
AtMostOne(kind) == \A s, t \in posted : s.kind = kind /\ t.kind = kind => s = t

-----------------------------------------------------------------------------
(* boost::asio::post(m_ioc, bind_executor(strand, handler)): a thread takes *)
(* the oldest handler off the queue of the io_context and only then enters  *)
(* the strand, so a handler can overtake those held by the other threads.   *)

Runnable(t) == Cardinality({s \in posted : s.id < t.id}) < Workers

Post(kind, text) ==
    /\ posted' = posted \union {[id |-> nextId, kind |-> kind, text |-> text]}
    /\ nextId' = nextId + 1

\* A handler that was posted runs, and posts a handler of its own.
RunAndPost(t, kind) ==
    /\ posted' = (posted \ {t}) \union {[id |-> nextId, kind |-> kind, text |-> NoText]}
    /\ nextId' = nextId + 1

Run(t) == posted' = posted \ {t} /\ UNCHANGED nextId

-----------------------------------------------------------------------------
(* The send loop *)

\* The message equals what was sent before it.  (The Bug operators of this module
\* are used by no definition: each is a slip in the definition after it, and one
\* of the properties must tell the two apart.)
BugIsRepeatNever(text) == FALSE
BugIsRepeatAlways(text) == m_last_message_sendt.text # NoText
IsRepeat(text) == [text |-> text, pad |-> FALSE] = m_last_message_sendt

\* send_handler: the front of the queue goes to async_write, with a suffix
\* that does not show when the message is a repetition.
StartWrite(queue, before) ==
    LET text == Head(queue).text
        pad  == IsRepeat(text)
        out  == [id |-> Head(queue).id, text |-> text, pad |-> pad]
    IN  /\ inflight' = Append(before, out)
        /\ wire' = Append(wire, out)
        /\ m_last_message_sendt' = [text |-> text, pad |-> pad]

\* doSendQueue: the next message goes out Gap after the last one was sent.
DoSendQueue(queue, before, since) ==
    \/ /\ since < Gap
       /\ timer' = TRUE
       /\ inflight' = before
       /\ UNCHANGED <<m_last_message_sendt, wire>>
    \/ /\ since >= Gap
       /\ StartWrite(queue, before)
       /\ UNCHANGED timer

BugRefusedWhenBusy == m_suspend_send \/ m_send_queue_busy
Refused == m_suspend_send

BugEnqueueFront(message) == <<message>> \o m_send_queue
Enqueue(message) == Append(m_send_queue, message)

BugStartLoopNotBusy(queue) ==
    DoSendQueue(queue, inflight, since_sent) /\ UNCHANGED m_send_queue_busy
StartLoop(queue) ==
    DoSendQueue(queue, inflight, since_sent) /\ m_send_queue_busy' = TRUE

\* The handler of postSendIRC.
PostedSend(t) ==
    /\ t.kind = "send" /\ Runnable(t)
    /\ Run(t)
    /\ \/ /\ Refused
          /\ UNCHANGED <<loopVars, m_send_queue, m_send_queue_busy>>
       \/ /\ ~Refused
          /\ m_send_queue' = Enqueue([id |-> t.id, text |-> t.text])
          /\ IF m_send_queue_busy
               THEN UNCHANGED <<loopVars, m_send_queue_busy>>
               ELSE StartLoop(m_send_queue')
    /\ UNCHANGED <<m_suspend_send, past>>
    /\ UNCHANGED <<connVars, readVars, clockVars>>

WaitHandler ==
    /\ timer /\ since_sent = Gap
    /\ timer' = FALSE
    /\ Post("write", NoText)
    /\ UNCHANGED <<connVars, readVars, sendVars, clockVars,
                   m_last_message_sendt, inflight, wire>>

SendHandler(t) ==
    /\ t.kind = "write" /\ Runnable(t)
    /\ Run(t)
    /\ StartWrite(m_send_queue, inflight)
    /\ UNCHANGED <<connVars, readVars, sendVars, clockVars, timer>>

\* onSendQueue: the completion handler of async_write.  A suspended loop hands
\* over to reconnectHandler; an error is thrown out of the handler and leaves
\* the queue and m_send_queue_busy as they are.
BugSuspendedReturns ==
    /\ m_suspend_send
    /\ inflight' = Tail(inflight)
    /\ quiet' = 0
    /\ UNCHANGED <<m_last_message_sendt, timer, wire, sendVars, since_sent, workVars>>
OnSendQueueSuspended ==
    /\ m_suspend_send
    /\ inflight' = Tail(inflight)
    /\ Post("reconnect", NoText)
    /\ quiet' = 0
    /\ UNCHANGED <<m_last_message_sendt, timer, wire, sendVars, since_sent>>

OnSendQueueError ==
    /\ ~m_suspend_send
    /\ "write" \in Faults \/ link # "open"
    /\ inflight' = Tail(inflight)
    /\ UNCHANGED <<m_last_message_sendt, timer, wire, sendVars, clockVars, workVars>>

BugAfterSendKept == m_send_queue
AfterSend == Tail(m_send_queue)

BugTimeNotSet == since_sent
TimeOfSend == 0

BugBusyForever(queue) == TRUE
StillBusy(queue) == queue # <<>>

OnSendQueueOk ==
    /\ ~m_suspend_send
    /\ link # "closed"
    /\ since_sent' = TimeOfSend /\ quiet' = 0
    /\ m_send_queue' = AfterSend
    /\ m_send_queue_busy' = StillBusy(m_send_queue')
    /\ IF m_send_queue' = <<>>
         THEN inflight' = Tail(inflight) /\ UNCHANGED <<m_last_message_sendt, timer, wire>>
         ELSE DoSendQueue(m_send_queue', Tail(inflight), since_sent')
    /\ UNCHANGED <<m_suspend_send, past, workVars>>

OnSendQueue ==
    /\ inflight # <<>>
    /\ OnSendQueueSuspended \/ OnSendQueueError \/ OnSendQueueOk
    /\ UNCHANGED <<connVars, readVars>>

-----------------------------------------------------------------------------
(* RECONNECT *)

BugReconnectAtOnce == TRUE
LoopIdle == ~m_send_queue_busy

\* postDoRECONNECT's handler on m_send_strand; a running loop reconnects later.
SuspendWriteHandler(t) ==
    /\ t.kind = "suspend" /\ Runnable(t)
    /\ m_suspend_send' = TRUE
    /\ IF LoopIdle THEN RunAndPost(t, "reconnect") ELSE Run(t)
    /\ UNCHANGED <<connVars, readVars, loopVars, clockVars,
                   m_send_queue_busy, m_send_queue, past>>

BugQueueKept == m_send_queue
QueueAfterReconnect == <<>>

\* reconnectHandler, which ends in run().
ReconnectHandler(t) ==
    /\ t.kind = "reconnect" /\ Runnable(t)
    /\ Run(t)
    /\ m_send_queue' = QueueAfterReconnect
    /\ m_send_queue_busy' = FALSE
    /\ stage' = "resolving"
    /\ conn' = conn + 1
    /\ past' = past \union Ids(wire)
    /\ wire' = <<>>
    /\ UNCHANGED <<link, readVars, m_last_message_sendt, timer, inflight,
                   m_suspend_send, clockVars>>

-----------------------------------------------------------------------------
(* The chain of run() *)

\* onResolve, on m_read_strand.  async_connect closes the socket it was given,
\* which ends a TLS shutdown in progress, and opens it again.
OnResolve ==
    /\ stage = "resolving" /\ ~consuming
    /\ stage' = "connecting"
    /\ link' = "open"
    /\ UNCHANGED <<conn, readVars, loopVars, sendVars, clockVars, workVars>>

OnConnect ==
    /\ stage = "connecting"
    /\ stage' = "handshaking"
    /\ UNCHANGED <<conn, link, readVars, loopVars, sendVars, clockVars, workVars>>

\* onHandshake.  PASS and NICK enter m_send_queue directly, the rest is posted.
OnHandshake ==
    /\ stage = "handshaking" /\ ~consuming
    /\ stage' = "up"
    /\ m_send_queue' = m_send_queue \o <<[id |-> nextId, text |-> Pass],
                                         [id |-> nextId + 1, text |-> Nick]>>
    /\ m_suspend_read' = FALSE
    /\ m_suspend_send' = FALSE
    /\ \E order \in Bijection(1..Cardinality(m_channels), m_channels) :
         LET texts == <<Join(OwnChannel), Say(Greeting)>>
                      \o [i \in 1..Cardinality(m_channels) |-> Join(order[i])]
         IN  /\ posted' = posted \union
                  {[id |-> nextId + 1 + i, kind |-> "send", text |-> texts[i]]
                      : i \in 1..(2 + Cardinality(m_channels))}
             /\ nextId' = nextId + 4 + Cardinality(m_channels)
    /\ reading' = TRUE
    /\ UNCHANGED <<conn, link, consuming, m_msg_pre_buffer, m_channels, inputs, queries,
                   loopVars, m_send_queue_busy, past, clockVars>>

\* onResolve, onConnect or onHandshake is given an error and throws.
ConnectFails ==
    /\ stage \in {"resolving", "connecting", "handshaking"}
    /\ "connect" \in Faults
    /\ stage' = "dead"
    /\ UNCHANGED <<conn, link, readVars, loopVars, sendVars, clockVars, workVars>>

-----------------------------------------------------------------------------
(* Reading *)

\* The server tells a client to reconnect at most once per connection, and, but
\* for EarlyReconnect, only a client that has logged in.
MayReconnect ==
    /\ conn < MaxConn
    /\ EarlyReconnect \/ Len(wire) >= 2
    /\ \A i \in DOMAIN m_msg_pre_buffer : ~IsReconnect(m_msg_pre_buffer[i])

Chunks ==
    {chunk \in UNION {[1..n -> Lines] : n \in 1..MaxChunk} :
        /\ \A i, j \in DOMAIN chunk :
              IsReconnect(chunk[i]) /\ IsReconnect(chunk[j]) => i = j
        /\ (\E i \in DOMAIN chunk : IsReconnect(chunk[i])) => MayReconnect}

\* onRead up to the loop of consumeMsgBuffer.
OnRead ==
    /\ reading /\ ~consuming /\ link # "closed"
    /\ \E chunk \in Chunks :
         /\ inputs + Len(chunk) <= MaxInputs
         /\ inputs' = inputs + Len(chunk)
         /\ m_msg_pre_buffer' = m_msg_pre_buffer \o chunk
    /\ reading' = FALSE
    /\ consuming' = TRUE
    /\ UNCHANGED <<connVars, m_suspend_read, m_channels, queries,
                   loopVars, sendVars, clockVars, workVars>>

\* onRead is given an error and throws: nothing starts another read.
OnReadError ==
    /\ reading /\ ~consuming
    /\ "read" \in Faults \/ link # "open"
    /\ reading' = FALSE
    /\ UNCHANGED <<connVars, consuming, m_suspend_read, m_msg_pre_buffer, m_channels,
                   inputs, queries, loopVars, sendVars, clockVars, workVars>>

\* One turn of the loop of consumeMsgBuffer, by the kind of the front line.
Front(kind) ==
    /\ consuming /\ m_msg_pre_buffer # <<>>
    /\ Head(m_msg_pre_buffer).kind = kind
Pop == m_msg_pre_buffer' = Tail(m_msg_pre_buffer)

ConsumePing ==
    /\ Front("PING") /\ Pop
    /\ Post("send", Pong)
    /\ UNCHANGED <<connVars, reading, consuming, m_suspend_read, m_channels, inputs,
                   queries, loopVars, sendVars, clockVars>>

\* A PRIVMSG whose command (or parseFreeMessage) answers at once.
ConsumeCommand ==
    /\ Front("COMMAND") /\ Pop
    /\ Post("send", Say(Head(m_msg_pre_buffer).arg))
    /\ UNCHANGED <<connVars, reading, consuming, m_suspend_read, m_channels, inputs,
                   queries, loopVars, sendVars, clockVars>>

\* A PRIVMSG whose command starts a download (count, find, clip).
ConsumeQuery ==
    /\ Front("QUERY") /\ Pop
    /\ queries' = queries + 1
    /\ UNCHANGED <<connVars, reading, consuming, m_suspend_read, m_channels, inputs,
                   loopVars, sendVars, clockVars, workVars>>

\* The server confirms a JOIN or a PART of the bot itself.
ConsumeJoinPart ==
    /\ \/ Front("JOIN") /\ m_channels' = m_channels \union {Head(m_msg_pre_buffer).arg}
       \/ Front("PART") /\ m_channels' = m_channels \ {Head(m_msg_pre_buffer).arg}
    /\ Pop
    /\ UNCHANGED <<connVars, reading, consuming, m_suspend_read, inputs, queries,
                   loopVars, sendVars, clockVars, workVars>>

\* postDoRECONNECT
ConsumeReconnect ==
    /\ Front("RECONNECT") /\ Pop
    /\ m_suspend_read' = TRUE
    /\ Post("suspend", NoText)
    /\ UNCHANGED <<connVars, reading, consuming, m_channels, inputs, queries,
                   loopVars, sendVars, clockVars>>

\* doShutdown: async_shutdown of the TLS stream.  It can be asked for again.
ConsumeShutdown ==
    /\ Front("SHUTDOWN") /\ Pop
    /\ link' = IF link = "closed" THEN "closed" ELSE "closing"
    /\ UNCHANGED <<stage, conn, reading, consuming, m_suspend_read, m_channels, inputs,
                   queries, loopVars, sendVars, clockVars, workVars>>

\* The function of the command throws: the line stays at the front and onRead
\* ends before it starts another read.
ConsumeThrow ==
    /\ Front("THROW")
    /\ consuming' = FALSE
    /\ UNCHANGED <<connVars, reading, m_suspend_read, m_msg_pre_buffer, m_channels, inputs,
                   queries, loopVars, sendVars, clockVars, workVars>>

BugRearmAlways == TRUE
BugRearmInverted == m_suspend_read
Rearm == ~m_suspend_read

\* The end of onRead.
FinishRead ==
    /\ consuming /\ m_msg_pre_buffer = <<>>
    /\ consuming' = FALSE
    /\ reading' = Rearm
    /\ UNCHANGED <<connVars, m_suspend_read, m_msg_pre_buffer, m_channels, inputs, queries,
                   loopVars, sendVars, clockVars, workVars>>

ConsumeLine ==
    \/ ConsumePing \/ ConsumeCommand \/ ConsumeQuery \/ ConsumeJoinPart
    \/ ConsumeReconnect \/ ConsumeShutdown \/ ConsumeThrow

-----------------------------------------------------------------------------
(* Other threads, the socket and the clock *)

BugQueryReplyAgain ==
    /\ queries' = queries - 1
    /\ \E r \in Replies : Post("send", Say(r))
    /\ inputs > 0
    /\ UNCHANGED <<connVars, reading, consuming, m_suspend_read, m_msg_pre_buffer, m_channels,
                   inputs, loopVars, sendVars, clockVars>>

\* The callback of a download or of an upload answers, on any thread.
QueryReply ==
    /\ queries > 0
    /\ queries' = queries - 1
    /\ \E r \in Replies : Post("send", Say(r))
    /\ UNCHANGED <<connVars, reading, consuming, m_suspend_read, m_msg_pre_buffer, m_channels,
                   inputs, loopVars, sendVars, clockVars>>

\* A download could not start, or an upload failed: nobody answers.
QueryLost ==
    /\ queries > 0 /\ "query" \in Faults
    /\ queries' = queries - 1
    /\ UNCHANGED <<connVars, reading, consuming, m_suspend_read, m_msg_pre_buffer, m_channels,
                   inputs, loopVars, sendVars, clockVars, workVars>>

BugNotClosed ==
    /\ link = "closing"
    /\ link' = "open"
    /\ UNCHANGED <<stage, conn, readVars, loopVars, sendVars, clockVars, workVars>>

\* stream_handler of doShutdown closes the socket.  With an error it throws before: if the
\* peer has closed, that comes to the same, but an error of the shutdown alone (the server
\* was still sending) leaves the socket open, for whoever reads from it.
StreamHandler ==
    /\ link = "closing"
    /\ \/ link' = "closed"
       \/ "shutdown" \in Faults /\ link' = "unclosed"
    /\ UNCHANGED <<stage, conn, readVars, loopVars, sendVars, clockVars, workVars>>

Tick ==
    /\ since_sent < Gap \/ quiet < Gap
    /\ since_sent' = IF since_sent < Gap THEN since_sent + 1 ELSE Gap
    /\ quiet' = IF quiet < Gap THEN quiet + 1 ELSE Gap
    /\ UNCHANGED <<connVars, readVars, loopVars, sendVars, workVars>>

-----------------------------------------------------------------------------
\* After the constructor and run().
Init ==
    /\ stage = "resolving" /\ conn = 1 /\ link = "closed"
    /\ reading = FALSE /\ consuming = FALSE /\ m_suspend_read = TRUE
    /\ m_msg_pre_buffer = <<>> /\ m_channels = Channels
    /\ inputs = 0 /\ queries = 0
    /\ m_suspend_send = TRUE /\ m_send_queue_busy = FALSE /\ m_send_queue = <<>>
    /\ m_last_message_sendt = [text |-> NoText, pad |-> FALSE]
    /\ timer = FALSE /\ inflight = <<>>
    /\ since_sent = Gap /\ quiet = Gap
    /\ posted = {} /\ nextId = 1
    /\ wire = <<>> /\ past = {}

RunTask(t) ==
    PostedSend(t) \/ SendHandler(t) \/ SuspendWriteHandler(t) \/ ReconnectHandler(t)

Connecting == OnResolve \/ OnConnect \/ OnHandshake

Next ==
    \/ \E t \in posted : RunTask(t)
    \/ WaitHandler \/ OnSendQueue
    \/ Connecting \/ ConnectFails
    \/ OnRead \/ OnReadError \/ ConsumeLine \/ FinishRead
    \/ QueryReply \/ QueryLost \/ StreamHandler \/ Tick

Spec == Init /\ [][Next]_vars

-----------------------------------------------------------------------------
(* Properties *)

ConnTypeOK ==
    /\ stage \in {"resolving", "connecting", "handshaking", "up", "dead"}
    /\ conn \in Nat \ {0} /\ link \in {"open", "closing", "closed", "unclosed"}
ReadTypeOK ==
    /\ reading \in BOOLEAN /\ consuming \in BOOLEAN /\ m_suspend_read \in BOOLEAN
    /\ m_msg_pre_buffer \in Seq(Lines)
    /\ m_channels \subseteq AllChannels
    /\ inputs \in Nat /\ queries \in Nat
SendTypeOK ==
    /\ m_suspend_send \in BOOLEAN /\ m_send_queue_busy \in BOOLEAN
    /\ m_send_queue \in Seq(Message) /\ past \subseteq Nat
LoopTypeOK ==
    /\ m_last_message_sendt \in [text : Texts \union {NoText}, pad : BOOLEAN]
    /\ timer \in BOOLEAN
    /\ inflight \in Seq(Written) /\ wire \in Seq(Written)
ClockTypeOK == since_sent \in 0..Gap /\ quiet \in 0..Gap
WorkTypeOK == posted \subseteq Task /\ nextId \in Nat

TypeOK ==
    ConnTypeOK /\ ReadTypeOK /\ SendTypeOK /\ LoopTypeOK /\ ClockTypeOK /\ WorkTypeOK

\* The send loop never runs twice at a time: the next step of it is due from the
\* timer, from one posted send_handler or from the completion of one write, so no
\* async_write starts while another one is outstanding on the stream (doSendQueue
\* and its callers).
OneWrite ==
    /\ Len(inflight) <= 1
    /\ AtMostOne("write")
    /\ inflight # <<>> => NoTask("write")
    /\ timer => inflight = <<>> /\ NoTask("write")

\* The buffer of an outstanding async_write is the front of m_send_queue, which
\* must stay there until onSendQueue (reconnectHandler replaces the queue).
BufferAlive ==
    \A i \in 1..Len(inflight) :
        m_send_queue # <<>> /\ inflight[i].id = m_send_queue[1].id

\* On every connection PASS and NICK are written before anything else, whatever
\* is posted, replied or left over while the bot reconnects.
AuthFirst ==
    /\ Len(wire) >= 1 => wire[1].text = Pass
    /\ Len(wire) >= 2 => wire[2].text = Nick

IsLogin(entry) == entry.text \in {Pass, Nick}

\* The suffix for repeated messages never reaches the password or the nick.
AuthUnpadded ==
    \A i \in 1..Len(wire) : IsLogin(wire[i]) => ~wire[i].pad

\* No message is written twice, on one connection or on two.
AtMostOnce ==
    /\ \A i, j \in 1..Len(wire) : wire[i].id = wire[j].id => i = j
    /\ \A i \in 1..Len(wire) : wire[i].id \notin past

\* Two writes in a row on a connection never carry the same bytes.
NoRepeat ==
    \A i \in 1..(Len(wire) - 1) :
        <<wire[i].text, wire[i].pad>> # <<wire[i + 1].text, wire[i + 1].pad>>

\* After the first write of a connection, a write starts only when Gap has
\* passed since the one before it completed.
RateLimit ==
    [][wire # <<>> /\ Len(wire') > Len(wire) => quiet >= Gap]_vars

\* With one worker thread messages are written in the order they were posted.
InOrder ==
    \A j \in 1..Len(wire) : ~IsLogin(wire[j]) =>
        /\ \A i \in 3..(j - 1) : wire[i].id < wire[j].id
        /\ \A id \in past : id < wire[j].id

\* While the connection is up and its reads succeed, the bot reads, handles what it has
\* read, or has been told to reconnect: it never stops listening (onRead, onHandshake),
\* unless a command throws.
NeverDeaf == stage = "up" /\ link = "open" => reading \/ consuming \/ m_suspend_read

\* The send side implements Transmission: nothing that was posted is lost but
\* around a reconnect, and what is written is one session after the other.
Transport == INSTANCE Transmission WITH
    Login   <- <<Pass, Nick>>,
    ending  <- m_suspend_send,
    offered <- {[id |-> t.id, text |-> t.text] : t \in {s \in posted : s.kind = "send"}}
               \union {m_send_queue[i] : i \in {j \in 1..Len(m_send_queue) :
                                                 m_send_queue[j].id \notin Ids(wire)}},
    sent    <- wire,
    before  <- past
ImplementsTransmission == Transport!Spec

-----------------------------------------------------------------------------
(* The inductive invariant behind OneWrite, BufferAlive, AuthFirst and        *)
(* AtMostOnce, in parts.                                                      *)

LoopActive == timer \/ ~NoTask("write") \/ inflight # <<>>

\* A step of the loop is due only on a connection that is up, with the loop marked
\* busy, a message to send, and nobody about to replace the queue.
LoopInv ==
    LoopActive =>
        /\ stage = "up" /\ m_send_queue_busy /\ m_send_queue # <<>>
        /\ NoTask("reconnect")

\* A RECONNECT passes from the read buffer to the handler on the send strand and
\* from there to reconnectHandler, and is in one of these places at a time.
ReconnectInv ==
    /\ \A i, j \in 1..Len(m_msg_pre_buffer) :
         IsReconnect(m_msg_pre_buffer[i]) /\ IsReconnect(m_msg_pre_buffer[j]) => i = j
    /\ m_suspend_read =>
         \A i \in 1..Len(m_msg_pre_buffer) : ~IsReconnect(m_msg_pre_buffer[i])
    /\ reading => ~m_suspend_read /\ ~consuming
    /\ m_suspend_send => m_suspend_read /\ NoTask("suspend")
    /\ AtMostOne("suspend") /\ AtMostOne("reconnect")
    /\ NoTask("suspend") \/ (m_suspend_read /\ stage = "up")
    /\ NoTask("reconnect") \/ (m_suspend_send /\ stage = "up")

\* Between reconnectHandler and onHandshake nothing is queued or written.
IdleInv ==
    stage # "up" =>
        /\ m_suspend_send /\ ~m_send_queue_busy
        /\ m_send_queue = <<>> /\ wire = <<>>

\* Until they are written, PASS and NICK lead the queue.
AuthInv ==
    /\ stage = "up" /\ wire = <<>> =>
         /\ inflight = <<>> /\ Len(m_send_queue) >= 2
         /\ m_send_queue[1].text = Pass /\ m_send_queue[2].text = Nick
    /\ Len(wire) = 1 =>
         /\ m_send_queue_busy
         /\ timer \/ ~NoTask("write") => m_send_queue[1].text = Nick
         /\ inflight # <<>> => Len(m_send_queue) >= 2 /\ m_send_queue[2].text = Nick

\* An id is in one place: with a posted handler, in the queue, or written; the front
\* of the queue has been written once its write has started.
TaskIdInv ==
    \A t \in posted :
        /\ t.id < nextId /\ t.id \notin past
        /\ \A s \in posted : s.id = t.id => s = t
        /\ \A i \in 1..Len(m_send_queue) : m_send_queue[i].id # t.id
        /\ \A i \in 1..Len(wire) : wire[i].id # t.id
QueueIdInv ==
    \A i \in 1..Len(m_send_queue) :
        /\ m_send_queue[i].id < nextId /\ m_send_queue[i].id \notin past
        /\ \A j \in 1..Len(m_send_queue) : m_send_queue[i].id = m_send_queue[j].id => i = j
        /\ i >= 2 \/ timer \/ ~NoTask("write") \/ ~m_send_queue_busy =>
             \A j \in 1..Len(wire) : wire[j].id # m_send_queue[i].id
HistoryIdInv ==
    /\ \A i \in 1..Len(wire) : wire[i].id < nextId
    /\ \A id \in past : id < nextId
IdInv == TaskIdInv /\ QueueIdInv /\ HistoryIdInv

IInv ==
    /\ TypeOK /\ OneWrite /\ BufferAlive /\ AuthFirst /\ AtMostOnce
    /\ LoopInv /\ ReconnectInv /\ IdleInv /\ AuthInv /\ IdInv

=============================================================================
