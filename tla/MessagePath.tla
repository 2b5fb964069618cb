---------------------------- MODULE MessagePath ----------------------------
(***************************************************************************)
(* The way of a message through SaivBot: out of the bytes of the           *)
(* connection, through m_msg_pre_buffer and the buffer of its channel, to  *)
(* the commands that answer it or clip it later (src/src/SaivBot.cpp,      *)
(* src/src/IRCMessage.cpp, src/src/IRCMessageBuffer.cpp).                  *)
(*                                                                         *)
(* An IRCMessage is a string and views into it, so what matters of one is  *)
(* also whether its views still point into its own string.                 *)
(***************************************************************************)
EXTENDS IrcText, FiniteSets, FiniteSetsExt

CONSTANTS
    Messages,     \* what the server may send
    BotNick,      \* m_nick
    Whitelisted,  \* the users who may clip and find
    Capacity,     \* m_message_buffer_size
    Inline,       \* the longest text a string holds inside the object
    MaxMessages,  \* bound: messages of a behaviour
    MaxCuts,      \* bound: reads that end within a line
    MaxUnread     \* bound: messages under way

ASSUME PathAssumption ==
    /\ Capacity \in Nat \ {0}
    /\ Inline \in Nat /\ MaxMessages \in Nat /\ MaxCuts \in Nat /\ MaxUnread \in Nat
\* A line has one CR and LF, at its end, and its parts have no space in them.
ASSUME MessagesAssumption ==
    Messages \subseteq [from : Words \union {""}, command : Words, params : Seq(Words),
                        body : Seq(Tokens \ {CR, LF})]
\* What a line has before this word, the prefix of a user, is too long to be held inside.
ASSUME PrefixAssumption ==
    \A m \in Messages : \A i \in DOMAIN Render(m) : Render(m)[i] = "PRIVMSG" => i > Inline + 1

VARIABLES
    running,           \* FALSE: a read or an erase out of bounds has ended the program
    network,           \* sent by the server and not read
    m_buffer,
    m_msg_pre_buffer,
    m_suspend_read,    \* RECONNECT was read
    m_channels,        \* channel -> its buffer
    jobs,              \* find and clip: what has still to be answered
    due,               \* history: the messages sent and not consumed
    torn,              \* history: a read has ended between CR and LF
    glued,             \* history: the next line starts with a piece of the last connection
    seen,              \* history: channel -> all its messages since the buffer exists
    answer,            \* history: the last answer
    sent, cuts         \* numbers of messages, and of reads that ended within a line, so far

input == <<network, due, sent, cuts>>
output == <<jobs, answer>>
channels == <<m_channels, seen>>
vars == <<running, input, m_buffer, m_msg_pre_buffer, m_suspend_read, channels, output, torn, glued>>

NoAnswer == [to |-> <<>>, nick |-> <<>>, asked |-> <<>>, kind |-> "none", lines |-> <<>>, recent |-> <<>>]

Init ==
    /\ running = TRUE /\ network = <<>> /\ m_buffer = <<>> /\ m_msg_pre_buffer = <<>>
    /\ m_suspend_read = FALSE
    /\ m_channels = [c \in {} |-> <<>>] /\ seen = [c \in {} |-> <<>>]
    /\ jobs = {} /\ answer = NoAnswer
    /\ due = <<>> /\ torn = FALSE /\ glued = FALSE /\ sent = 0 /\ cuts = 0

-----------------------------------------------------------------------------
(* IRCMessage objects *)

New(line) == [fields |-> Parse(line), size |-> Len(line), own |-> TRUE]
\* The default move takes the string along and keeps the views: a string that is held inside
\* the object is copied, and the views still point into the old object.
Move(o) == [o EXCEPT !.own = @ /\ o.size > Inline]
\* (The Bug operators of this module are used by no definition: each is a slip in the
\* definition after it.)
BugCopy(o) == [o EXCEPT !.own = FALSE]
\* copyImplementation makes new views at the same distances.
Copy(o) == o

\* IRCMessageBuffer::push and accessLinesFromNow.
BugPush(queue, o) == IF Len(queue) > Capacity THEN Append(Tail(queue), o) ELSE Append(queue, o)
Push(queue, o) ==
    LET longer == Append(queue, o) IN IF Len(longer) > Capacity THEN Tail(longer) ELSE longer
BugLinesFromNow(queue, n) ==
    [i \in 1..(IF n < Len(queue) THEN n ELSE Len(queue)) |-> queue[Len(queue) + 1 - i]]
LinesFromNow(queue, n) ==
    Reverse([i \in 1..(IF n < Len(queue) THEN n ELSE Len(queue)) |-> queue[Len(queue) + 1 - i]])

-----------------------------------------------------------------------------
(* Input *)

\* The server sends a line.
ServerSends(m) ==
    /\ running /\ sent < MaxMessages /\ Len(due) < MaxUnread
    /\ network' = network \o Render(m) \o <<CR, LF>>
    /\ due' = Append(due, m) /\ sent' = sent + 1
    /\ UNCHANGED <<running, cuts, m_buffer, m_msg_pre_buffer, m_suspend_read, channels, output,
                   torn, glued>>

\* onRead: any part of what was sent arrives, and parseBuffer takes the lines out of m_buffer.
\* An erase past the end brings the program down, or is limited to the buffer.
Read(k) ==
    LET split == Split(m_buffer \o SubSeq(network, 1, k)) IN
    /\ running /\ m_msg_pre_buffer = <<>> /\ ~m_suspend_read
    /\ IF network[k] = LF THEN UNCHANGED cuts ELSE cuts < MaxCuts /\ cuts' = cuts + 1
    /\ network' = From(network, k + 1)
    /\ m_buffer' = split.rest
    /\ m_msg_pre_buffer' = [i \in DOMAIN split.lines |-> New(split.lines[i])]
    /\ torn' = (torn \/ split.past)
    /\ running' \in IF split.past THEN BOOLEAN ELSE {TRUE}
    /\ UNCHANGED <<due, sent, m_suspend_read, channels, output, glued>>

\* After RECONNECT the bot connects again.  m_buffer is kept.
Reconnect ==
    /\ running /\ m_suspend_read /\ m_msg_pre_buffer = <<>>
    /\ m_suspend_read' = FALSE
    /\ network' = <<>> /\ due' = <<>> /\ glued' = (m_buffer # <<>>)
    /\ UNCHANGED <<running, sent, cuts, m_buffer, m_msg_pre_buffer, channels, output, torn>>

-----------------------------------------------------------------------------
(* consumeMsgBuffer *)

irc_msg == m_msg_pre_buffer[1]
Field == irc_msg.fields
Channel == Field.params[1]
\* The message the server sent for the line at the front, if that line is intact.
Asked == IF torn \/ glued \/ due = <<>> THEN <<>> ELSE <<Fields(due[1])>>

PopFront ==
    /\ m_msg_pre_buffer' = Tail(m_msg_pre_buffer)
    /\ due' = IF due = <<>> THEN due ELSE Tail(due)
    /\ glued' = FALSE
    /\ UNCHANGED <<network, sent, cuts, m_buffer, torn>>

\* The command in a body: the nick of the bot, the name of the command and its argument.
Command(body) ==
    IF Len(body) >= 3 /\ body[1] = BotNick /\ body[2] = SP THEN body[3] ELSE "none"
LineCount(body) == CASE Last(body) = "1" -> 1 [] Last(body) = "2" -> 2 [] OTHER -> 0
HasLineCount(body) == Len(body) >= 5

isWhitelisted(nick) == nick \in {<<u>> : u \in Whitelisted}

Reply(kind, o, asked, lines, recent) ==
    [to |-> o.fields.params[1], nick |-> o.fields.nick, asked |-> asked, kind |-> kind,
     lines |-> lines, recent |-> recent]
Job(kind, lines, recent) ==
    [kind |-> kind, irc_msg |-> Copy(irc_msg), asked |-> Asked, lines |-> lines, recent |-> recent]

\* ping: answered at once, to everybody.
pingCommandFunc == answer' = Reply("ping", irc_msg, Asked, <<>>, <<>>) /\ UNCHANGED jobs
\* find (and count): the request keeps a copy of the message.
findCommandFunc == jobs' = jobs \union {Job("find", <<>>, <<>>)} /\ UNCHANGED answer
\* The reference for clip: the last n of all the messages of the channel, but for what a buffer
\* of that capacity cannot hold.
Recent(all, n) ==
    LET length == Min({n, Capacity, Len(all)}) IN SubSeq(all, Len(all) - length + 1, Len(all))
\* clip: the lines are written into the upload at once.
clipCommandFunc ==
    LET n == LineCount(Field.body)
        lines == LinesFromNow(m_channels[Channel], n)
        upload == Job("clip", [i \in DOMAIN lines |-> lines[i].fields], Recent(seen[Channel], n))
    IN
    IF HasLineCount(Field.body)
      THEN jobs' = (IF n = 0 THEN jobs ELSE jobs \union {upload}) /\ UNCHANGED answer
      ELSE answer' = Reply("invalid", irc_msg, Asked, <<>>, <<>>) /\ UNCHANGED jobs

Commands ==
    LET command == Command(Field.body)
        allowed == isWhitelisted(Field.nick)
    IN  CASE command = "ping" -> pingCommandFunc
          [] command = "find" /\ allowed -> findCommandFunc
          [] command = "clip" /\ allowed /\ Channel \in DOMAIN m_channels -> clipCommandFunc
          [] OTHER -> UNCHANGED output

\* The message moves into the buffer of its channel, if there is one.
PushToChannel ==
    IF Channel \in DOMAIN m_channels
      THEN /\ m_channels' = [m_channels EXCEPT ![Channel] = Push(@, Move(irc_msg))]
           /\ seen' = [seen EXCEPT ![Channel] = Append(@, Field)]
      ELSE UNCHANGED channels

\* A PRIVMSG: the command first, then the buffer.
ConsumePrivmsg ==
    /\ Field.command = <<"PRIVMSG">> /\ Field.params # <<>>
    /\ Commands
    /\ PushToChannel
    /\ UNCHANGED <<running, m_suspend_read>>
\* getParams()[0] of a message without parameters reads out of bounds.
OutOfBounds == running' = FALSE /\ UNCHANGED <<m_suspend_read, channels, output>>
ConsumeBadPrivmsg ==
    /\ Field.command = <<"PRIVMSG">> /\ Field.params = <<>>
    /\ OutOfBounds

\* The bot's own JOIN or PART.
OwnLine == Field.nick = <<BotNick>> /\ Field.command \in {<<"JOIN">>, <<"PART">>}
ConsumeBadOwnLine == OwnLine /\ Field.params = <<>> /\ OutOfBounds

Drop(f, c) == [x \in DOMAIN f \ {c} |-> f[x]]
Start(f, c) == [x \in DOMAIN f \union {c} |-> IF x = c THEN <<>> ELSE f[x]]

\* Everything else.
ConsumeOther ==
    /\ Field.command # <<"PRIVMSG">> /\ (OwnLine => Field.params # <<>>)
    /\ m_suspend_read' = (m_suspend_read \/ Field.command = <<"RECONNECT">>)
    /\ CASE OwnLine /\ Field.command = <<"JOIN">> /\ Channel \notin DOMAIN m_channels ->
                m_channels' = Start(m_channels, Channel) /\ seen' = Start(seen, Channel)
         [] OwnLine /\ Field.command = <<"PART">> /\ Channel \in DOMAIN m_channels ->
                m_channels' = Drop(m_channels, Channel) /\ seen' = Drop(seen, Channel)
         [] OTHER -> UNCHANGED channels
    /\ UNCHANGED <<running, output>>

Consume ==
    /\ running /\ m_msg_pre_buffer # <<>>
    /\ ConsumePrivmsg \/ ConsumeBadPrivmsg \/ ConsumeBadOwnLine \/ ConsumeOther
    /\ PopFront

BugAnswerOfFront(j) ==
    /\ running
    /\ answer' = Reply(j.kind, IF m_msg_pre_buffer # <<>> /\ Field.params # <<>> THEN irc_msg ELSE j.irc_msg,
                       j.asked, j.lines, j.recent)
    /\ jobs' = jobs \ {j}
    /\ UNCHANGED <<running, input, m_buffer, m_msg_pre_buffer, m_suspend_read, channels, torn, glued>>
\* A download or an upload has ended: the answer goes where the copied message came from.  The
\* handler of an upload gets the message by a move, and is copied.
Answer(j) ==
    /\ running
    /\ answer' = Reply(j.kind, Copy(Move(j.irc_msg)), j.asked, j.lines, j.recent)
    /\ jobs' = jobs \ {j}
    /\ UNCHANGED <<running, input, m_buffer, m_msg_pre_buffer, m_suspend_read, channels, torn, glued>>

-----------------------------------------------------------------------------
Next ==
    \/ \E m \in Messages : ServerSends(m)
    \/ \E k \in 1..Len(network) : Read(k)
    \/ Reconnect
    \/ Consume
    \/ \E j \in jobs : Answer(j)

Spec == Init /\ [][Next]_vars

-----------------------------------------------------------------------------
(* Properties *)

IsObject(o) == DOMAIN o = {"fields", "size", "own"} /\ o.size \in Nat /\ o.own \in BOOLEAN

TypeOK ==
    /\ running \in BOOLEAN /\ m_suspend_read \in BOOLEAN
    /\ torn \in BOOLEAN /\ glued \in BOOLEAN
    /\ sent \in 0..MaxMessages /\ cuts \in 0..MaxCuts /\ Len(due) <= MaxUnread
    /\ \A i \in DOMAIN m_msg_pre_buffer : IsObject(m_msg_pre_buffer[i])
    /\ DOMAIN m_channels = DOMAIN seen
    /\ \A c \in DOMAIN m_channels :
         /\ Len(m_channels[c]) <= Capacity
         /\ \A i \in DOMAIN m_channels[c] : IsObject(m_channels[c][i])
    /\ \A j \in jobs : IsObject(j.irc_msg)

\* However the reads cut the stream, each message is read once, in order and as it was sent, as
\* long as no read has ended between CR and LF.  Only the first line of a connection can be
\* spoilt, by a piece of a line that the connection before has left in m_buffer.
MessagesIntact ==
    ~torn =>
        \A i \in DOMAIN m_msg_pre_buffer :
            \/ i = 1 /\ glued
            \/ i \in DOMAIN due /\ m_msg_pre_buffer[i].fields = Fields(due[i])

\* Nothing but these two, a read that ends between CR and LF and a piece of an old line, takes
\* the bot out of the bounds of a buffer; unless the server itself leaves the channel out.
NamesNoChannel(m) == m.params = <<>> /\ m.command \in {"PRIVMSG", "JOIN", "PART"}
BoundsKept ==
    [][running /\ ~running' =>
         torn' \/ glued \/ (due # <<>> /\ NamesNoChannel(due[1]))]_vars

\* A message that is kept, in the buffer of a channel or for a later answer, never looks into
\* the string of another object: those that are moved are too long to be held inside it.
ViewsOwn ==
    /\ \A c \in DOMAIN m_channels : \A i \in DOMAIN m_channels[c] : m_channels[c][i].own
    /\ \A j \in jobs : j.irc_msg.own /\ Move(j.irc_msg).own

\* An answer goes to the channel, and names the user, of the message that asked for it, however
\* late it comes and whatever became of the channel meanwhile.
AnswerToAsker ==
    answer.asked # <<>> =>
        answer.to = answer.asked[1].params[1] /\ answer.nick = answer.asked[1].nick

\* A clip holds the last messages of its channel before the command, in order, as many as
\* asked for or as there are since the bot is in the channel.
ClipIsRecent == answer.kind = "clip" => answer.lines = answer.recent

=============================================================================
