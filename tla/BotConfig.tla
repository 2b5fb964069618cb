----------------------------- MODULE BotConfig -----------------------------
(***************************************************************************)
(* What SaivBot knows beyond one run: the modlist, the whitelist and the   *)
(* channels, kept in memory and in Config.txt (src/src/SaivBot.cpp:        *)
(* loadConfig, saveConfig, the commands promote, demote, join and part,    *)
(* and the JOIN and PART lines of the server).                             *)
(*                                                                         *)
(* Users are changed by a command at once; channels only when the server   *)
(* confirms.  Each change is followed by a save, which empties the file    *)
(* before it writes.  The bot may be killed between any two steps.         *)
(***************************************************************************)
EXTENDS Naturals, Sequences, FiniteSets

CONSTANTS
    Users, Channels,  \* Twitch logins and channels
    OwnChannel,       \* the channel of the bot itself
    Edits,            \* the configs the administrator writes
    SaveFaults,       \* what may fail in a save
    MaxLines,         \* bound: lines under way when a channel command comes
    MaxLeft           \* bound: lines behind one whose handler throws

AllSaveFaults == {"open", "write", "kill"}

\* A login or a channel as it is spelled in the file or in a command.
Spelled(S) == [name : S, lower : BOOLEAN]
LowerName(x) == [name |-> x, lower |-> TRUE]
Lower(n) == LowerName(n.name)

Configs == [modlist : SUBSET Spelled(Users), whitelist : SUBSET Spelled(Users),
            channels : SUBSET Spelled(Channels)]
\* What the members hold before anything is loaded.
Default == [modlist |-> {}, whitelist |-> {}, channels |-> {}]

ASSUME ConfigAssumption ==
    /\ Edits \subseteq Configs
    /\ SaveFaults \subseteq AllSaveFaults
    /\ MaxLines \in Nat /\ MaxLeft \in Nat
ASSUME ChannelsAssumption ==
    /\ IsFiniteSet(Channels) /\ OwnChannel \in Channels
    /\ Users \intersect Channels = {} /\ "none" \notin Users \union Channels

VARIABLES
    phase,      \* "down", "first" (no file: writing one), "up", "exit" (the destructor saves)
    memory,     \* m_modlist, m_whitelist, m_channels
    file,       \* Config.txt: [kind, config]
    saving,     \* where saveConfig is: "no", "open", "write"
    change,     \* history: what the save that runs is for
    settled,    \* history: what was saved last about a user or a channel: "in", "out", "free"
    unsaved,    \* history: what has changed since the last save, and could not be saved
    connected,
    joined,     \* the server: the channels the bot is in
    refused,    \* the server: channels it has refused on this connection
    toServer, toBot, \* JOIN and PART lines under way
    left,       \* how many lines of toBot are in m_msg_pre_buffer since the connection before
    stale       \* history: channels joined by such lines

memVars == <<phase, memory, saving>>
history == <<change, settled, unsaved>>
network == <<connected, joined, refused, toServer, toBot, left, stale>>
vars == <<memVars, file, history, network>>

Lines(S) == [command : {"JOIN", "PART"}, channel : S]
Line(command, c) == [command |-> command, channel |-> c]

Absent == [kind |-> "absent"]
Broken == [kind |-> "broken"]
Whole(c) == [kind |-> "whole", config |-> c]
NoChange == <<"none", "free">>

Init ==
    /\ phase = "down" /\ memory = Default /\ saving = "no" /\ file = Absent
    /\ change = NoChange /\ settled = [x \in Users \union Channels |-> "free"] /\ unsaved = {}
    /\ connected = FALSE /\ joined = {} /\ refused = {} /\ toServer = <<>> /\ toBot = <<>>
    /\ left = 0 /\ stale = {}

\* The connection is over, but for the first k lines that have come.
DisconnectedBut(k) ==
    /\ connected' = FALSE /\ joined' = {} /\ refused' = {} /\ toServer' = <<>>
    /\ toBot' = SubSeq(toBot, 1, k) /\ left' = k
    /\ stale' = {c \in Channels : \E i \in 1..k : toBot[i] = Line("JOIN", c)}
Disconnected == DisconnectedBut(0)

Free(x) == IF x \in DOMAIN settled THEN [settled EXCEPT ![x] = "free"] ELSE settled

-----------------------------------------------------------------------------
(* Start and end of a run *)

\* The administrator writes the file while the bot is not running.
Edit ==
    /\ phase = "down"
    /\ \E c \in Edits : file' = Whole(c)
    /\ settled' = [x \in DOMAIN settled |-> "free"]
    /\ UNCHANGED <<memVars, change, unsaved, network>>

\* loadConfig without a file: it writes one and throws.
LoadAbsent ==
    /\ phase = "down" /\ file = Absent
    /\ phase' = "first" /\ memory' = Default /\ saving' = "open"
    /\ UNCHANGED <<file, history, network>>

\* (The Bug operators of this module are used by no definition: each is a slip in the
\* definition after it.)
BugLoadAnyway ==
    /\ phase = "down" /\ file # Absent
    /\ phase' = "up" /\ memory' = IF file = Broken THEN Default ELSE file.config
    /\ unsaved' = {}
    /\ UNCHANGED <<saving, file, change, settled, network>>
\* loadConfig.  (A file that does not parse throws: main ends, and nothing is left of the run.)
Load ==
    /\ phase = "down" /\ file.kind = "whole"
    /\ phase' = "up" /\ memory' = file.config /\ unsaved' = {}
    /\ UNCHANGED <<saving, file, change, settled, network>>

\* The io_context is out of work: main returns, and the destructor saves.
Finish ==
    /\ phase = "up" /\ saving = "no"
    /\ phase' = "exit" /\ saving' = "open"
    /\ Disconnected
    /\ UNCHANGED <<memory, file, history>>

\* The process is gone, and what it was saving is not settled.
Gone ==
    /\ phase' = "down" /\ saving' = "no"
    /\ settled' = Free(change[1]) /\ change' = NoChange
    /\ Disconnected

Kill == "kill" \in SaveFaults /\ phase # "down" /\ Gone /\ UNCHANGED <<memory, file, unsaved>>

-----------------------------------------------------------------------------
(* saveConfig *)

\* The file is opened, which empties it.
SaveOpen ==
    /\ saving = "open"
    /\ saving' = "write" /\ file' = Broken
    /\ UNCHANGED <<phase, memory, history, network>>

\* Where the program goes on after a save.
AfterSave == IF phase = "up" THEN "up" ELSE "down"

\* The new text is written.
SaveWrite ==
    /\ saving = "write"
    /\ saving' = "no" /\ file' = Whole(memory) /\ phase' = AfterSave
    /\ settled' = IF change = NoChange THEN settled ELSE [settled EXCEPT ![change[1]] = change[2]]
    /\ change' = NoChange /\ unsaved' = {}
    /\ UNCHANGED <<memory, network>>

\* The file cannot be opened, and saveConfig throws.  In a handler the exception leaves onRead
\* before it reads again: the program ends when its other work is done ...
HandlerEnds ==
    /\ phase = "up"
    /\ phase' = "exit" /\ saving' = "open"
    /\ Disconnected
    /\ UNCHANGED history

\* ... unless that read has brought RECONNECT before.  Then the bot connects and reads again.  The
\* line that made the change is still the first of m_msg_pre_buffer; it finds the change made,
\* and saves nothing.  The lines of that read behind it come next.
HandlerReconnects ==
    /\ phase = "up" /\ left = 0
    /\ saving' = "no" /\ UNCHANGED phase
    /\ unsaved' = unsaved \union {change[1]}
    /\ settled' = Free(change[1]) /\ change' = NoChange
    /\ \E k \in 0..Len(toBot) : k <= MaxLeft /\ DisconnectedBut(k)

\* Elsewhere it ends the process.
SaveOpenFails ==
    /\ "open" \in SaveFaults /\ saving = "open"
    /\ \/ HandlerEnds
       \/ HandlerReconnects
       \/ phase # "up" /\ Gone /\ UNCHANGED unsaved
    /\ UNCHANGED <<memory, file>>

\* The disk is full: nobody looks at the state of the stream.
SaveWriteFails ==
    /\ "write" \in SaveFaults /\ saving = "write"
    /\ saving' = "no" /\ phase' = AfterSave
    /\ settled' = Free(change[1]) /\ change' = NoChange
    /\ UNCHANGED <<memory, file, unsaved, network>>

-----------------------------------------------------------------------------
(* The connection *)

Orders(S) == {s \in [1..Cardinality(S) -> S] : \A x \in S : \E i \in DOMAIN s : s[i] = x}

BugHandshakeOwnOnly ==
    /\ phase = "up" /\ saving = "no" /\ ~connected
    /\ connected' = TRUE /\ toServer' = <<Line("JOIN", LowerName(OwnChannel))>>
    /\ UNCHANGED <<memVars, file, history, joined, refused, toBot, left, stale>>
\* onHandshake joins the bot's own channel and then the channels, in any order.
OnHandshake ==
    /\ phase = "up" /\ saving = "no" /\ ~connected
    /\ connected' = TRUE
    /\ \E s \in Orders(memory.channels) :
         toServer' = [i \in 1..(Len(s) + 1) |->
                        Line("JOIN", IF i = 1 THEN LowerName(OwnChannel) ELSE s[i - 1])]
    /\ UNCHANGED <<memVars, file, history, joined, refused, toBot, left, stale>>

\* RECONNECT, which is read behind what was left over: what is under way in either direction
\* is lost.
Reconnect ==
    /\ phase = "up" /\ saving = "no" /\ connected /\ left = 0
    /\ Disconnected
    /\ UNCHANGED <<memVars, file, history>>

\* The server takes a line.  It joins or refuses; what it does it confirms, in lower case.
ServerJoins ==
    LET c == Head(toServer).channel.name IN
    /\ joined' = joined \union {c} /\ toBot' = Append(toBot, Line("JOIN", c))
    /\ UNCHANGED refused
ServerRefuses ==
    /\ refused' = refused \union {Head(toServer).channel.name}
    /\ UNCHANGED <<joined, toBot>>
ServerParts ==
    LET c == Head(toServer).channel.name IN
    /\ joined' = joined \ {c}
    /\ toBot' = IF c \in joined THEN Append(toBot, Line("PART", c)) ELSE toBot
    /\ UNCHANGED refused

Server ==
    /\ toServer # <<>>
    /\ toServer' = Tail(toServer)
    /\ \/ Head(toServer).command = "JOIN" /\ (ServerJoins \/ ServerRefuses)
       \/ Head(toServer).command = "PART" /\ ServerParts
    /\ UNCHANGED <<memVars, file, history, connected, left, stale>>

-----------------------------------------------------------------------------
(* consumeMsgBuffer, on the read strand: nothing of it runs while a handler saves *)

Reading == phase = "up" /\ connected /\ saving = "no"

SaveChange(x, how) == saving' = "open" /\ change' = <<x, how>>

\* The bot's own JOIN comes back.
BugOwnJoinUnsaved ==
    LET c == LowerName(Head(toBot).channel) IN
    /\ c \notin memory.channels
    /\ memory' = [memory EXCEPT !.channels = @ \union {c}]
    /\ UNCHANGED <<saving, change>>
BugOwnJoinLine ==
    LET c == LowerName(Head(toBot).channel) IN
    /\ c \notin memory.channels
    /\ memory' = [memory EXCEPT !.channels = @ \union {Head(toBot)}]
    /\ SaveChange(c.name, "in")
OwnJoin ==
    LET c == LowerName(Head(toBot).channel) IN
    /\ c \notin memory.channels
    /\ memory' = [memory EXCEPT !.channels = @ \union {c}]
    /\ SaveChange(c.name, "in")

\* The bot's own PART comes back.
BugOwnPartKept ==
    LET c == LowerName(Head(toBot).channel) IN
    /\ c \in memory.channels
    /\ memory' = memory
    /\ SaveChange(c.name, "out")
OwnPart ==
    LET c == LowerName(Head(toBot).channel) IN
    /\ c \in memory.channels
    /\ memory' = [memory EXCEPT !.channels = @ \ {c}]
    /\ SaveChange(c.name, "out")

NothingNew(line) ==
    /\ (line.command = "JOIN") = (LowerName(line.channel) \in memory.channels)
    /\ UNCHANGED <<memory, saving, change>>

Confirmation ==
    /\ Reading /\ toBot # <<>>
    /\ toBot' = Tail(toBot) /\ left' = IF left = 0 THEN 0 ELSE left - 1
    /\ \/ Head(toBot).command = "JOIN" /\ OwnJoin
       \/ Head(toBot).command = "PART" /\ OwnPart
       \/ NothingNew(Head(toBot))
    /\ UNCHANGED <<phase, file, settled, unsaved, connected, joined, refused, toServer, stale>>

\* The server sends a nick in lower case.
isModerator(u) == LowerName(u) \in memory.modlist
isWhitelisted(u) == LowerName(u) \in memory.whitelist

\* promote and demote, of a name as it was typed.
promoteCommandFunc(n) ==
    /\ Lower(n) \notin memory.whitelist
    /\ memory' = [memory EXCEPT !.whitelist = @ \union {Lower(n)}]
    /\ SaveChange(n.name, "in")
BugDemoteAsTyped(n) ==
    /\ Lower(n) \in memory.whitelist
    /\ memory' = [memory EXCEPT !.whitelist = @ \ {n}]
    /\ SaveChange(n.name, "out")
demoteCommandFunc(n) ==
    /\ Lower(n) \in memory.whitelist
    /\ memory' = [memory EXCEPT !.whitelist = @ \ {Lower(n)}]
    /\ SaveChange(n.name, "out")

UserCommand ==
    /\ Reading /\ \E u \in Users : isModerator(u)
    /\ \E n \in Spelled(Users) : promoteCommandFunc(n) \/ demoteCommandFunc(n)
    /\ UNCHANGED <<phase, file, settled, unsaved, network>>

\* join and part: the channel is spelled in lower case, and sent.
ChannelCommand ==
    /\ Reading /\ \E u \in Users : isModerator(u)
    /\ Len(toServer) + Len(toBot) < MaxLines
    /\ \E c \in Channels, command \in {"JOIN", "PART"} :
         /\ toServer' = Append(toServer, Line(command, LowerName(c)))
         /\ settled' = IF command = "JOIN" THEN Free(c) ELSE settled
    /\ UNCHANGED <<memVars, file, change, unsaved, connected, joined, refused, toBot, left, stale>>

-----------------------------------------------------------------------------
Next ==
    \/ Edit \/ LoadAbsent \/ Load \/ Finish \/ Kill
    \/ SaveOpen \/ SaveWrite \/ SaveOpenFails \/ SaveWriteFails
    \/ OnHandshake \/ Reconnect \/ Server
    \/ Confirmation \/ UserCommand \/ ChannelCommand

Spec == Init /\ [][Next]_vars

-----------------------------------------------------------------------------
(* Properties *)

TypeOK ==
    /\ phase \in {"down", "first", "up", "exit"}
    /\ memory \in Configs
    /\ file \in {Absent, Broken} \union [kind : {"whole"}, config : Configs]
    /\ saving \in {"no", "open", "write"}
    /\ change = NoChange \/ change \in (Users \union Channels) \X {"in", "out"}
    /\ settled \in [Users \union Channels -> {"in", "out", "free"}]
    /\ unsaved \subseteq Users \union Channels
    /\ connected \in BOOLEAN
    /\ joined \subseteq Channels /\ refused \subseteq Channels /\ stale \subseteq Channels
    /\ toServer \in Seq(Lines(Spelled(Channels)))
    /\ toBot \in Seq(Lines(Channels)) /\ left \in 0..Len(toBot)

\* The file of a running bot is what it has in memory whenever no save is running, but for changes
\* whose own save could not open the file while a RECONNECT kept the bot going, and all of these
\* are in it with the next save; or it is broken since a write failed.
Unsaved == {LowerName(x) : x \in unsaved}
SameBut(a, b, names) ==
    /\ a.modlist = b.modlist
    /\ a.whitelist \ names = b.whitelist \ names
    /\ a.channels \ names = b.channels \ names
FileMatchesMemory ==
    phase = "up" /\ saving = "no" =>
        \/ file.kind = "whole" /\ SameBut(file.config, memory, Unsaved)
        \/ file = Broken /\ "write" \in SaveFaults

\* A right that was granted or taken by a command and saved is the one the bot goes by, in this
\* run and in every later one, until the administrator edits the file; unless the save of a
\* later change of it did not complete.
SettledRightsHold ==
    \A u \in Users : phase = "up" /\ settled[u] # "free" /\ change[1] # u =>
        isWhitelisted(u) = (settled[u] = "in")

\* A new connection, of this run or of a later one, joins the channels whose JOIN was saved last
\* and none whose PART was, until the administrator edits the file or a moderator orders
\* otherwise.  The exceptions are the channel of the bot itself, and one that the file spells
\* with capitals: PART removes the lower-case spelling only.
SettledChannelsJoined ==
    [][~connected /\ connected' =>
        \A c \in Channels \ {OwnChannel} :
            /\ settled[c] = "in" =>
                 \E i \in DOMAIN toServer' : toServer'[i] = Line("JOIN", LowerName(c))
            /\ settled[c] = "out" =>
                 \A i \in DOMAIN toServer' :
                    toServer'[i].channel.name = c => ~toServer'[i].channel.lower]_vars

\* When nothing is under way, the bot records messages of exactly the channels it is in, but
\* for those that the server refused, and those that a line of the connection before has joined
\* after the handshake.
ChannelsFollowServer ==
    connected /\ toServer = <<>> /\ toBot = <<>> /\ saving = "no" =>
        \A c \in Channels :
            /\ c \in joined => LowerName(c) \in memory.channels
            /\ LowerName(c) \in memory.channels => c \in joined \union refused \union stale

\* The file is a ConfigStore: a run starts from what was saved or edited last, as a whole.  There
\* is nothing in it before the first run has written it.
Stored == IF file = Absent \/ (file = Broken /\ phase = "first")
            THEN [kind |-> "nothing"] ELSE file
Running == CASE phase = "up" -> Whole(memory)
             [] phase = "exit" -> [kind |-> "ending", config |-> memory]
             [] OTHER -> [kind |-> "nothing"]
Store == INSTANCE ConfigStore WITH
    Names <- Spelled(Users \union Channels),
    stored <- Stored, running <- Running, missed <- Unsaved
ImplementsConfigStore == Store!Spec

=============================================================================
