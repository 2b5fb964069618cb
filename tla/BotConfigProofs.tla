--------------------------- MODULE BotConfigProofs ---------------------------
(***************************************************************************)
(* Proofs about BotConfig, for any users, channels, edits and faults: what *)
(* the variables hold, that the file of a running bot is what it has in    *)
(* memory, that rights which were saved hold, that BotConfig implements    *)
(* ConfigStore, and that its channels follow those of the server.          *)
(***************************************************************************)
EXTENDS BotConfig, FiniteSetTheorems, TLAPS

\* A save that runs in a handler is of what the handler has changed.
HandlerSaves ==
    /\ phase = "down" => saving = "no"
    /\ phase = "up" /\ saving # "no" => change # NoChange

\* Before such a save opens the file, the file is what memory is but for that change and those
\* before it which are unsaved; and it is not what memory is already.
Pending ==
    phase = "up" /\ saving = "open" =>
        \/ file = Broken /\ "write" \in SaveFaults
        \/ /\ file.kind = "whole"
           /\ SameBut(file.config, memory, Unsaved \union {LowerName(change[1])})
           /\ change[1] \notin unsaved => ~SameBut(file.config, memory, Unsaved)

\* Where a save is, and what the file holds then.
SaveInv ==
    /\ HandlerSaves
    /\ phase \in {"first", "exit"} => saving # "no"
    /\ phase = "first" => memory = Default /\ file \in {Absent, Broken}
    /\ phase \in {"down", "first"} \/ saving = "no" => change = NoChange
    /\ saving = "write" => file = Broken
    /\ Pending /\ FileMatchesMemory

Names == Users \union Channels

\* A user is in the whitelist, or a channel in the channels.
Has(config, x) ==
    \/ x \in Users /\ LowerName(x) \in config.whitelist
    \/ x \in Channels /\ LowerName(x) \in config.channels

\* What is settled about a name is so in memory and in the file, unless a save of it runs; and
\* that save is of what is in memory.
SettledInv ==
    /\ file = Absent => phase \in {"down", "first"}
    /\ file = Absent \/ phase = "first" => \A x \in Names : settled[x] = "free"
    /\ \A x \in Names : change[1] = x => Has(memory, x) = (change[2] = "in")
    /\ \A x \in Names : settled[x] # "free" /\ change[1] # x =>
         /\ phase \in {"up", "exit"} => Has(memory, x) = (settled[x] = "in")
         /\ file.kind = "whole" => Has(file.config, x) = (settled[x] = "in")

IInv == TypeOK /\ SaveInv /\ SettledInv

-----------------------------------------------------------------------------
(* Types *)

LEMMA SpelledChannelsFinite ==
    ASSUME NEW S \in SUBSET Spelled(Channels)
    PROVE  IsFiniteSet(S) /\ Cardinality(S) \in Nat
<1> DEFINE T == Channels \X (1..2)
           f == [p \in T |-> [name |-> p[1], lower |-> p[2] = 1]]
<1>1. IsFiniteSet(T)
  <2>1. 1 \in Int /\ 2 \in Int
    OBVIOUS
  <2>2. IsFiniteSet(1..2)
    BY <2>1, FS_Interval, Zenon
  <2> QED BY <2>2, FS_Product, ChannelsAssumption
<1>2. f \in Surjection(T, Spelled(Channels))
  <2>1. f \in [T -> Spelled(Channels)]
    BY DEF Spelled
  <2>2. ASSUME NEW n \in Spelled(Channels) PROVE \E p \in T : f[p] = n
    <3>1. CASE n.lower = TRUE
      <4>1. <<n.name, 1>> \in T /\ f[<<n.name, 1>>] = n
        BY <3>1 DEF Spelled
      <4> QED BY <4>1
    <3>2. CASE n.lower = FALSE
      <4>1. <<n.name, 2>> \in T /\ f[<<n.name, 2>>] = n
        BY <3>2 DEF Spelled
      <4> QED BY <4>1
    <3> QED BY <3>1, <3>2 DEF Spelled
  <2> HIDE DEF f, T
  <2> QED BY <2>1, <2>2 DEF Surjection
<1>3. IsFiniteSet(Spelled(Channels))
  BY <1>1, <1>2, FS_Surjection
<1> QED BY <1>3, FS_Subset, FS_CardinalityType

LEMMA NamesInLowerCase ==
    /\ \A x \in Users : LowerName(x) \in Spelled(Users)
    /\ \A x \in Channels : LowerName(x) \in Spelled(Channels)
    /\ \A n \in Spelled(Users) : n.name \in Users /\ Lower(n) = LowerName(n.name)
BY DEF LowerName, Lower, Spelled

LEMMA LineType ==
    ASSUME NEW S, NEW x \in S, NEW command \in {"JOIN", "PART"}
    PROVE  /\ Line(command, x) \in Lines(S)
           /\ Line(command, x).command = command /\ Line(command, x).channel = x
BY DEF Line, Lines

NetworkOK ==
    /\ connected \in BOOLEAN
    /\ joined \subseteq Channels /\ refused \subseteq Channels /\ stale \subseteq Channels
    /\ toServer \in Seq(Lines(Spelled(Channels)))
    /\ toBot \in Seq(Lines(Channels)) /\ left \in 0..Len(toBot)

LEMMA DisconnectedType ==
    ASSUME TypeOK, NEW k \in 0..Len(toBot), DisconnectedBut(k)
    PROVE  NetworkOK'
<1>1. toBot \in Seq(Lines(Channels)) /\ k \in Nat /\ k <= Len(toBot)
  BY DEF TypeOK
<1>2. toBot' \in Seq(Lines(Channels)) /\ Len(toBot') = k
  BY <1>1 DEF DisconnectedBut
<1>3. left' \in 0..Len(toBot')
  BY <1>1, <1>2 DEF DisconnectedBut
<1>4. connected' \in BOOLEAN
  BY DEF DisconnectedBut
<1>5. toServer' \in Seq(Lines(Spelled(Channels)))
  BY DEF DisconnectedBut
<1>6. joined' \subseteq Channels /\ refused' \subseteq Channels /\ stale' \subseteq Channels
  BY DEF DisconnectedBut
<1> QED BY <1>2, <1>3, <1>4, <1>5, <1>6 DEF NetworkOK

LEMMA AllLost ==
    ASSUME TypeOK, Disconnected
    PROVE  NetworkOK'
<1>1. 0 \in 0..Len(toBot)
  BY DEF TypeOK
<1> QED BY <1>1, DisconnectedType DEF Disconnected

LEMMA FreeType ==
    ASSUME NEW x, settled \in [Users \union Channels -> {"in", "out", "free"}]
    PROVE  /\ Free(x) \in [Users \union Channels -> {"in", "out", "free"}]
           /\ \A u \in Users \union Channels : Free(x)[u] = IF u = x THEN "free" ELSE settled[u]
BY DEF Free

LEMMA GoneType ==
    ASSUME TypeOK, Gone, UNCHANGED <<memory, file, unsaved>>
    PROVE  TypeOK'
<1>1. NetworkOK'
  BY AllLost DEF Gone
<1> QED BY <1>1, FreeType DEF TypeOK, NetworkOK, Gone

\* The actions of a save and of the begin and the end of a run.
LEMMA RunTypes ==
    ASSUME TypeOK, HandlerSaves,
           Edit \/ LoadAbsent \/ Load \/ Finish \/ Kill
             \/ SaveOpen \/ SaveWrite \/ SaveOpenFails \/ SaveWriteFails
    PROVE  TypeOK'
<1> USE DEF memVars, history, network
<1>1. CASE Edit
  BY <1>1, ConfigAssumption DEF Edit, TypeOK, Whole
<1>2. CASE LoadAbsent
  BY <1>2 DEF LoadAbsent, TypeOK, Default, Configs
<1>3. CASE Load
  BY <1>3 DEF Load, TypeOK, Absent, Broken
<1>4. CASE Finish
  BY <1>4, AllLost DEF Finish, TypeOK, NetworkOK
<1>5. CASE Kill
  BY <1>5, GoneType DEF Kill
<1>6. CASE SaveOpen
  BY <1>6 DEF SaveOpen, TypeOK
<1>7. CASE SaveWrite
  <2>1. settled' \in [Users \union Channels -> {"in", "out", "free"}]
    BY <1>7 DEF SaveWrite, TypeOK
  <2>2. file' \in [kind : {"whole"}, config : Configs] /\ phase' \in {"up", "down"}
    BY <1>7 DEF SaveWrite, TypeOK, Whole, AfterSave
  <2> QED BY <1>7, <2>1, <2>2 DEF SaveWrite, TypeOK
<1>8. CASE SaveOpenFails
  <2>1. CASE HandlerEnds
    BY <1>8, <2>1, AllLost DEF SaveOpenFails, HandlerEnds, TypeOK, NetworkOK
  <2>2. CASE HandlerReconnects
    <3>1. change[1] \in Users \union Channels
      BY <1>8, <2>2 DEF SaveOpenFails, HandlerReconnects, HandlerSaves, TypeOK
    <3>2. NetworkOK'
      BY <2>2, DisconnectedType DEF HandlerReconnects
    <3> QED BY <1>8, <2>2, <3>1, <3>2, FreeType
        DEF SaveOpenFails, HandlerReconnects, TypeOK, NetworkOK
  <2>3. CASE phase # "up" /\ Gone /\ UNCHANGED unsaved
    BY <1>8, <2>3, GoneType DEF SaveOpenFails
  <2> QED BY <1>8, <2>1, <2>2, <2>3 DEF SaveOpenFails
<1>9. CASE SaveWriteFails
  BY <1>9, FreeType DEF SaveWriteFails, TypeOK, AfterSave
<1> QED BY <1>1, <1>2, <1>3, <1>4, <1>5, <1>6, <1>7, <1>8, <1>9

\* Adding a name to a list of a config, or taking one out, gives a config.
LEMMA EditedConfigs ==
    ASSUME NEW c \in Configs
    PROVE  /\ \A x \in Spelled(Users) : [c EXCEPT !.whitelist = @ \union {x}] \in Configs
           /\ \A x : [c EXCEPT !.whitelist = @ \ {x}] \in Configs
           /\ \A x \in Spelled(Channels) : [c EXCEPT !.channels = @ \union {x}] \in Configs
           /\ \A x : [c EXCEPT !.channels = @ \ {x}] \in Configs
<1> DEFINE U == Spelled(Users)
           C == Spelled(Channels)
<1>1. c \in [modlist : SUBSET U, whitelist : SUBSET U, channels : SUBSET C]
  BY DEF Configs
<1> HIDE DEF U, C
<1>2. /\ \A x \in U : [c EXCEPT !.whitelist = @ \union {x}] \in [modlist : SUBSET U, whitelist : SUBSET U, channels : SUBSET C]
      /\ \A x : [c EXCEPT !.whitelist = @ \ {x}] \in [modlist : SUBSET U, whitelist : SUBSET U, channels : SUBSET C]
  BY <1>1
<1>3. /\ \A x \in C : [c EXCEPT !.channels = @ \union {x}] \in [modlist : SUBSET U, whitelist : SUBSET U, channels : SUBSET C]
      /\ \A x : [c EXCEPT !.channels = @ \ {x}] \in [modlist : SUBSET U, whitelist : SUBSET U, channels : SUBSET C]
  BY <1>1
<1> QED BY <1>2, <1>3 DEF Configs, U, C

\* The actions of a connection.
LEMMA ConnectionTypes ==
    ASSUME TypeOK,
           OnHandshake \/ Reconnect \/ Server \/ Confirmation \/ UserCommand \/ ChannelCommand
    PROVE  TypeOK'
<1> USE DEF memVars, history, network
<1>1. CASE OnHandshake
  <2>1. PICK s \in Orders(memory.channels) :
               toServer' = [i \in 1..(Len(s) + 1) |->
                              Line("JOIN", IF i = 1 THEN LowerName(OwnChannel) ELSE s[i - 1])]
    BY <1>1 DEF OnHandshake
  <2>2. memory.channels \in SUBSET Spelled(Channels)
    BY DEF TypeOK, Configs
  <2>3. s \in Seq(Spelled(Channels)) /\ Len(s) \in Nat
    <3>1. Cardinality(memory.channels) \in Nat
      BY <2>2, SpelledChannelsFinite
    <3>2. s \in [1..Cardinality(memory.channels) -> Spelled(Channels)]
      BY <2>2 DEF Orders
    <3> QED BY <3>1, <3>2
  <2>4. ASSUME NEW i \in 1..(Len(s) + 1)
        PROVE  Line("JOIN", IF i = 1 THEN LowerName(OwnChannel) ELSE s[i - 1])
                 \in Lines(Spelled(Channels))
    <3>1. CASE i = 1
      BY <3>1, LineType, NamesInLowerCase, ChannelsAssumption
    <3>2. CASE i # 1
      <4>1. i - 1 \in 1..Len(s)
        BY <2>3, <3>2
      <4>2. s[i - 1] \in Spelled(Channels)
        BY <2>3, <4>1
      <4> QED BY <3>2, <4>2, LineType
    <3> QED BY <3>1, <3>2
  <2>5. toServer' \in Seq(Lines(Spelled(Channels)))
    BY <2>1, <2>3, <2>4
  <2> QED BY <1>1, <2>5 DEF OnHandshake, TypeOK
<1>2. CASE Reconnect
  BY <1>2, AllLost DEF Reconnect, TypeOK, NetworkOK
<1>3. CASE Server
  <2>1. Head(toServer) \in Lines(Spelled(Channels)) /\ toServer' \in Seq(Lines(Spelled(Channels)))
    BY <1>3 DEF Server, TypeOK
  <2>2. Head(toServer).channel.name \in Channels
    BY <2>1 DEF Lines, Spelled
  <2>3. /\ joined' \subseteq Channels /\ refused' \subseteq Channels
        /\ toBot' \in Seq(Lines(Channels)) /\ Len(toBot') >= Len(toBot)
    <3>1. CASE ServerJoins
      <4>1. Line("JOIN", Head(toServer).channel.name) \in Lines(Channels)
        BY <2>2, LineType
      <4> QED BY <2>2, <3>1, <4>1 DEF ServerJoins, TypeOK
    <3>2. CASE ServerRefuses
      BY <2>2, <3>2 DEF ServerRefuses, TypeOK
    <3>3. CASE ServerParts
      <4>1. Line("PART", Head(toServer).channel.name) \in Lines(Channels)
        BY <2>2, LineType
      <4> QED BY <2>2, <3>3, <4>1 DEF ServerParts, TypeOK
    <3> QED BY <1>3, <3>1, <3>2, <3>3 DEF Server
  <2>4. left' \in 0..Len(toBot')
    BY <1>3, <2>3 DEF Server, TypeOK
  <2> QED BY <1>3, <2>1, <2>3, <2>4 DEF Server, TypeOK
<1>4. CASE Confirmation
  <2> DEFINE c == LowerName(Head(toBot).channel)
  <2>1. /\ Head(toBot).channel \in Channels
        /\ toBot' \in Seq(Lines(Channels)) /\ left' \in 0..Len(toBot')
    <3>1. toBot \in Seq(Lines(Channels)) /\ toBot # <<>> /\ toBot' = Tail(toBot)
      BY <1>4 DEF Confirmation, TypeOK
    <3>2. /\ Head(toBot) \in Lines(Channels) /\ toBot' \in Seq(Lines(Channels))
          /\ Len(toBot') = Len(toBot) - 1 /\ Len(toBot) \in Nat \ {0}
      BY <3>1
    <3>3. left \in 0..Len(toBot) /\ left' = IF left = 0 THEN 0 ELSE left - 1
      BY <1>4 DEF Confirmation, TypeOK
    <3> QED BY <3>2, <3>3 DEF Lines
  <2>2. c \in Spelled(Channels) /\ c.name \in Channels
    BY <2>1, NamesInLowerCase DEF LowerName
  <2>3. /\ memory' \in Configs /\ saving' \in {"no", "open", "write"}
        /\ change' = NoChange \/ change' \in (Users \union Channels) \X {"in", "out"}
    <3>1. memory \in Configs
      BY DEF TypeOK
    <3>2. CASE OwnJoin
      <4> HIDE DEF c
      <4>1. memory' = [memory EXCEPT !.channels = @ \union {c}] /\ SaveChange(c.name, "in")
        BY <3>2 DEF OwnJoin, c
      <4> QED BY <2>2, <3>1, <4>1, EditedConfigs DEF SaveChange
    <3>3. CASE OwnPart
      <4> HIDE DEF c
      <4>1. memory' = [memory EXCEPT !.channels = @ \ {c}] /\ SaveChange(c.name, "out")
        BY <3>3 DEF OwnPart, c
      <4> QED BY <2>2, <3>1, <4>1, EditedConfigs DEF SaveChange
    <3>4. CASE UNCHANGED <<memory, saving, change>>
      BY <3>4 DEF TypeOK
    <3> QED BY <1>4, <3>2, <3>3, <3>4 DEF Confirmation, NothingNew
  <2> QED BY <1>4, <2>1, <2>3 DEF Confirmation, TypeOK
<1>5. CASE UserCommand
  <2>1. PICK n \in Spelled(Users) : promoteCommandFunc(n) \/ demoteCommandFunc(n)
    BY <1>5 DEF UserCommand
  <2>2. Lower(n) \in Spelled(Users) /\ n.name \in Users
    BY NamesInLowerCase
  <2>3. /\ memory' \in Configs /\ saving' = "open"
        /\ change' \in (Users \union Channels) \X {"in", "out"}
    <3>1. memory \in Configs
      BY DEF TypeOK
    <3>2. \/ memory' = [memory EXCEPT !.whitelist = @ \union {Lower(n)}] /\ SaveChange(n.name, "in")
          \/ memory' = [memory EXCEPT !.whitelist = @ \ {Lower(n)}] /\ SaveChange(n.name, "out")
      BY <2>1 DEF promoteCommandFunc, demoteCommandFunc
    <3>3. saving' = "open" /\ change' \in {n.name} \X {"in", "out"}
      BY <3>2 DEF SaveChange
    <3>4. memory' \in Configs
      BY <2>2, <3>1, <3>2, EditedConfigs
    <3> QED BY <2>2, <3>3, <3>4
  <2> QED BY <1>5, <2>3 DEF UserCommand, TypeOK
<1>6. CASE ChannelCommand
  <2>1. PICK c \in Channels, command \in {"JOIN", "PART"} :
          /\ toServer' = Append(toServer, Line(command, LowerName(c)))
          /\ settled' = IF command = "JOIN" THEN Free(c) ELSE settled
    BY <1>6 DEF ChannelCommand
  <2>2. toServer' \in Seq(Lines(Spelled(Channels)))
    <3>1. Line(command, LowerName(c)) \in Lines(Spelled(Channels))
      BY LineType, NamesInLowerCase
    <3>2. toServer \in Seq(Lines(Spelled(Channels)))
      BY DEF TypeOK
    <3> QED BY <2>1, <3>1, <3>2
  <2>3. settled' \in [Users \union Channels -> {"in", "out", "free"}]
    BY <2>1, FreeType DEF TypeOK
  <2> QED BY <1>6, <2>2, <2>3 DEF ChannelCommand, TypeOK
<1> QED BY <1>1, <1>2, <1>3, <1>4, <1>5, <1>6

LEMMA HandlerSavesStep ==
    ASSUME HandlerSaves, [Next]_vars
    PROVE  HandlerSaves'
<1> USE DEF HandlerSaves, memVars, history
<1>1. CASE Edit \/ LoadAbsent \/ Load \/ Finish \/ Kill
  BY <1>1 DEF Edit, LoadAbsent, Load, Finish, Kill, Gone
<1>2. CASE SaveOpen \/ SaveWrite \/ SaveWriteFails
  BY <1>2 DEF SaveOpen, SaveWrite, SaveWriteFails
<1>3. CASE SaveOpenFails
  BY <1>3 DEF SaveOpenFails, HandlerEnds, HandlerReconnects, Gone
<1>4. CASE OnHandshake \/ Reconnect \/ Server \/ ChannelCommand \/ UNCHANGED vars
  BY <1>4 DEF OnHandshake, Reconnect, Server, ChannelCommand, vars
<1>5. ASSUME NEW x, NEW how \in {"in", "out"}, UNCHANGED phase, phase = "up", SaveChange(x, how)
      PROVE  HandlerSaves'
  BY <1>5 DEF SaveChange, NoChange
<1>6. CASE Confirmation
  <2>1. phase = "up" /\ UNCHANGED phase
    BY <1>6 DEF Confirmation, Reading
  <2>2. CASE OwnJoin
    BY <1>5, <2>1, <2>2 DEF OwnJoin
  <2>3. CASE OwnPart
    BY <1>5, <2>1, <2>3 DEF OwnPart
  <2>4. CASE UNCHANGED <<saving, change>>
    BY <2>1, <2>4
  <2> QED BY <1>6, <2>2, <2>3, <2>4 DEF Confirmation, NothingNew
<1>7. CASE UserCommand
  BY <1>5, <1>7 DEF UserCommand, Reading, promoteCommandFunc, demoteCommandFunc
<1> QED BY <1>1, <1>2, <1>3, <1>4, <1>6, <1>7 DEF Next

\* The variables hold what they are meant to hold, whatever the administrator, the moderators,
\* the server and the disk do.
THEOREM TypeCorrect == Spec => []TypeOK
<1>1. ASSUME Init PROVE TypeOK /\ HandlerSaves
  <2>1. connected \in BOOLEAN
    BY <1>1 DEF Init
  <2>2. /\ toServer \in Seq(Lines(Spelled(Channels)))
        /\ toBot \in Seq(Lines(Channels)) /\ left \in 0..Len(toBot)
    BY <1>1 DEF Init
  <2>3. memory \in Configs
    BY <1>1 DEF Init, Default, Configs
  <2> QED BY <1>1, <2>1, <2>2, <2>3 DEF Init, TypeOK, HandlerSaves
<1>2. TypeOK /\ HandlerSaves /\ [Next]_vars => TypeOK' /\ HandlerSaves'
  <2>1. ASSUME TypeOK, UNCHANGED vars PROVE TypeOK'
    BY <2>1 DEF TypeOK, vars, memVars, history, network
  <2> QED BY <2>1, RunTypes, ConnectionTypes, HandlerSavesStep DEF Next
<1> QED BY <1>1, <1>2, PTL DEF Spec

-----------------------------------------------------------------------------
(* The file and the memory *)

\* A step of anything but a save, the begin and the end of a run and the handlers that change
\* the config leaves what SaveInv and SettledInv are about, but for rights that become free.
OtherStep ==
    /\ UNCHANGED <<memVars, file, change, unsaved>>
    /\ settled' = settled \/ \E c \in Channels : settled' = Free(c)

LEMMA OtherSteps ==
    ASSUME OnHandshake \/ Reconnect \/ Server \/ ChannelCommand \/ UNCHANGED vars
    PROVE  OtherStep
<1>1. CASE OnHandshake
  BY <1>1 DEF OnHandshake, OtherStep, memVars, history
<1>2. CASE Reconnect
  BY <1>2 DEF Reconnect, OtherStep, memVars, history
<1>3. CASE Server
  BY <1>3 DEF Server, OtherStep, memVars, history
<1>4. CASE ChannelCommand
  BY <1>4 DEF ChannelCommand, OtherStep, memVars
<1>5. CASE UNCHANGED vars
  BY <1>5 DEF OtherStep, vars, memVars, history
<1> QED BY <1>1, <1>2, <1>3, <1>4, <1>5

\* What a line of the server changes, if it changes anything: one channel, and a save of it.
ChannelChanged(c, channels, how) ==
    /\ memory' = [memory EXCEPT !.channels = channels]
    /\ channels = IF how = "in" THEN memory.channels \union {LowerName(c)}
                                ELSE memory.channels \ {LowerName(c)}
    /\ LowerName(c) \in memory.channels <=> how = "out"
    /\ SaveChange(c, how)
ChannelChange ==
    \E c \in Channels, channels \in SUBSET Spelled(Channels), how \in {"in", "out"} :
        ChannelChanged(c, channels, how)

LEMMA ConfirmationStep ==
    ASSUME TypeOK, Confirmation
    PROVE  /\ phase = "up" /\ saving = "no" /\ UNCHANGED <<phase, file, settled, unsaved>>
           /\ ChannelChange \/ UNCHANGED <<memory, saving, change>>
<1> DEFINE c == Head(toBot).channel
<1>1. phase = "up" /\ saving = "no" /\ UNCHANGED <<phase, file, settled, unsaved>>
  BY DEF Confirmation, Reading
<1>2. c \in Channels
  <2>1. toBot \in Seq(Lines(Channels)) /\ toBot # <<>>
    BY DEF Confirmation, TypeOK
  <2>2. Head(toBot) \in Lines(Channels)
    BY <2>1
  <2> QED BY <2>2 DEF Lines
<1>3. LowerName(c) \in Spelled(Channels) /\ LowerName(c).name = c
  BY <1>2, NamesInLowerCase DEF LowerName
<1>4. memory.channels \in SUBSET Spelled(Channels)
  BY DEF TypeOK, Configs
<1>5. CASE OwnJoin
  <2>1. memory.channels \union {LowerName(c)} \in SUBSET Spelled(Channels)
    BY <1>3, <1>4
  <2>2. /\ memory' = [memory EXCEPT !.channels = memory.channels \union {LowerName(c)}]
        /\ LowerName(c) \notin memory.channels /\ SaveChange(c, "in")
    BY <1>3, <1>5 DEF OwnJoin
  <2> QED BY <1>1, <1>2, <2>1, <2>2 DEF ChannelChange, ChannelChanged
<1>6. CASE OwnPart
  <2>1. memory.channels \ {LowerName(c)} \in SUBSET Spelled(Channels)
    BY <1>4
  <2>2. /\ memory' = [memory EXCEPT !.channels = memory.channels \ {LowerName(c)}]
        /\ LowerName(c) \in memory.channels /\ SaveChange(c, "out")
    BY <1>3, <1>6 DEF OwnPart
  <2> QED BY <1>1, <1>2, <2>1, <2>2 DEF ChannelChange, ChannelChanged
<1> QED BY <1>1, <1>5, <1>6 DEF Confirmation, NothingNew

\* What a moderator changes: one user, and a save of it.
UserChanged(n, how) ==
    /\ memory'.modlist = memory.modlist /\ memory'.channels = memory.channels
    /\ memory'.whitelist = IF how = "in" THEN memory.whitelist \union {Lower(n)}
                                         ELSE memory.whitelist \ {Lower(n)}
    /\ Lower(n) \in memory.whitelist <=> how = "out"
    /\ SaveChange(n.name, how)
UserChange == \E n \in Spelled(Users), how \in {"in", "out"} : UserChanged(n, how)

LEMMA UserCommandStep ==
    ASSUME TypeOK, UserCommand
    PROVE  /\ phase = "up" /\ saving = "no" /\ UNCHANGED <<phase, file, settled, unsaved>>
           /\ UserChange
<1>1. PICK n \in Spelled(Users) : promoteCommandFunc(n) \/ demoteCommandFunc(n)
  BY DEF UserCommand
<1>2. ASSUME promoteCommandFunc(n) PROVE UserChange
  <2>1. /\ memory'.modlist = memory.modlist /\ memory'.channels = memory.channels
        /\ memory'.whitelist = memory.whitelist \union {Lower(n)}
        /\ Lower(n) \notin memory.whitelist /\ SaveChange(n.name, "in")
    BY <1>2 DEF promoteCommandFunc, TypeOK, Configs
  <2>2. UserChanged(n, "in")
    BY <2>1 DEF UserChanged
  <2> QED BY <2>2 DEF UserChange
<1>3. ASSUME demoteCommandFunc(n) PROVE UserChange
  <2>1. /\ memory'.modlist = memory.modlist /\ memory'.channels = memory.channels
        /\ memory'.whitelist = memory.whitelist \ {Lower(n)}
        /\ Lower(n) \in memory.whitelist /\ SaveChange(n.name, "out")
    BY <1>3 DEF demoteCommandFunc, TypeOK, Configs
  <2>2. UserChanged(n, "out")
    BY <2>1 DEF UserChanged
  <2> QED BY <2>2 DEF UserChange
<1> QED BY <1>1, <1>2, <1>3 DEF UserCommand, Reading

LEMMA NamesDiffer ==
    ASSUME NEW x \in Names
    PROVE  /\ x # "none" /\ NoChange[1] # x /\ NoChange # <<x, "in">> /\ NoChange # <<x, "out">>
           /\ x \in Users => x \notin Channels
BY ChannelsAssumption DEF NoChange, Names

\* Two names differ in lower case.
LEMMA LowerNamesDiffer == \A x, y : x # y => LowerName(x) # LowerName(y)
BY DEF LowerName

\* Where two configs differ in one more name, and did not before, that name is a difference.
LEMMA OneMoreDiffers ==
    ASSUME NEW a, NEW b, NEW names, NEW n, SameBut(a, b, names), NEW c,
           c.modlist = b.modlist,
           \A m : m # n => (m \in c.whitelist <=> m \in b.whitelist)
                         /\ (m \in c.channels <=> m \in b.channels)
    PROVE  /\ SameBut(a, c, names \union {n})
           /\ n \notin names /\ SameBut(a, c, names) =>
                /\ n \in c.whitelist <=> n \in b.whitelist
                /\ n \in c.channels <=> n \in b.channels
BY DEF SameBut

\* A handler changes one name in memory and is about to save it.
LEMMA PendingBegins ==
    ASSUME FileMatchesMemory, phase = "up", saving = "no",
           UNCHANGED <<phase, file, unsaved>>,
           NEW x, change'[1] = x, memory'.modlist = memory.modlist,
           \A n : n # LowerName(x) => (n \in memory'.whitelist <=> n \in memory.whitelist)
                                    /\ (n \in memory'.channels <=> n \in memory.channels),
           \/ ~(LowerName(x) \in memory'.whitelist <=> LowerName(x) \in memory.whitelist)
           \/ ~(LowerName(x) \in memory'.channels <=> LowerName(x) \in memory.channels)
    PROVE  Pending'
<1>1. CASE file = Broken /\ "write" \in SaveFaults
  BY <1>1 DEF Pending
<1>2. CASE file.kind = "whole" /\ SameBut(file.config, memory, Unsaved)
  <2>1. SameBut(file.config, memory', Unsaved \union {LowerName(x)})
    BY <1>2, OneMoreDiffers
  <2>2. LowerName(x) \notin Unsaved => ~SameBut(file.config, memory', Unsaved)
    BY <1>2, OneMoreDiffers
  <2>3. x \notin unsaved => LowerName(x) \notin Unsaved
    BY LowerNamesDiffer DEF Unsaved
  <2>4. Unsaved' = Unsaved
    BY DEF Unsaved
  <2> QED BY <1>2, <2>1, <2>2, <2>3, <2>4 DEF Pending, SameBut
<1> QED BY <1>1, <1>2 DEF FileMatchesMemory

LEMMA ChangeBeginsPending ==
    ASSUME TypeOK, FileMatchesMemory, phase = "up", saving = "no",
           UNCHANGED <<phase, file, unsaved>>, ChannelChange \/ UserChange
    PROVE  Pending'
<1>1. CASE ChannelChange
  <2>1. PICK c \in Channels, channels \in SUBSET Spelled(Channels), how \in {"in", "out"} :
          ChannelChanged(c, channels, how)
    BY <1>1 DEF ChannelChange
  <2>2. /\ memory'.modlist = memory.modlist /\ memory'.whitelist = memory.whitelist
        /\ memory'.channels = channels /\ change'[1] = c
    BY <2>1 DEF ChannelChanged, SaveChange, TypeOK, Configs
  <2> QED BY <2>1, <2>2, PendingBegins DEF ChannelChanged
<1>2. CASE UserChange
  <2>1. PICK n \in Spelled(Users), how \in {"in", "out"} : UserChanged(n, how)
    BY <1>2 DEF UserChange
  <2>2. change'[1] = n.name /\ Lower(n) = LowerName(n.name)
    BY <2>1, NamesInLowerCase DEF UserChanged, SaveChange
  <2> QED BY <2>1, <2>2, PendingBegins DEF UserChanged
<1> QED BY <1>1, <1>2

\* A change whose save does not begin, in a bot that goes on: it is one more that is unsaved.
LEMMA MissedChange ==
    ASSUME Pending, FileMatchesMemory, saving = "open", HandlerReconnects,
           UNCHANGED <<memory, file>>
    PROVE  FileMatchesMemory'
<1>1. Unsaved' = Unsaved \union {LowerName(change[1])}
  BY DEF HandlerReconnects, Unsaved
<1> QED BY <1>1 DEF Pending, FileMatchesMemory, HandlerReconnects, SameBut

\* A save and the memory agree.
LEMMA SavedAsItIs ==
    ASSUME file'.kind = "whole", file'.config = memory'
    PROVE  FileMatchesMemory'
BY DEF FileMatchesMemory, SameBut

LEMMA SaveInvStep ==
    ASSUME TypeOK, SaveInv, [Next]_vars
    PROVE  SaveInv'
<1> USE DEF memVars, history
<1> DEFINE Place == /\ phase \in {"first", "exit"} => saving # "no"
                    /\ phase = "first" => memory = Default /\ file \in {Absent, Broken}
                    /\ phase \in {"down", "first"} \/ saving = "no" => change = NoChange
                    /\ saving = "write" => file = Broken
<1>0. HandlerSaves' /\ (SaveInv' <=> Place' /\ Pending' /\ FileMatchesMemory')
  BY HandlerSavesStep DEF SaveInv
<1>1. CASE Edit
  BY <1>0, <1>1 DEF Edit, SaveInv, HandlerSaves, Pending, FileMatchesMemory
<1>2. CASE LoadAbsent
  BY <1>0, <1>2 DEF LoadAbsent, SaveInv, Pending, FileMatchesMemory
<1>3. CASE Load
  <2>1. FileMatchesMemory'
    BY <1>3, SavedAsItIs DEF Load
  <2> QED BY <1>0, <1>3, <2>1 DEF Load, SaveInv, HandlerSaves, Pending
<1>4. CASE Finish
  BY <1>0, <1>4 DEF Finish, SaveInv, Pending, FileMatchesMemory
<1>5. CASE Kill
  BY <1>0, <1>5 DEF Kill, Gone, SaveInv, Pending, FileMatchesMemory
<1>6. CASE SaveOpen
  BY <1>0, <1>6 DEF SaveOpen, SaveInv, Pending, FileMatchesMemory
<1>7. CASE SaveWrite
  <2>1. file'.kind = "whole" /\ file'.config = memory'
    BY <1>7 DEF SaveWrite, Whole
  <2>2. FileMatchesMemory'
    BY <2>1, SavedAsItIs
  <2> QED BY <1>0, <1>7, <2>2 DEF SaveWrite, AfterSave, SaveInv, Pending
<1>8. CASE SaveOpenFails
  <2>1. CASE HandlerEnds
    BY <1>0, <1>8, <2>1 DEF SaveOpenFails, HandlerEnds, SaveInv, Pending, FileMatchesMemory
  <2>2. CASE HandlerReconnects
    <3>1. FileMatchesMemory'
      BY <1>8, <2>2, MissedChange DEF SaveOpenFails, SaveInv
    <3> QED BY <1>0, <1>8, <2>2, <3>1 DEF SaveOpenFails, HandlerReconnects, SaveInv, Pending
  <2>3. CASE phase # "up" /\ Gone /\ UNCHANGED unsaved
    BY <1>0, <1>8, <2>3 DEF SaveOpenFails, Gone, SaveInv, Pending, FileMatchesMemory
  <2> QED BY <1>8, <2>1, <2>2, <2>3 DEF SaveOpenFails
<1>9. CASE SaveWriteFails
  BY <1>0, <1>9 DEF SaveWriteFails, AfterSave, SaveInv, Pending, FileMatchesMemory
<1>10. ASSUME phase = "up", saving = "no", UNCHANGED <<phase, file, settled, unsaved>>,
              ChannelChange \/ UserChange
       PROVE  SaveInv'
  <2>1. Pending'
    BY <1>10, ChangeBeginsPending DEF SaveInv
  <2>2. saving' = "open"
    BY <1>10 DEF ChannelChange, ChannelChanged, UserChange, UserChanged, SaveChange
  <2> QED BY <1>0, <1>10, <2>1, <2>2 DEF FileMatchesMemory
<1>11. ASSUME UNCHANGED <<memVars, file, change, unsaved>> PROVE SaveInv'
  <2>1. Unsaved' = Unsaved
    BY <1>11 DEF Unsaved
  <2> QED BY <1>0, <1>11, <2>1 DEF SaveInv, Pending, FileMatchesMemory, SameBut
<1>12. CASE Confirmation
  BY <1>10, <1>11, <1>12, ConfirmationStep
<1>13. CASE UserCommand
  BY <1>10, <1>13, UserCommandStep
<1>14. CASE OtherStep
  BY <1>11, <1>14 DEF OtherStep
<1> QED BY <1>1, <1>2, <1>3, <1>4, <1>5, <1>6, <1>7, <1>8, <1>9, <1>12, <1>13, <1>14, OtherSteps
     DEF Next

-----------------------------------------------------------------------------
(* What is settled *)

\* A user has a right, and a channel is remembered.
LEMMA ListOfName ==
    ASSUME NEW config
    PROVE  /\ \A u \in Users : u \in Names /\ Has(config, u) = (LowerName(u) \in config.whitelist)
           /\ \A c \in Channels : c \in Names /\ Has(config, c) = (LowerName(c) \in config.channels)
<1>1. \A u \in Users : u \in Names /\ u \notin Channels
  BY ChannelsAssumption DEF Names
<1>2. \A c \in Channels : c \in Names /\ c \notin Users
  BY ChannelsAssumption DEF Names
<1>3. \A x : Has(config, x) \in BOOLEAN
  BY DEF Has
<1>4. \A u \in Users : Has(config, u) <=> LowerName(u) \in config.whitelist
  BY <1>1 DEF Has
<1>5. \A c \in Channels : Has(config, c) <=> LowerName(c) \in config.channels
  BY <1>2 DEF Has
<1> QED BY <1>1, <1>2, <1>3, <1>4, <1>5

\* A change that will not be saved is free, whether the process is gone or goes on.
LEMMA FreeKeepsSettled ==
    ASSUME TypeOK, SettledInv, settled' = Free(change[1]), change' = NoChange,
           phase' \in {"down", phase}, UNCHANGED <<memory, file>>
    PROVE  SettledInv'
<1>1. \A x \in Names : settled'[x] = IF x = change[1] THEN "free" ELSE settled[x]
  BY FreeType DEF TypeOK, Names
<1>2. \A x \in Names : change'[1] # x
  BY NamesDiffer
<1>3. CASE phase' = phase
  BY <1>1, <1>2, <1>3 DEF SettledInv, Has
<1>4. CASE phase' = "down"
  BY <1>1, <1>2, <1>4 DEF SettledInv, Has
<1> QED BY <1>3, <1>4

\* A handler changes one name in memory and starts the save of it.
LEMMA ChangeKeepsSettled ==
    ASSUME SettledInv, phase = "up", change = NoChange, UNCHANGED <<phase, file, settled>>,
           NEW x \in Names, NEW how \in {"in", "out"}, change' = <<x, how>>,
           Has(memory', x) = (how = "in"),
           \A y \in Names \ {x} : Has(memory', y) = Has(memory, y)
    PROVE  SettledInv'
<1>1. \A y \in Names : change[1] # y
  BY NamesDiffer
<1> QED BY <1>1 DEF SettledInv

LEMMA ConfirmationKeepsSettled ==
    ASSUME TypeOK, SaveInv, SettledInv, Confirmation
    PROVE  SettledInv'
<1>1. /\ phase = "up" /\ saving = "no" /\ UNCHANGED <<phase, file, settled>>
      /\ ChannelChange \/ UNCHANGED <<memory, saving, change>>
  BY ConfirmationStep
<1>2. CASE ChannelChange
  <2>1. PICK c \in Channels, channels \in SUBSET Spelled(Channels), how \in {"in", "out"} :
          ChannelChanged(c, channels, how)
    BY <1>2 DEF ChannelChange
  <2> USE <2>1 DEF ChannelChanged
  <2>2. /\ memory'.whitelist = memory.whitelist /\ memory'.channels = channels
    BY DEF TypeOK, Configs
  <2> change' = <<c, how>> /\ change = NoChange
    BY <1>1, <2>1 DEF SaveChange, SaveInv
  <2> c \in Names /\ c \notin Users
    BY ChannelsAssumption DEF Names
  <2>3. Has(memory', c) = (how = "in")
    <3>1. Has(memory', c) <=> LowerName(c) \in channels
      BY <2>2 DEF Has
    <3>2. how = "in" => LowerName(c) \in channels
      BY <2>1
    <3>3. how # "in" => LowerName(c) \notin channels
      BY <2>1
    <3>4. Has(memory', c) \in BOOLEAN
      BY DEF Has
    <3> QED BY <3>1, <3>2, <3>3, <3>4
  <2>4. ASSUME NEW y \in Names \ {c} PROVE Has(memory', y) = Has(memory, y)
    BY <2>1, <2>2, LowerNamesDiffer DEF Has
  <2> QED BY <1>1, <2>2, <2>3, <2>4, ChangeKeepsSettled
<1>3. CASE UNCHANGED <<memory, saving, change>>
  BY <1>1, <1>3 DEF SettledInv, Has
<1> QED BY <1>1, <1>2, <1>3

LEMMA UserCommandKeepsSettled ==
    ASSUME TypeOK, SaveInv, SettledInv, UserCommand
    PROVE  SettledInv'
<1>1. /\ phase = "up" /\ saving = "no" /\ UNCHANGED <<phase, file, settled>>
      /\ UserChange
  BY UserCommandStep
<1>2. PICK n \in Spelled(Users), how \in {"in", "out"} : UserChanged(n, how)
  BY <1>1 DEF UserChange
<1>3. n.name \in Users /\ n.name \in Names /\ Lower(n) = LowerName(n.name)
  BY NamesInLowerCase DEF Names
<1>4. change = NoChange /\ change' = <<n.name, how>>
  BY <1>1, <1>2 DEF UserChanged, SaveChange, SaveInv
<1>5. Has(memory', n.name) = (how = "in")
  BY <1>2, <1>3, NamesDiffer DEF UserChanged, Has
<1>6. ASSUME NEW y \in Names \ {n.name} PROVE Has(memory', y) = Has(memory, y)
  BY <1>2, <1>3, LowerNamesDiffer DEF UserChanged, Has
<1> QED BY <1>1, <1>3, <1>4, <1>5, <1>6, ChangeKeepsSettled

LEMMA SaveWriteKeepsSettled ==
    ASSUME TypeOK, SaveInv, SettledInv, SaveWrite
    PROVE  SettledInv'
<1>1. /\ file' = Whole(memory) /\ change' = NoChange /\ memory' = memory
      /\ phase' \in {"up", "down"} /\ (phase' = "up" => phase = "up")
      /\ phase \in {"first", "up", "exit"}
  BY DEF SaveWrite, AfterSave, SaveInv, HandlerSaves, TypeOK
<1>2. file'.kind = "whole" /\ file'.config = memory /\ file' # Absent
  BY <1>1 DEF Whole, Absent
<1>3. \A x \in Names : change'[1] # x
  BY <1>1, NamesDiffer
<1>4. ASSUME NEW x \in Names, settled'[x] # "free"
      PROVE  phase # "first" /\ Has(memory, x) = (settled'[x] = "in")
  <2>1. CASE change = NoChange
    <3>1. settled' = settled /\ change[1] # x
      BY <2>1, NamesDiffer DEF SaveWrite
    <3> QED BY <1>1, <1>4, <3>1 DEF SettledInv
  <2>2. CASE change # NoChange
    <3>1. /\ phase # "first"
          /\ settled' = [settled EXCEPT ![change[1]] = change[2]]
          /\ change \in (Users \union Channels) \X {"in", "out"}
      BY <2>2 DEF SaveWrite, SaveInv, TypeOK
    <3>2. settled'[x] = IF x = change[1] THEN change[2] ELSE settled[x]
      BY <3>1 DEF TypeOK
    <3>3. CASE x = change[1]
      BY <3>1, <3>2, <3>3 DEF SettledInv
    <3>4. CASE x # change[1]
      BY <1>1, <1>4, <3>1, <3>2, <3>4 DEF SettledInv
    <3> QED BY <3>3, <3>4
  <2> QED BY <2>1, <2>2
<1> QED BY <1>1, <1>2, <1>3, <1>4 DEF SettledInv

LEMMA SettledInvStep ==
    ASSUME TypeOK, SaveInv, SettledInv, [Next]_vars
    PROVE  SettledInv'
<1> USE DEF memVars, history
<1>1. CASE Edit
  <2>1. /\ \A x \in Names : settled'[x] = "free"
        /\ file'.kind = "whole" /\ file' # Absent /\ phase' = "down" /\ UNCHANGED <<memory, change>>
    BY <1>1 DEF Edit, TypeOK, Whole, Absent, Names
  <2> QED BY <2>1 DEF SettledInv, Has
<1>2. CASE LoadAbsent
  <2>1. /\ \A x \in Names : settled'[x] = "free" /\ change'[1] # x
        /\ phase' = "first"
    BY <1>2, NamesDiffer DEF LoadAbsent, SettledInv, SaveInv
  <2> QED BY <2>1 DEF SettledInv
<1>3. CASE Load
  <2>1. /\ phase = "down" /\ phase' = "up" /\ file.kind = "whole" /\ memory' = file.config
        /\ change = NoChange /\ file # Absent /\ UNCHANGED <<file, settled, change>>
    BY <1>3 DEF Load, SaveInv, Absent
  <2> QED BY <2>1, NamesDiffer DEF SettledInv, Has
<1>4. CASE Finish
  BY <1>4 DEF Finish, SettledInv, Has
<1>5. CASE Kill
  BY <1>5, FreeKeepsSettled DEF Kill, Gone
<1>6. CASE SaveOpen
  <2>1. file'.kind # "whole" /\ file' # Absent /\ UNCHANGED <<phase, memory, settled, change>>
    BY <1>6 DEF SaveOpen, Broken, Absent
  <2> QED BY <2>1 DEF SettledInv, Has
<1>7. CASE SaveWrite
  BY <1>7, SaveWriteKeepsSettled
<1>8. CASE SaveOpenFails
  <2>1. CASE HandlerEnds
    BY <1>8, <2>1 DEF SaveOpenFails, HandlerEnds, SettledInv, Has
  <2>2. CASE HandlerReconnects
    BY <1>8, <2>2, FreeKeepsSettled DEF SaveOpenFails, HandlerReconnects
  <2>3. CASE Gone
    BY <1>8, <2>3, FreeKeepsSettled DEF SaveOpenFails, Gone
  <2> QED BY <1>8, <2>1, <2>2, <2>3 DEF SaveOpenFails
<1>9. CASE SaveWriteFails
  <2>1. \A x \in Names : settled'[x] = IF x = change[1] THEN "free" ELSE settled[x]
    BY <1>9, FreeType DEF SaveWriteFails, TypeOK, Names
  <2>2. /\ file = Broken /\ change' = NoChange /\ UNCHANGED <<memory, file>>
        /\ phase' = IF phase = "up" THEN "up" ELSE "down"
    BY <1>9 DEF SaveWriteFails, SaveInv, AfterSave
  <2>3. file # Absent /\ file.kind # "whole"
    BY <2>2 DEF Broken, Absent
  <2> QED BY <2>1, <2>2, <2>3, NamesDiffer DEF SettledInv, Has
<1>10. CASE Confirmation
  BY <1>10, ConfirmationKeepsSettled
<1>11. CASE UserCommand
  BY <1>11, UserCommandKeepsSettled
<1>12. CASE OtherStep
  <2>1. \A x \in Names : settled'[x] = settled[x] \/ settled'[x] = "free"
    BY <1>12, FreeType DEF OtherStep, TypeOK, Names
  <2> QED BY <1>12, <2>1 DEF OtherStep, SettledInv, Has
<1> QED BY <1>1, <1>2, <1>3, <1>4, <1>5, <1>6, <1>7, <1>8, <1>9, <1>10, <1>11, <1>12, OtherSteps
     DEF Next

\* The three invariants hold together: a step keeps what is settled only because of where a save
\* is, and what a save writes.
THEOREM Invariance == Spec => []IInv
<1>1. Init => SaveInv /\ SettledInv
  <2> SUFFICES ASSUME Init PROVE SaveInv /\ SettledInv
    OBVIOUS
  <2>1. \A x \in Names : settled[x] = "free" /\ change[1] # x
    BY NamesDiffer DEF Init, Names
  <2> QED BY <2>1 DEF Init, SaveInv, HandlerSaves, Pending, FileMatchesMemory, SettledInv
<1>2. TypeOK /\ SaveInv /\ SettledInv /\ [Next]_vars => (SaveInv /\ SettledInv)'
  BY SaveInvStep, SettledInvStep
<1> QED BY <1>1, <1>2, TypeCorrect, PTL DEF Spec, IInv

\* Whenever no save runs, the file of a running bot is what the bot has in memory, but for changes
\* whose own save could not begin while a RECONNECT kept the bot going; or a write has failed:
\* every handler that changes the config saves it.
THEOREM FileIsMemory == Spec => []FileMatchesMemory
<1>1. IInv => FileMatchesMemory
  BY DEF IInv, SaveInv
<1> QED BY <1>1, Invariance, PTL

\* A right that was granted or taken and saved is the one the bot goes by, in every later run,
\* however saves fail and the bot is killed.
THEOREM RightsHold == Spec => []SettledRightsHold
<1>1. \A u \in Users : u \in Names /\ Has(memory, u) = isWhitelisted(u)
  BY ListOfName DEF isWhitelisted
<1>2. IInv => SettledRightsHold
  <2> SUFFICES ASSUME IInv, NEW u \in Users, phase = "up", settled[u] # "free", change[1] # u
               PROVE  isWhitelisted(u) = (settled[u] = "in")
    BY DEF SettledRightsHold
  <2>1. Has(memory, u) = (settled[u] = "in")
    BY <1>1 DEF IInv, SettledInv
  <2> QED BY <1>1, <2>1
<1> QED BY <1>2, Invariance, PTL

-----------------------------------------------------------------------------
(* BotConfig implements ConfigStore *)

LEMMA StoreMap ==
    /\ Store!vars = <<Stored, Running, Unsaved>>
    /\ Store!Nothing = [kind |-> "nothing"] /\ Store!Broken = Broken
    /\ \A c : Store!Whole(c) = Whole(c)
    /\ \A c : Store!Ending(c) = [kind |-> "ending", config |-> c]
BY DEF Store!vars, Store!Nothing, Store!Broken, Store!Whole, Store!Ending, Broken, Whole

LEMMA Stutter ==
    ASSUME Stored' = Stored, Running' = Running, Unsaved' = Unsaved
    PROVE  [Store!Next]_(Store!vars)
BY DEF Store!vars

LEMMA SameUnsaved ==
    ASSUME unsaved' = unsaved
    PROVE  Unsaved' = Unsaved
BY DEF Unsaved

\* What the bot is to the store.
LEMMA RunningIs ==
    /\ phase = "up" => Running = Whole(memory) /\ Running.kind = "whole" /\ Running.config = memory
    /\ phase = "exit" => /\ Running = [kind |-> "ending", config |-> memory]
                         /\ Running.kind = "ending" /\ Running.config = memory
    /\ phase \in {"down", "first"} => Running = [kind |-> "nothing"]
BY DEF Running, Whole

LEMMA RunningNext ==
    /\ phase' = "up" => /\ Running' = Whole(memory') /\ Running'.kind = "whole"
                        /\ Running'.config = memory'
    /\ phase' = "exit" => Running' = [kind |-> "ending", config |-> memory']
    /\ phase' \in {"down", "first"} => Running' = [kind |-> "nothing"]
BY DEF Running, Whole

LEMMA StoredIs ==
    ASSUME SettledInv
    PROVE  /\ phase \notin {"down", "first"} => Stored = file
           /\ phase # "first" /\ file # Absent => Stored = file
           /\ phase = "first" /\ file \in {Absent, Broken} => Stored = [kind |-> "nothing"]
BY DEF Stored, SettledInv

\* What the file can be to a run.
LEMMA FileKinds ==
    ASSUME TypeOK
    PROVE  \/ file = Absent /\ file # Broken /\ file.kind # "whole"
           \/ file = Broken /\ file # Absent /\ file.kind # "whole"
           \/ /\ file # Absent /\ file # Broken
              /\ file.kind = "whole" /\ file = Whole(file.config)
BY DEF TypeOK, Absent, Broken, Whole

\* The process ends: the store ends a run, or is left broken by the first one.
LEMMA GoneImplements ==
    ASSUME TypeOK, SettledInv, phase' = "down", phase # "down", UNCHANGED <<memory, file, unsaved>>
    PROVE  [Store!Next]_(Store!vars)
<1>1. Running' = [kind |-> "nothing"] /\ Unsaved' = Unsaved
  BY RunningNext, SameUnsaved
<1>2. CASE phase \in {"up", "exit"}
  <2>1. Stored' = Stored
    BY <1>2 DEF Stored
  <2> QED BY <1>1, <2>1, StoreMap DEF Store!Next, Store!End
<1>3. CASE phase = "first"
  <2>1. Running = [kind |-> "nothing"]
    BY <1>3, RunningIs
  <2>2. Stored' = Stored \/ (Stored = [kind |-> "nothing"] /\ Stored' = Broken)
    BY <1>3 DEF Stored
  <2>3. CASE Stored' = Stored
    BY <1>1, <2>1, <2>3, Stutter
  <2>4. CASE Stored = [kind |-> "nothing"] /\ Stored' = Broken
    BY <1>1, <2>1, <2>4, StoreMap DEF Store!Next, Store!Break
  <2> QED BY <2>2, <2>3, <2>4
<1> QED BY <1>2, <1>3 DEF TypeOK

\* What the store says of a file and a memory that differ in some names.
LEMMA StoredButSame ==
    ASSUME phase = "up", Stored = file, NEW names
    PROVE  Store!StoredBut(names) <=> file.kind = "whole" /\ SameBut(file.config, memory, names)
BY RunningIs DEF Store!StoredBut, SameBut

\* A change that a handler makes and will save.
LEMMA ChangeImplements ==
    ASSUME TypeOK, SaveInv, SettledInv,
           phase = "up", saving = "no", UNCHANGED <<phase, file, unsaved>>,
           NEW list \in {"whitelist", "channels"}, NEW n \in Spelled(Users \union Channels),
           \/ memory' = [memory EXCEPT ![list] = @ \union {n}]
           \/ memory' = [memory EXCEPT ![list] = @ \ {n}],
           memory' # memory
    PROVE  Store!Next
<1>1. /\ Running.kind = "whole" /\ Running'.kind = "whole"
      /\ Running.config = memory /\ Running'.config = memory'
  BY RunningIs, RunningNext
<1>2. Stored = file /\ Stored' = Stored /\ Unsaved' = Unsaved
  BY StoredIs, SameUnsaved DEF Stored
<1>3. Stored = Broken \/ Store!StoredBut(Unsaved)
  BY <1>2, StoredButSame DEF SaveInv, FileMatchesMemory
<1>4. Store!OneChange(memory, memory')
  BY DEF Store!OneChange
<1>5. Store!Change
  BY <1>1, <1>2, <1>3, <1>4, StoreMap DEF Store!Change
<1> QED BY <1>5 DEF Store!Next

\* The file is opened, which puts it at risk: for what a handler has changed, or at the end.
LEMMA SaveOpenImplements ==
    ASSUME TypeOK, SaveInv, SettledInv, SaveOpen
    PROVE  [Store!Next]_(Store!vars)
<1>1. /\ UNCHANGED <<phase, memory, unsaved>> /\ saving = "open" /\ file' = Broken
      /\ Broken # Absent
  BY DEF SaveOpen, history, Broken, Absent
<1>2. Running' = Running /\ Unsaved' = Unsaved
  BY <1>1, SameUnsaved DEF Running
<1>3. CASE phase = "first"
  <2>1. Stored' = Stored
    BY <1>1, <1>3 DEF Stored, SaveInv
  <2> QED BY <1>2, <2>1, Stutter
<1>4. CASE phase = "up"
  <2>1. Stored = file /\ Stored' = Broken
    BY <1>1, <1>4, StoredIs DEF Stored
  <2>2. CASE file = Broken
    BY <1>2, <2>1, <2>2, Stutter
  <2>3. CASE file # Broken
    <3>1. Unsaved # {} \/ ~SameBut(file.config, memory, Unsaved)
      <4>1. change[1] \in unsaved => Unsaved # {}
        BY DEF Unsaved
      <4> QED BY <1>1, <1>4, <2>3, <4>1 DEF SaveInv, Pending
    <3>2. Unsaved # {} \/ ~Store!StoredBut({})
      BY <1>4, <2>1, <3>1, StoredButSame
    <3>3. Store!SomethingToSave
      BY <1>4, <3>2, RunningIs DEF Store!SomethingToSave
    <3> QED BY <1>2, <2>1, <3>3, StoreMap DEF Store!Next, Store!Break
  <2> QED BY <2>2, <2>3
<1>5. CASE phase = "exit"
  <2>1. Stored' = Broken /\ Running.kind = "ending"
    BY <1>1, <1>5, RunningIs DEF Stored
  <2> QED BY <1>2, <2>1, StoreMap DEF Store!Next, Store!Break
<1> QED BY <1>1, <1>3, <1>4, <1>5 DEF TypeOK, SaveInv, HandlerSaves

LEMMA SaveWriteImplements ==
    ASSUME TypeOK, SaveInv, SettledInv, SaveWrite
    PROVE  Store!Next
<1>1. /\ file' = Whole(memory) /\ memory' = memory /\ phase' = AfterSave
      /\ phase \in {"first", "up", "exit"} /\ file = Broken
  BY DEF SaveWrite, SaveInv, HandlerSaves, TypeOK
<1>2. Whole(memory) # Absent /\ Whole(memory) # Broken
  BY DEF Whole, Absent, Broken
<1>3. Stored' = Whole(memory) /\ Unsaved' = {}
  BY <1>1, <1>2 DEF Stored, SaveWrite, Unsaved
<1>4. CASE phase = "up"
  <2>1. Running = Whole(memory) /\ Running' = Running /\ Running.kind = "whole"
    BY <1>1, <1>4, RunningIs, RunningNext DEF AfterSave
  <2> QED BY <1>3, <2>1 DEF Store!Next, Store!Save
<1>5. CASE phase = "exit"
  <2>1. /\ Running.kind = "ending" /\ Running.config = memory
        /\ Running' = [kind |-> "nothing"]
    BY <1>1, <1>5, RunningIs, RunningNext DEF AfterSave
  <2> QED BY <1>3, <2>1, StoreMap DEF Store!Next, Store!SaveAndEnd
<1>6. CASE phase = "first"
  <2>1. Running = [kind |-> "nothing"] /\ Running' = [kind |-> "nothing"]
    BY <1>1, <1>6, RunningIs, RunningNext DEF AfterSave
  <2>2. Stored = [kind |-> "nothing"] /\ memory = Default
    BY <1>1, <1>6, StoredIs DEF SaveInv
  <2> QED BY <1>3, <2>1, <2>2, StoreMap DEF Store!Next, Store!FirstRun
<1> QED BY <1>1, <1>4, <1>5, <1>6

\* The io_context is out of work, with or without a save that could not begin.
LEMMA CloseImplements ==
    ASSUME SettledInv, phase = "up", phase' = "exit", UNCHANGED <<memory, file, unsaved>>
    PROVE  Store!Next
<1>1. /\ Running.kind = "whole" /\ Running.config = memory
      /\ Running' = [kind |-> "ending", config |-> memory]
  BY RunningIs, RunningNext
<1>2. Stored' = Stored /\ Unsaved' = Unsaved
  BY SameUnsaved DEF Stored
<1> QED BY <1>1, <1>2, StoreMap DEF Store!Next, Store!Close

\* The bot goes on with a change whose save could not begin.
LEMMA MissImplements ==
    ASSUME TypeOK, SaveInv, SettledInv, saving = "open", HandlerReconnects,
           UNCHANGED <<memory, file>>
    PROVE  [Store!Next]_(Store!vars)
<1> DEFINE x == change[1]
<1>1. phase = "up" /\ phase' = "up" /\ unsaved' = unsaved \union {x}
  BY DEF HandlerReconnects
<1>2. Stored = file /\ Stored' = Stored /\ Running' = Running /\ Running.kind = "whole"
  BY <1>1, StoredIs, RunningIs, RunningNext DEF Stored
<1>3. Unsaved' = Unsaved \union {LowerName(x)}
  BY <1>1 DEF Unsaved
<1>4. CASE x \in unsaved
  <2>1. Unsaved' = Unsaved
    BY <1>3, <1>4 DEF Unsaved
  <2> QED BY <1>2, <2>1, Stutter
<1>5. CASE x \notin unsaved
  <2>1. x \in Users \union Channels
    BY <1>1 DEF SaveInv, HandlerSaves, TypeOK
  <2>2. LowerName(x) \in Spelled(Users \union Channels)
    BY <2>1 DEF LowerName, Spelled
  <2>3. \/ Stored = Broken
        \/ ~Store!StoredBut(Unsaved) /\ Store!StoredBut(Unsaved \union {LowerName(x)})
    BY <1>1, <1>2, <1>5, StoredButSame DEF SaveInv, Pending
  <2>4. LowerName(x) \notin Unsaved
    BY <1>5, LowerNamesDiffer DEF Unsaved
  <2>5. Store!Miss
    BY <1>2, <1>3, <2>2, <2>3, <2>4, StoreMap DEF Store!Miss
  <2> QED BY <2>5 DEF Store!Next
<1> QED BY <1>4, <1>5

LEMMA StoreStep ==
    ASSUME TypeOK, SaveInv, SettledInv, [Next]_vars
    PROVE  [Store!Next]_(Store!vars)
<1> USE DEF memVars, history
<1>0. ASSUME UNCHANGED <<phase, memory, file, unsaved>> PROVE [Store!Next]_(Store!vars)
  <2>1. Stored' = Stored /\ Running' = Running
    BY <1>0 DEF Stored, Running
  <2> QED BY <1>0, <2>1, SameUnsaved, Stutter
<1>1. CASE Edit
  <2>1. PICK c \in Edits : file' = Whole(c)
    BY <1>1 DEF Edit
  <2>2. Stored' = Whole(c)
    BY <1>1, <2>1 DEF Edit, Stored, Whole, Absent, Broken
  <2>3. Running = [kind |-> "nothing"] /\ Running' = Running /\ Unsaved' = Unsaved
    BY <1>1, RunningIs, RunningNext, SameUnsaved DEF Edit
  <2> QED BY <2>2, <2>3, StoreMap DEF Store!Next, Store!Edit
<1>2. CASE LoadAbsent
  <2>1. Stored' = Stored /\ UNCHANGED unsaved
    BY <1>2 DEF LoadAbsent, Stored
  <2>2. Running' = Running
    BY <1>2, RunningIs, RunningNext DEF LoadAbsent
  <2> QED BY <2>1, <2>2, SameUnsaved, Stutter
<1>3. CASE Load
  <2>1. file.kind = "whole" /\ file = Whole(file.config) /\ file # Absent /\ file # Broken
    BY <1>3, FileKinds DEF Load
  <2>2. Stored = file /\ Stored' = file /\ Unsaved' = {}
    BY <1>3, <2>1 DEF Load, Stored, Unsaved
  <2>3. Running = [kind |-> "nothing"] /\ Running' = file
    BY <1>3, <2>1, RunningIs, RunningNext DEF Load
  <2> QED BY <2>1, <2>2, <2>3, StoreMap DEF Store!Next, Store!Start
<1>4. CASE Finish
  BY <1>4, CloseImplements DEF Finish
<1>5. CASE Kill
  BY <1>5, GoneImplements DEF Kill, Gone
<1>6. CASE SaveOpen
  BY <1>6, SaveOpenImplements
<1>7. CASE SaveWrite
  BY <1>7, SaveWriteImplements
<1>8. CASE SaveOpenFails
  <2>1. CASE HandlerEnds
    BY <1>8, <2>1, CloseImplements DEF SaveOpenFails, HandlerEnds
  <2>2. CASE HandlerReconnects
    BY <1>8, <2>2, MissImplements DEF SaveOpenFails
  <2>3. CASE phase # "up" /\ Gone /\ UNCHANGED unsaved
    <3>1. phase # "down"
      BY <1>8 DEF SaveOpenFails, SaveInv, HandlerSaves
    <3> QED BY <1>8, <2>3, <3>1, GoneImplements DEF SaveOpenFails, Gone
  <2> QED BY <1>8, <2>1, <2>2, <2>3 DEF SaveOpenFails
<1>9. CASE SaveWriteFails
  <2>1. phase # "down" /\ UNCHANGED <<memory, file, unsaved>> /\ phase' = AfterSave
    BY <1>9 DEF SaveWriteFails, SaveInv, HandlerSaves
  <2>2. CASE phase = "up"
    BY <1>0, <2>1, <2>2 DEF AfterSave
  <2>3. CASE phase # "up"
    BY <2>1, <2>3, GoneImplements DEF AfterSave
  <2> QED BY <2>2, <2>3
<1>10. CASE Confirmation
  <2>1. /\ phase = "up" /\ saving = "no" /\ UNCHANGED <<phase, file, settled, unsaved>>
        /\ ChannelChange \/ UNCHANGED <<memory, saving, change>>
    BY <1>10, ConfirmationStep
  <2>2. CASE ChannelChange
    <3>1. PICK c \in Channels :
            \/ memory' = [memory EXCEPT !["channels"] = @ \union {LowerName(c)}]
            \/ memory' = [memory EXCEPT !["channels"] = @ \ {LowerName(c)}]
      BY <2>2 DEF ChannelChange, ChannelChanged, TypeOK, Configs
    <3>3. memory'.channels # memory.channels
      BY <2>2 DEF ChannelChange, ChannelChanged, TypeOK, Configs
    <3>2. LowerName(c) \in Spelled(Users \union Channels)
      BY DEF LowerName, Spelled
    <3> QED BY <2>1, <3>1, <3>2, <3>3, ChangeImplements
  <2>3. CASE UNCHANGED <<memory, saving, change>>
    BY <1>0, <2>1, <2>3
  <2> QED BY <2>1, <2>2, <2>3
<1>11. CASE UserCommand
  <2>1. PICK n \in Spelled(Users) : promoteCommandFunc(n) \/ demoteCommandFunc(n)
    BY <1>11 DEF UserCommand
  <2>2. /\ phase = "up" /\ saving = "no" /\ UNCHANGED <<phase, file, unsaved>>
        /\ Lower(n) \in Spelled(Users \union Channels)
    BY <1>11 DEF UserCommand, Reading, Lower, LowerName, Spelled
  <2>3. \/ memory' = [memory EXCEPT !["whitelist"] = @ \union {Lower(n)}]
        \/ memory' = [memory EXCEPT !["whitelist"] = @ \ {Lower(n)}]
    BY <2>1 DEF promoteCommandFunc, demoteCommandFunc, TypeOK, Configs
  <2>4. memory'.whitelist # memory.whitelist
    BY <1>11, UserCommandStep DEF UserChange, UserChanged
  <2> QED BY <2>2, <2>3, <2>4, ChangeImplements
<1>12. CASE OtherStep
  BY <1>0, <1>12 DEF OtherStep
<1> QED BY <1>1, <1>2, <1>3, <1>4, <1>5, <1>6, <1>7, <1>8, <1>9, <1>10, <1>11, <1>12, OtherSteps
     DEF Next

\* Config.txt is a ConfigStore: runs start from what was saved or edited last, as a whole; at
\* most one change is not in the file besides those whose save could not begin, and the next
\* save makes up for all; the file is put at risk only for a change or at the end; no command
\* changes the modlist.
THEOREM Implementation == Spec => ImplementsConfigStore
<1>1. Init => Store!Init
  BY RunningIs DEF Init, Store!Init, Store!Nothing, Stored, Unsaved
<1>2. IInv /\ [Next]_vars => [Store!Next]_(Store!vars)
  BY StoreStep DEF IInv
<1> QED BY <1>1, <1>2, Invariance, PTL DEF Spec, Store!Spec, ImplementsConfigStore

-----------------------------------------------------------------------------
(* The channels of the bot and those of the server *)

\* A line is under way, and each line of one kind is followed by one of another.
Under(line, s) == \E i \in 1..Len(s) : s[i] = line
Overtaken(first, last, s) ==
    \A i \in 1..Len(s) : s[i] = first => \E k \in i..Len(s) : s[k] = last

Remembered(c) == LowerName(c) \in memory.channels

\* The bot will remember the channels it is in, by the last line about each that is under way to
\* it; and those that it remembers and is not in were refused, or are about to be joined, or a line
\* of the connection before has joined them.
Joined(c) ==
    /\ Overtaken(Line("PART", c), Line("JOIN", c), toBot)
    /\ Remembered(c) \/ Under(Line("JOIN", c), toBot)
Away(c) ==
    /\ Overtaken(Line("JOIN", c), Line("PART", c), toBot)
    /\ Remembered(c) => \/ c \in refused \/ Under(Line("PART", c), toBot)
                        \/ Under(Line("JOIN", LowerName(c)), toServer)
FollowInv ==
    connected =>
        /\ phase = "up"
        /\ \A c \in Channels : /\ c \in joined => Joined(c)
                               /\ c \notin joined \union stale => Away(c)

LEMMA Appended ==
    ASSUME NEW S, NEW s \in Seq(S), NEW x \in S
    PROVE  /\ \A line : Under(line, Append(s, x)) <=> Under(line, s) \/ line = x
           /\ \A first, last : Overtaken(first, last, s) /\ first # x =>
                                 Overtaken(first, last, Append(s, x))
           /\ \A first : Overtaken(first, x, Append(s, x))
<1> DEFINE n == Len(s)
           t == Append(s, x)
<1>1. /\ n \in Nat /\ Len(t) = n + 1 /\ t[n + 1] = x
      /\ \A i \in 1..n : t[i] = s[i]
  OBVIOUS
<1>2. \A i \in 1..Len(t) : i \in 1..n \/ i = n + 1
  BY <1>1
<1>3. \A i \in 1..Len(t) : n + 1 \in i..Len(t)
  BY <1>1
<1>4. \A i \in 1..n : i \in 1..Len(t) /\ i..n \subseteq i..Len(t) /\ i..n \subseteq 1..n
  BY <1>1
<1> HIDE DEF n, t
<1>5. \A line : Under(line, t) <=> Under(line, s) \/ line = x
  <2>1. n + 1 \in 1..Len(t)
    BY <1>1
  <2> QED BY <1>1, <1>2, <1>4, <2>1 DEF Under, n
<1>6. ASSUME NEW first, NEW last, Overtaken(first, last, s), first # x
      PROVE  Overtaken(first, last, t)
  <2> SUFFICES ASSUME NEW i \in 1..Len(t), t[i] = first PROVE \E k \in i..Len(t) : t[k] = last
    BY DEF Overtaken
  <2>1. i \in 1..n /\ s[i] = first
    BY <1>1, <1>2, <1>6
  <2>2. PICK k \in i..n : s[k] = last
    BY <1>6, <2>1 DEF Overtaken, n
  <2> QED BY <1>1, <1>4, <2>1, <2>2
<1>7. \A first : Overtaken(first, x, t)
  BY <1>1, <1>3 DEF Overtaken
<1> QED BY <1>5, <1>6, <1>7 DEF t

LEMMA Shortened ==
    ASSUME NEW S, NEW s \in Seq(S), s # <<>>
    PROVE  /\ \A line : Under(line, s) => Under(line, Tail(s)) \/ line = Head(s)
           /\ \A first, last : Overtaken(first, last, s) =>
                /\ Overtaken(first, last, Tail(s))
                /\ first = Head(s) /\ first # last => Under(last, Tail(s))
<1> DEFINE t == Tail(s)
<1>1. /\ Len(s) \in Nat /\ Len(s) >= 1 /\ Len(t) = Len(s) - 1 /\ Head(s) = s[1]
      /\ \A i \in 1..Len(t) : t[i] = s[i + 1]
  OBVIOUS
<1> HIDE DEF t
<1>2. ASSUME NEW i \in 1..Len(s), i # 1 PROVE i - 1 \in 1..Len(t) /\ t[i - 1] = s[i]
  <2>1. i - 1 \in 1..Len(t) /\ (i - 1) + 1 = i
    BY <1>1, <1>2
  <2> QED BY <1>1, <2>1
<1>3. \A line : Under(line, s) => Under(line, t) \/ line = Head(s)
  BY <1>1, <1>2 DEF Under
<1>4. ASSUME NEW first, NEW last, Overtaken(first, last, s)
      PROVE  /\ Overtaken(first, last, t)
             /\ first = Head(s) /\ first # last => Under(last, t)
  <2>1. ASSUME NEW i \in 1..Len(t), t[i] = first PROVE \E k \in i..Len(t) : t[k] = last
    <3>1. i + 1 \in 1..Len(s) /\ s[i + 1] = first
      BY <1>1, <2>1
    <3>2. PICK k \in (i + 1)..Len(s) : s[k] = last
      BY <1>4, <3>1 DEF Overtaken
    <3>3. k \in 1..Len(s) /\ k # 1 /\ k - 1 \in i..Len(t)
      BY <1>1, <3>2
    <3> QED BY <1>2, <3>2, <3>3
  <2>2. ASSUME first = Head(s), first # last PROVE Under(last, t)
    <3>1. 1 \in 1..Len(s) /\ s[1] = first
      BY <1>1, <2>2
    <3>2. PICK k \in 1..Len(s) : s[k] = last
      BY <1>4, <3>1 DEF Overtaken
    <3>3. k # 1
      BY <2>2, <3>1, <3>2
    <3> QED BY <1>2, <3>2, <3>3 DEF Under
  <2> QED BY <2>1, <2>2 DEF Overtaken
<1> QED BY <1>3, <1>4 DEF t

\* The lines of different channels, and JOIN and PART, are told apart.
LEMMA LinesDiffer ==
    /\ \A c, d : Line("JOIN", c) # Line("PART", d)
    /\ \A command, order, c, d : Line(command, c) = Line(order, d) => command = order /\ c = d
BY DEF Line

\* What the server does with a line, as it shows to the bot.
LEMMA ServerSteps ==
    ASSUME TypeOK, Server
    PROVE  \E channel \in Spelled(Channels), command \in {"JOIN", "PART"} :
             LET c == channel.name IN
             /\ c \in Channels /\ UNCHANGED <<phase, memory, connected, stale>>
             /\ \A line : Under(line, toServer) =>
                            Under(line, toServer') \/ line = Line(command, channel)
             /\ \/ /\ command = "JOIN" /\ joined' = joined \union {c} /\ refused' = refused
                   /\ toBot' = Append(toBot, Line("JOIN", c))
                \/ /\ command = "JOIN" /\ refused' = refused \union {c}
                   /\ UNCHANGED <<joined, toBot>>
                \/ /\ command = "PART" /\ c \in joined /\ joined' = joined \ {c}
                   /\ refused' = refused /\ toBot' = Append(toBot, Line("PART", c))
                \/ command = "PART" /\ c \notin joined /\ UNCHANGED <<joined, refused, toBot>>
<1>1. /\ toServer \in Seq(Lines(Spelled(Channels))) /\ toServer # <<>>
      /\ toServer' = Tail(toServer) /\ UNCHANGED <<phase, memory, connected, stale>>
  BY DEF Server, TypeOK, memVars
<1>2. Head(toServer) \in Lines(Spelled(Channels))
  BY <1>1
<1>3. PICK channel \in Spelled(Channels), command \in {"JOIN", "PART"} :
        Head(toServer) = Line(command, channel)
  BY <1>2 DEF Lines, Line
<1> DEFINE c == channel.name
<1>4. /\ Head(toServer).channel = channel /\ Head(toServer).command = command
      /\ c \in Channels
  BY <1>3 DEF Line, Spelled
<1>5. \A line : Under(line, toServer) => Under(line, toServer') \/ line = Line(command, channel)
  BY <1>1, <1>3, Shortened
<1>6. \/ /\ command = "JOIN" /\ joined' = joined \union {c} /\ refused' = refused
         /\ toBot' = Append(toBot, Line("JOIN", c))
      \/ command = "JOIN" /\ refused' = refused \union {c} /\ UNCHANGED <<joined, toBot>>
      \/ /\ command = "PART" /\ c \in joined /\ joined' = joined \ {c}
         /\ refused' = refused /\ toBot' = Append(toBot, Line("PART", c))
      \/ command = "PART" /\ c \notin joined /\ UNCHANGED <<joined, refused, toBot>>
  BY <1>4 DEF Server, ServerJoins, ServerRefuses, ServerParts
<1> QED BY <1>1, <1>4, <1>5, <1>6

\* What a line to the bot adds to those under way.
LEMMA OneMoreTold ==
    ASSUME TypeOK, NEW c \in Channels, NEW command \in {"JOIN", "PART"},
           toBot' = Append(toBot, Line(command, c))
    PROVE  /\ \A line : Under(line, toBot') <=> Under(line, toBot) \/ line = Line(command, c)
           /\ \A first, last : Overtaken(first, last, toBot) /\ first # Line(command, c) =>
                                 Overtaken(first, last, toBot')
           /\ \A first : Overtaken(first, Line(command, c), toBot')
<1> DEFINE S == Lines(Channels)
           x == Line(command, c)
<1>1. toBot \in Seq(S) /\ x \in S
  BY LineType DEF TypeOK
<1> HIDE DEF S, x
<1>2. /\ \A line : Under(line, Append(toBot, x)) <=> Under(line, toBot) \/ line = x
      /\ \A first, last : Overtaken(first, last, toBot) /\ first # x =>
                            Overtaken(first, last, Append(toBot, x))
      /\ \A first : Overtaken(first, x, Append(toBot, x))
  BY <1>1, Appended
<1> QED BY <1>2 DEF x

LEMMA ServerKeepsFollow ==
    ASSUME TypeOK, FollowInv, connected, Server
    PROVE  FollowInv'
<1>1. PICK channel \in Spelled(Channels), command \in {"JOIN", "PART"} :
        LET c == channel.name IN
        /\ c \in Channels /\ UNCHANGED <<phase, memory, connected, stale>>
        /\ \A line : Under(line, toServer) =>
                       Under(line, toServer') \/ line = Line(command, channel)
        /\ \/ /\ command = "JOIN" /\ joined' = joined \union {c} /\ refused' = refused
              /\ toBot' = Append(toBot, Line("JOIN", c))
           \/ /\ command = "JOIN" /\ refused' = refused \union {c} /\ UNCHANGED <<joined, toBot>>
           \/ /\ command = "PART" /\ c \in joined /\ joined' = joined \ {c}
              /\ refused' = refused /\ toBot' = Append(toBot, Line("PART", c))
           \/ command = "PART" /\ c \notin joined /\ UNCHANGED <<joined, refused, toBot>>
  BY ServerSteps
<1>2. PICK c \in Channels : c = channel.name
  BY <1>1
<1>3. phase' = "up" /\ stale' = stale /\ \A d \in Channels : Remembered(d)' = Remembered(d)
  BY <1>1 DEF FollowInv, Remembered
<1>4. ASSUME NEW d \in Channels, d # c
      PROVE  (d \in joined' => Joined(d)') /\ (d \notin joined' \union stale' => Away(d)')
  <2>1. (d \in joined' <=> d \in joined) /\ (d \in refused => d \in refused')
    BY <1>1, <1>2, <1>4
  <2>2. toBot' = toBot \/ toBot' = Append(toBot, Line(command, c))
    BY <1>1, <1>2
  <2>3. \A order : Line(order, d) # Line(command, c)
    BY <1>4, LinesDiffer
  <2>4. /\ \A order : Under(Line(order, d), toBot') <=> Under(Line(order, d), toBot)
        /\ \A order, last : Overtaken(Line(order, d), last, toBot) =>
                              Overtaken(Line(order, d), last, toBot')
    <3>1. CASE toBot' = toBot
      BY <3>1
    <3>2. CASE toBot' = Append(toBot, Line(command, c))
      BY <2>3, <3>2, OneMoreTold
    <3> QED BY <2>2, <3>1, <3>2
  <2>5. Under(Line("JOIN", LowerName(d)), toServer) => Under(Line("JOIN", LowerName(d)), toServer')
    <3>1. LowerName(d) # channel
      BY <1>2, <1>4 DEF LowerName
    <3> QED BY <1>1, <3>1, LinesDiffer
  <2>6. CASE d \in joined
    <3>1. Joined(d)
      BY <2>6 DEF FollowInv
    <3> QED BY <1>3, <2>1, <2>4, <2>6, <3>1 DEF Joined
  <2>7. CASE d \notin joined /\ d \notin stale
    <3>1. Away(d)
      BY <2>7 DEF FollowInv
    <3> QED BY <1>3, <2>1, <2>4, <2>5, <2>7, <3>1 DEF Away
  <2> QED BY <1>3, <2>1, <2>6, <2>7
<1>5. (c \in joined' => Joined(c)') /\ (c \notin joined' \union stale' => Away(c)')
  <2>1. CASE command = "JOIN" /\ c \in joined' /\ toBot' = Append(toBot, Line("JOIN", c))
    BY <2>1, OneMoreTold DEF Joined
  <2>2. CASE command = "JOIN" /\ c \in refused' /\ UNCHANGED <<joined, toBot>>
    <3>1. CASE c \in joined
      BY <1>3, <2>2, <3>1 DEF FollowInv, Joined
    <3>2. CASE c \notin joined
      BY <1>3, <2>2, <3>2 DEF FollowInv, Away
    <3> QED BY <3>1, <3>2
  <2>3. CASE c \notin joined' /\ toBot' = Append(toBot, Line("PART", c))
    BY <2>3, OneMoreTold DEF Away
  <2>4. CASE command = "PART" /\ c \notin joined /\ UNCHANGED <<joined, refused, toBot>>
    <3>1. c \in stale \/ Away(c)
      BY <2>4 DEF FollowInv
    <3>2. Under(Line("JOIN", LowerName(c)), toServer) => Under(Line("JOIN", LowerName(c)), toServer')
      BY <1>1, <2>4, LinesDiffer
    <3> QED BY <1>3, <2>4, <3>1, <3>2 DEF Away
  <2> QED BY <1>1, <1>2, <2>1, <2>2, <2>3, <2>4
<1> QED BY <1>1, <1>3, <1>4, <1>5 DEF FollowInv

\* What a confirmation does to the memory: the channel of the line is remembered or forgotten.
LEMMA ConfirmedChannel ==
    ASSUME TypeOK, Confirmation
    PROVE  \E c \in Channels, command \in {"JOIN", "PART"} :
             /\ toBot # <<>> /\ toBot' = Tail(toBot) /\ Head(toBot) = Line(command, c)
             /\ Remembered(c)' <=> command = "JOIN"
             /\ \A d \in Channels \ {c} : Remembered(d)' <=> Remembered(d)
<1>1. toBot \in Seq(Lines(Channels)) /\ toBot # <<>> /\ toBot' = Tail(toBot)
  BY DEF Confirmation, TypeOK
<1>2. Head(toBot) \in Lines(Channels)
  BY <1>1
<1>3. PICK c \in Channels, command \in {"JOIN", "PART"} : Head(toBot) = Line(command, c)
  BY <1>2 DEF Lines, Line
<1>4. Head(toBot).channel = c /\ Head(toBot).command = command
  BY <1>3 DEF Line
<1>5. memory \in Configs
  BY DEF TypeOK
<1>6. CASE command = "JOIN" /\ OwnJoin
  <2>1. memory'.channels = memory.channels \union {LowerName(c)}
    BY <1>4, <1>5, <1>6 DEF OwnJoin, Configs
  <2> QED BY <1>1, <1>3, <1>6, <2>1, LowerNamesDiffer DEF Remembered
<1>7. CASE command = "PART" /\ OwnPart
  <2>1. memory'.channels = memory.channels \ {LowerName(c)}
    BY <1>4, <1>5, <1>7 DEF OwnPart, Configs
  <2> QED BY <1>1, <1>3, <1>7, <2>1, LowerNamesDiffer DEF Remembered
<1>8. CASE NothingNew(Head(toBot))
  <2>1. memory' = memory /\ (command = "JOIN") = (LowerName(c) \in memory.channels)
    BY <1>4, <1>8 DEF NothingNew
  <2> QED BY <1>1, <1>3, <2>1 DEF Remembered
<1> QED BY <1>4, <1>6, <1>7, <1>8 DEF Confirmation

LEMMA ConfirmationKeepsFollow ==
    ASSUME TypeOK, FollowInv, Confirmation
    PROVE  FollowInv'
<1>1. PICK c \in Channels, command \in {"JOIN", "PART"} :
        /\ toBot # <<>> /\ toBot' = Tail(toBot) /\ Head(toBot) = Line(command, c)
        /\ Remembered(c)' <=> command = "JOIN"
        /\ \A d \in Channels \ {c} : Remembered(d)' <=> Remembered(d)
  BY ConfirmedChannel
<1>2. connected /\ UNCHANGED <<phase, connected, joined, refused, toServer, stale>>
  BY DEF Confirmation, Reading
<1>3. /\ \A line : Under(line, toBot) => Under(line, toBot') \/ line = Line(command, c)
      /\ \A first, last : Overtaken(first, last, toBot) =>
           /\ Overtaken(first, last, toBot')
           /\ first = Line(command, c) /\ first # last => Under(last, toBot')
  BY <1>1, Shortened DEF TypeOK
<1>4. ASSUME NEW d \in Channels, d \in joined PROVE Joined(d)'
  <2>1. Joined(d)
    BY <1>2, <1>4 DEF FollowInv
  <2>2. Overtaken(Line("PART", d), Line("JOIN", d), toBot')
    BY <1>3, <2>1 DEF Joined
  <2>3. CASE d # c
    <3>1. Under(Line("JOIN", d), toBot) => Under(Line("JOIN", d), toBot')
      BY <1>3, <2>3, LinesDiffer
    <3> QED BY <1>1, <2>1, <2>2, <2>3, <3>1 DEF Joined
  <2>4. CASE d = c /\ command = "JOIN"
    BY <1>1, <2>2, <2>4 DEF Joined
  <2>5. CASE d = c /\ command = "PART"
    <3>1. Under(Line("JOIN", d), toBot')
      BY <1>3, <2>1, <2>5, LinesDiffer DEF Joined
    <3> QED BY <2>2, <3>1 DEF Joined
  <2> QED BY <2>3, <2>4, <2>5
<1>5. ASSUME NEW d \in Channels, d \notin joined \union stale PROVE Away(d)'
  <2>1. Away(d)
    BY <1>2, <1>5 DEF FollowInv
  <2>2. Overtaken(Line("JOIN", d), Line("PART", d), toBot')
    BY <1>3, <2>1 DEF Away
  <2>3. CASE d # c
    <3>1. Under(Line("PART", d), toBot) => Under(Line("PART", d), toBot')
      BY <1>3, <2>3, LinesDiffer
    <3> QED BY <1>1, <1>2, <2>1, <2>2, <2>3, <3>1 DEF Away
  <2>4. CASE d = c /\ command = "PART"
    BY <1>1, <2>2, <2>4 DEF Away
  <2>5. CASE d = c /\ command = "JOIN"
    <3>1. Under(Line("PART", d), toBot')
      BY <1>3, <2>1, <2>5, LinesDiffer DEF Away
    <3> QED BY <2>2, <3>1 DEF Away
  <2> QED BY <2>3, <2>4, <2>5
<1> QED BY <1>2, <1>4, <1>5 DEF FollowInv

\* The lines of a new connection: the own channel, and every channel in memory as it is spelled.
LEMMA HandshakeLines ==
    ASSUME TypeOK, OnHandshake
    PROVE  /\ \A n \in memory.channels : Under(Line("JOIN", n), toServer')
           /\ \A i \in 1..Len(toServer') :
                \E n \in memory.channels \union {LowerName(OwnChannel)} :
                   toServer'[i] = Line("JOIN", n)
<1>1. PICK s \in Orders(memory.channels) :
             toServer' = [i \in 1..(Len(s) + 1) |->
                            Line("JOIN", IF i = 1 THEN LowerName(OwnChannel) ELSE s[i - 1])]
  BY DEF OnHandshake
<1>2. /\ s \in Seq(memory.channels) /\ Len(s) \in Nat /\ DOMAIN s = 1..Len(s)
      /\ \A n \in memory.channels : \E i \in 1..Len(s) : s[i] = n
  <2>1. Cardinality(memory.channels) \in Nat
    BY SpelledChannelsFinite DEF TypeOK, Configs
  <2>2. s \in [1..Cardinality(memory.channels) -> memory.channels]
    BY DEF Orders
  <2>3. s \in Seq(memory.channels) /\ DOMAIN s = 1..Len(s) /\ Len(s) \in Nat
    BY <2>1, <2>2
  <2> QED BY <2>3 DEF Orders
<1>3. Len(toServer') = Len(s) + 1 /\ DOMAIN toServer' = 1..(Len(s) + 1)
  <2>1. toServer' \in Seq(Lines(Spelled(Channels)))
    BY ConnectionTypes DEF TypeOK
  <2> QED BY <1>1, <1>2, <2>1
<1>4. ASSUME NEW n \in memory.channels PROVE Under(Line("JOIN", n), toServer')
  <2>1. PICK i \in 1..Len(s) : s[i] = n
    BY <1>2
  <2>2. i + 1 \in 1..(Len(s) + 1) /\ i + 1 # 1 /\ (i + 1) - 1 = i
    BY <1>2
  <2>3. toServer'[i + 1] = Line("JOIN", n)
    BY <1>1, <2>1, <2>2
  <2> QED BY <1>3, <2>2, <2>3 DEF Under
<1>5. ASSUME NEW i \in 1..Len(toServer')
      PROVE  \E n \in memory.channels \union {LowerName(OwnChannel)} :
               toServer'[i] = Line("JOIN", n)
  <2>1. CASE i = 1
    <3>1. toServer'[i] = Line("JOIN", LowerName(OwnChannel))
      BY <1>1, <1>3, <2>1
    <3> QED BY <3>1
  <2>2. CASE i # 1
    <3>1. i - 1 \in 1..Len(s)
      BY <1>2, <1>3, <2>2
    <3>2. s[i - 1] \in memory.channels
      BY <1>2, <3>1
    <3>3. toServer'[i] = Line("JOIN", s[i - 1])
      BY <1>1, <1>3, <2>2
    <3> QED BY <3>2, <3>3
  <2> QED BY <2>1, <2>2
<1> QED BY <1>4, <1>5

\* While there is no connection the bot is in no channel, and nothing is under way but lines that
\* were left over.
Quiet ==
    ~connected =>
        /\ joined = {} /\ toServer = <<>>
        /\ \A c \in Channels : Under(Line("JOIN", c), toBot) => c \in stale

LEMMA HandshakeKeepsFollow ==
    ASSUME TypeOK, Quiet, OnHandshake
    PROVE  FollowInv'
<1>1. /\ joined' = {} /\ UNCHANGED <<toBot, stale>> /\ phase' = "up" /\ memory' = memory
  BY DEF OnHandshake, Quiet, memVars
<1>2. ASSUME NEW c \in Channels, c \notin stale PROVE Away(c)'
  <2>1. ~Under(Line("JOIN", c), toBot')
    BY <1>1, <1>2 DEF Quiet, OnHandshake
  <2>2. Remembered(c)' => Under(Line("JOIN", LowerName(c)), toServer')
    BY <1>1, HandshakeLines DEF Remembered
  <2> QED BY <2>1, <2>2 DEF Away, Overtaken, Under
<1> QED BY <1>1, <1>2 DEF FollowInv

LEMMA ChannelCommandKeepsFollow ==
    ASSUME TypeOK, FollowInv, ChannelCommand
    PROVE  FollowInv'
<1>1. /\ connected /\ UNCHANGED <<phase, memory, connected, joined, refused, toBot, stale>>
  BY DEF ChannelCommand, Reading, memVars
<1>2. PICK c \in Channels, command \in {"JOIN", "PART"} :
        toServer' = Append(toServer, Line(command, LowerName(c)))
  BY DEF ChannelCommand
<1>3. toServer \in Seq(Lines(Spelled(Channels)))
      /\ Line(command, LowerName(c)) \in Lines(Spelled(Channels))
  BY LineType, NamesInLowerCase DEF TypeOK
<1>4. \A line : Under(line, toServer) => Under(line, toServer')
  BY <1>2, <1>3, Appended
<1> QED BY <1>1, <1>4 DEF FollowInv, Joined, Away, Remembered

LEMMA FollowStep ==
    ASSUME TypeOK, SaveInv, Quiet, FollowInv, [Next]_vars
    PROVE  Quiet' /\ FollowInv'
<1> USE DEF memVars, history, network
<1>1. ASSUME NEW k \in 0..Len(toBot), DisconnectedBut(k) PROVE Quiet' /\ FollowInv'
  <2>1. /\ ~connected' /\ joined' = {} /\ toServer' = <<>>
        /\ stale' = {c \in Channels : \E i \in 1..k : toBot[i] = Line("JOIN", c)}
    BY <1>1 DEF DisconnectedBut
  <2>2. Len(toBot') = k /\ \A i \in 1..k : toBot'[i] = toBot[i]
    BY <1>1 DEF DisconnectedBut, TypeOK
  <2> QED BY <2>1, <2>2 DEF Quiet, FollowInv, Under
<1>2. ASSUME UNCHANGED network, connected => phase' = "up" /\ memory'.channels = memory.channels
      PROVE  Quiet' /\ FollowInv'
  BY <1>2 DEF Quiet, FollowInv, Joined, Away, Remembered
<1>3. CASE Edit \/ LoadAbsent \/ Load
  <2>1. UNCHANGED network /\ ~connected
    BY <1>3 DEF Edit, LoadAbsent, Load, FollowInv
  <2> QED BY <1>2, <2>1
<1>4. CASE Finish \/ Kill \/ SaveOpenFails \/ Reconnect
  <2>1. 0 \in 0..Len(toBot)
    BY DEF TypeOK
  <2>2. \E k \in 0..Len(toBot) : DisconnectedBut(k)
    BY <1>4, <2>1
    DEF Finish, Kill, Gone, SaveOpenFails, HandlerEnds, HandlerReconnects, Reconnect, Disconnected
  <2> QED BY <1>1, <2>2
<1>5. CASE SaveOpen \/ SaveWrite \/ SaveWriteFails \/ UNCHANGED vars
  <2>1. UNCHANGED <<network, memory>> /\ (phase = "up" => phase' = "up")
    BY <1>5 DEF SaveOpen, SaveWrite, SaveWriteFails, AfterSave, vars
  <2> QED BY <1>2, <2>1 DEF FollowInv
<1>6. CASE UserCommand
  <2>1. UNCHANGED <<network, phase>> /\ memory'.channels = memory.channels
    BY <1>6 DEF UserCommand, promoteCommandFunc, demoteCommandFunc, TypeOK, Configs
  <2> QED BY <1>2, <2>1 DEF FollowInv
<1>7. CASE OnHandshake
  <2>1. Quiet'
    BY <1>7 DEF OnHandshake, Quiet
  <2> QED BY <1>7, <2>1, HandshakeKeepsFollow
<1>8. CASE Server
  <2>1. connected /\ connected'
    BY <1>8 DEF Server, Quiet
  <2> QED BY <1>8, <2>1, ServerKeepsFollow DEF Quiet
<1>9. CASE Confirmation \/ ChannelCommand
  <2>1. connected'
    BY <1>9 DEF Confirmation, ChannelCommand, Reading
  <2> QED BY <1>9, <2>1, ConfirmationKeepsFollow, ChannelCommandKeepsFollow DEF Quiet
<1> QED BY <1>3, <1>4, <1>5, <1>6, <1>7, <1>8, <1>9 DEF Next

\* When no line is under way, the bot remembers exactly the channels the server has it in, but for
\* those that were refused, or joined by a line of the connection before: a confirmation that is
\* still to come is the only difference, in whatever order joins, parts, refusals, reconnects,
\* saves that fail and restarts come.
THEOREM ChannelsAgree == Spec => []ChannelsFollowServer
<1>1. Init => Quiet /\ FollowInv
  <2> SUFFICES ASSUME Init PROVE Quiet /\ FollowInv
    OBVIOUS
  <2>1. Len(toBot) = 0
    BY DEF Init
  <2> QED BY <2>1 DEF Init, Quiet, FollowInv, Under
<1>2. IInv /\ Quiet /\ FollowInv /\ [Next]_vars => (Quiet /\ FollowInv)'
  BY FollowStep DEF IInv
<1>3. FollowInv => ChannelsFollowServer
  <2> SUFFICES ASSUME FollowInv, connected, toServer = <<>>, toBot = <<>>, NEW c \in Channels
               PROVE  /\ c \in joined => LowerName(c) \in memory.channels
                      /\ LowerName(c) \in memory.channels => c \in joined \union refused \union stale
    BY DEF ChannelsFollowServer
  <2>1. \A line : ~Under(line, toServer) /\ ~Under(line, toBot)
    <3>1. Len(toServer) = 0 /\ Len(toBot) = 0
      OBVIOUS
    <3> QED BY <3>1 DEF Under
  <2> QED BY <2>1 DEF FollowInv, Joined, Away, Remembered
<1> QED BY <1>1, <1>2, <1>3, Invariance, PTL DEF Spec

\* A new connection joins what was saved as joined and nothing that was saved as parted, in every
\* run until the file is edited or a moderator orders otherwise, but for the own channel and
\* channels that the file spells with capitals.
THEOREM ChannelsRejoined == Spec => SettledChannelsJoined
<1> DEFINE Rejoins ==
      ~connected /\ connected' =>
        \A c \in Channels \ {OwnChannel} :
            /\ settled[c] = "in" =>
                 \E i \in DOMAIN toServer' : toServer'[i] = Line("JOIN", LowerName(c))
            /\ settled[c] = "out" =>
                 \A i \in DOMAIN toServer' :
                    toServer'[i].channel.name = c => ~toServer'[i].channel.lower
<1>1. IInv /\ IInv' /\ [Next]_vars => [Rejoins]_vars
  <2> SUFFICES ASSUME IInv, IInv', Next, ~connected, connected',
                      NEW c \in Channels \ {OwnChannel}
               PROVE  /\ settled[c] = "in" =>
                           \E i \in DOMAIN toServer' : toServer'[i] = Line("JOIN", LowerName(c))
                      /\ settled[c] = "out" =>
                           \A i \in DOMAIN toServer' :
                              toServer'[i].channel.name = c => ~toServer'[i].channel.lower
    OBVIOUS
  <2>1. OnHandshake
    <3> USE DEF memVars, history, network
    <3>1. ~(Edit \/ LoadAbsent \/ Load \/ SaveOpen \/ SaveWrite \/ SaveWriteFails \/ Server)
      BY DEF Edit, LoadAbsent, Load, SaveOpen, SaveWrite, SaveWriteFails, Server
    <3>2. ~(Finish \/ Kill \/ SaveOpenFails \/ Reconnect)
      <4>1. \A k : DisconnectedBut(k) => ~connected'
        BY DEF DisconnectedBut
      <4> QED BY <4>1
          DEF Finish, Kill, Gone, SaveOpenFails, HandlerEnds, HandlerReconnects, Reconnect, Disconnected
    <3>3. ~(Confirmation \/ UserCommand \/ ChannelCommand)
      BY DEF Confirmation, UserCommand, ChannelCommand, Reading
    <3> QED BY <3>1, <3>2, <3>3 DEF Next
  <2>2. DOMAIN toServer' = 1..Len(toServer')
    BY DEF IInv, TypeOK
  <2>3. settled[c] # "free" => (LowerName(c) \in memory.channels) = (settled[c] = "in")
    <3>1. phase = "up" /\ change = NoChange
      BY <2>1 DEF OnHandshake, IInv, SaveInv
    <3> QED BY <3>1, ListOfName, NamesDiffer DEF IInv, SettledInv
  <2>4. CASE settled[c] = "in"
    BY <2>1, <2>2, <2>3, <2>4, HandshakeLines DEF IInv, Under
  <2>5. ASSUME settled[c] = "out", NEW i \in 1..Len(toServer'), toServer'[i].channel.name = c
        PROVE  ~toServer'[i].channel.lower
    <3>1. PICK n \in memory.channels \union {LowerName(OwnChannel)} :
                 toServer'[i] = Line("JOIN", n)
      BY <2>1, HandshakeLines DEF IInv
    <3>2. toServer'[i].channel = n
      BY <3>1 DEF Line
    <3>3. n \in memory.channels
      BY <2>5, <3>1, <3>2 DEF LowerName
    <3>4. n \in Spelled(Channels) /\ n # LowerName(c)
      BY <2>3, <2>5, <3>3 DEF IInv, TypeOK, Configs
    <3>5. n.lower # TRUE
      BY <2>5, <3>2, <3>4 DEF Spelled, LowerName
    <3> QED BY <3>2, <3>4, <3>5 DEF Spelled
  <2> QED BY <2>2, <2>4, <2>5
<1> QED BY <1>1, Invariance, PTL DEF Spec, SettledChannelsJoined

=============================================================================
