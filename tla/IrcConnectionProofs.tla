------------------------ MODULE IrcConnectionProofs ------------------------
(***************************************************************************)
(* That IInv, and with it the safety of the send loop, holds of every      *)
(* IrcConnection: for any number of worker threads, channels, replies,     *)
(* connections, inputs and faults.                                         *)
(***************************************************************************)
EXTENDS IrcConnection, FiniteSetTheorems, SequenceTheorems, TLAPS

\* What the send strand keeps, as opposed to ReconnectInv and the types of the rest.
SendInv ==
    /\ SendTypeOK /\ LoopTypeOK /\ WorkTypeOK
    /\ OneWrite /\ BufferAlive /\ AuthFirst /\ AtMostOnce
    /\ LoopInv /\ IdleInv /\ AuthInv /\ IdInv

LEMMA Parts == IInv <=> ConnTypeOK /\ ReadTypeOK /\ ClockTypeOK /\ ReconnectInv /\ SendInv
  BY DEF IInv, TypeOK, SendInv

LEMMA MessageIds == ASSUME NEW q \in Seq(Message) PROVE \A i \in 1..Len(q) : q[i].id \in Nat
<1>1. \A i \in 1..Len(q) : q[i] \in Message
  OBVIOUS
<1> QED
  BY <1>1 DEF Message

LEMMA WrittenIds == ASSUME NEW w \in Seq(Written) PROVE \A i \in 1..Len(w) : w[i].id \in Nat
<1>1. \A i \in 1..Len(w) : w[i] \in Written
  OBVIOUS
<1> QED
  BY <1>1 DEF Written

\* The initial state is one of IInv.
LEMMA InitInv == Init => IInv
<1> SUFFICES ASSUME Init PROVE IInv
  OBVIOUS
<1> USE DEF Init
<1>1. ConnTypeOK /\ ClockTypeOK /\ WorkTypeOK
  BY GapAssumption DEF ConnTypeOK, ClockTypeOK, WorkTypeOK
<1>2. ReadTypeOK /\ SendTypeOK
  <2>1. m_msg_pre_buffer \in Seq(Lines) /\ m_send_queue \in Seq(Message)
    OBVIOUS
  <2>2. m_channels \subseteq AllChannels
    BY DEF AllChannels
  <2>3. inputs \in Nat /\ queries \in Nat
    OBVIOUS
  <2> QED
    BY <2>1, <2>2, <2>3, Zenon DEF ReadTypeOK, SendTypeOK
<1>3. LoopTypeOK
  <2>1. inflight \in Seq(Written) /\ wire \in Seq(Written)
    OBVIOUS
  <2>2. [text |-> NoText, pad |-> FALSE] \in [text : Texts \union {NoText}, pad : BOOLEAN]
    BY Zenon
  <2> QED
    BY <2>1, <2>2, Zenon DEF LoopTypeOK
<1>4. OneWrite /\ BufferAlive /\ AuthFirst /\ AtMostOnce
  BY DEF OneWrite, BufferAlive, AuthFirst, AtMostOnce, AtMostOne, NoTask
<1>5. LoopInv /\ ReconnectInv /\ IdleInv /\ AuthInv
  BY DEF LoopInv, LoopActive, ReconnectInv, IdleInv, AuthInv, AtMostOne, NoTask
<1>6. IdInv
  BY DEF IdInv, TaskIdInv, QueueIdInv, HistoryIdInv
<1> QED
  BY <1>1, <1>2, <1>3, <1>4, <1>5, <1>6 DEF IInv, TypeOK

-----------------------------------------------------------------------------
(* Steps that leave the send side alone *)

LEMMA SendSideUnchanged ==
    ASSUME IInv, UNCHANGED <<loopVars, sendVars, workVars>>,
           stage' = stage \/ (stage # "up" /\ stage' # "up")
    PROVE  SendInv'
<1> USE DEF loopVars, sendVars, workVars
<1>1. SendTypeOK' /\ LoopTypeOK' /\ WorkTypeOK'
  BY Parts DEF SendInv, SendTypeOK, LoopTypeOK, WorkTypeOK
<1>2. OneWrite' /\ BufferAlive' /\ AuthFirst' /\ AtMostOnce'
  BY Parts DEF SendInv, OneWrite, BufferAlive, AuthFirst, AtMostOnce, AtMostOne, NoTask
<1>3. LoopInv' /\ IdleInv' /\ AuthInv'
  BY Parts DEF SendInv, LoopInv, LoopActive, IdleInv, AuthInv, NoTask
<1>4. IdInv'
  BY Parts DEF SendInv, IdInv, TaskIdInv, QueueIdInv, HistoryIdInv, NoTask
<1> QED
  BY <1>1, <1>2, <1>3, <1>4 DEF SendInv

LEMMA ReconnectUnchanged ==
    ASSUME ReconnectInv, UNCHANGED <<m_msg_pre_buffer, m_suspend_read, m_suspend_send,
                                     reading, consuming, posted, stage>>
    PROVE  ReconnectInv'
  BY DEF ReconnectInv, AtMostOne, NoTask

LEMMA OnReadInv == ASSUME IInv, OnRead PROVE IInv'
<1> USE DEF OnRead, connVars, loopVars, sendVars, clockVars, workVars
<1>0. PICK chunk \in Chunks : inputs' = inputs + Len(chunk)
                              /\ m_msg_pre_buffer' = m_msg_pre_buffer \o chunk
  OBVIOUS
<1>1. /\ chunk \in Seq(Lines)
      /\ \A i, j \in 1..Len(chunk) : IsReconnect(chunk[i]) /\ IsReconnect(chunk[j]) => i = j
      /\ (\E i \in 1..Len(chunk) : IsReconnect(chunk[i])) => MayReconnect
  <2>1. PICK n \in 1..MaxChunk : chunk \in [1..n -> Lines]
    BY DEF Chunks
  <2>2. chunk \in Seq(Lines) /\ DOMAIN chunk = 1..Len(chunk)
    BY <2>1, BoundsAssumption
  <2> QED
    BY <2>2 DEF Chunks
<1>2. SendInv'
  BY SendSideUnchanged
<1>3. ReadTypeOK' /\ ConnTypeOK' /\ ClockTypeOK'
  <2>1. m_msg_pre_buffer' \in Seq(Lines)
    BY <1>0, <1>1, Parts DEF ReadTypeOK
  <2>2. inputs' \in Nat
    BY <1>0, <1>1, Parts DEF ReadTypeOK
  <2> QED
    BY <2>1, <2>2, Parts DEF ReadTypeOK, ConnTypeOK, ClockTypeOK
<1>4. ReconnectInv'
  <2>1. /\ m_msg_pre_buffer \in Seq(Lines)
        /\ Len(m_msg_pre_buffer') = Len(m_msg_pre_buffer) + Len(chunk)
        /\ \A i \in 1..Len(m_msg_pre_buffer) : m_msg_pre_buffer'[i] = m_msg_pre_buffer[i]
        /\ \A i \in Len(m_msg_pre_buffer)+1..Len(m_msg_pre_buffer') :
              m_msg_pre_buffer'[i] = chunk[i - Len(m_msg_pre_buffer)]
    BY <1>0, <1>1, Parts DEF ReadTypeOK
  <2>2. ~m_suspend_read
    BY Parts DEF ReconnectInv
  <2>3. \A i, j \in 1..Len(m_msg_pre_buffer') :
          IsReconnect(m_msg_pre_buffer'[i]) /\ IsReconnect(m_msg_pre_buffer'[j]) => i = j
    <3> SUFFICES ASSUME NEW i \in 1..Len(m_msg_pre_buffer'), NEW j \in 1..Len(m_msg_pre_buffer'),
                        IsReconnect(m_msg_pre_buffer'[i]), IsReconnect(m_msg_pre_buffer'[j])
                 PROVE  i = j
      OBVIOUS
    <3> DEFINE n == Len(m_msg_pre_buffer)
    <3>0. n \in Nat /\ DOMAIN m_msg_pre_buffer = 1..n /\ Len(chunk) \in Nat
      BY <1>1, <2>1
    <3>1. CASE i \in 1..n /\ j \in 1..n
      BY <2>1, <3>1, Parts DEF ReconnectInv
    <3>2. CASE i > n /\ j > n
      <4>1. i - n \in 1..Len(chunk) /\ j - n \in 1..Len(chunk)
        BY <2>1, <3>0, <3>2
      <4>2. m_msg_pre_buffer'[i] = chunk[i - n] /\ m_msg_pre_buffer'[j] = chunk[j - n]
        BY <2>1, <3>0, <3>2
      <4>3. i - n = j - n
        BY <4>1, <4>2, <1>1
      <4> QED
        BY <4>3, <3>0
    <3>3. CASE (i \in 1..n /\ j > n) \/ (j \in 1..n /\ i > n)
      <4>1. \E k \in 1..Len(chunk) : IsReconnect(chunk[k])
        BY <2>1, <3>0, <3>3
      <4>2. \A k \in 1..n : ~IsReconnect(m_msg_pre_buffer[k])
        BY <4>1, <1>1, <3>0 DEF MayReconnect
      <4> QED
        BY <4>2, <2>1, <3>3
    <3> QED
      BY <3>0, <3>1, <3>2, <3>3
  <2> QED
    BY <2>2, <2>3, Parts DEF ReconnectInv, AtMostOne, NoTask
<1> QED
  BY <1>2, <1>3, <1>4 DEF IInv, TypeOK, SendInv

LEMMA OnReadErrorInv == ASSUME IInv, OnReadError PROVE IInv'
<1> USE DEF OnReadError, connVars, loopVars, sendVars, clockVars, workVars
<1>1. SendInv'
  BY SendSideUnchanged
<1>2. ReadTypeOK' /\ ConnTypeOK' /\ ClockTypeOK'
  BY Parts DEF ReadTypeOK, ConnTypeOK, ClockTypeOK
<1>3. ReconnectInv'
  BY Parts DEF ReconnectInv, AtMostOne, NoTask
<1> QED
  BY <1>1, <1>2, <1>3 DEF IInv, TypeOK, SendInv

\* What is left of the read buffer after a line was taken keeps its place in ReconnectInv.
LEMMA PopBuffer ==
    ASSUME IInv, m_msg_pre_buffer # <<>>, Pop
    PROVE  /\ m_msg_pre_buffer' \in Seq(Lines)
           /\ \A i, j \in 1..Len(m_msg_pre_buffer') :
                IsReconnect(m_msg_pre_buffer'[i]) /\ IsReconnect(m_msg_pre_buffer'[j]) => i = j
           /\ m_suspend_read \/ IsReconnect(Head(m_msg_pre_buffer)) =>
                \A i \in 1..Len(m_msg_pre_buffer') : ~IsReconnect(m_msg_pre_buffer'[i])
<1>1. m_msg_pre_buffer \in Seq(Lines)
  BY Parts DEF ReadTypeOK
<1>2. /\ m_msg_pre_buffer' \in Seq(Lines)
      /\ Len(m_msg_pre_buffer) >= 1
      /\ Head(m_msg_pre_buffer) = m_msg_pre_buffer[1]
      /\ Len(m_msg_pre_buffer') = Len(m_msg_pre_buffer) - 1
      /\ \A i \in 1..Len(m_msg_pre_buffer') : m_msg_pre_buffer'[i] = m_msg_pre_buffer[i + 1]
  BY <1>1 DEF Pop
<1>3. \A i \in 1..Len(m_msg_pre_buffer') : i + 1 \in 1..Len(m_msg_pre_buffer) /\ i + 1 # 1
  BY <1>1, <1>2
<1>4. 1 \in 1..Len(m_msg_pre_buffer)
  BY <1>1, <1>2
<1>5. \A i, j \in 1..Len(m_msg_pre_buffer) :
        IsReconnect(m_msg_pre_buffer[i]) /\ IsReconnect(m_msg_pre_buffer[j]) => i = j
  BY Parts DEF ReconnectInv
<1>6. ASSUME NEW i \in 1..Len(m_msg_pre_buffer'), NEW j \in 1..Len(m_msg_pre_buffer'),
             IsReconnect(m_msg_pre_buffer'[i]), IsReconnect(m_msg_pre_buffer'[j])
      PROVE  i = j
  <2>1. i + 1 = j + 1
    BY <1>2, <1>3, <1>5, <1>6
  <2> QED
    BY <2>1
<1>7. m_suspend_read => \A i \in 1..Len(m_msg_pre_buffer) : ~IsReconnect(m_msg_pre_buffer[i])
  BY Parts DEF ReconnectInv
<1>8. ASSUME m_suspend_read \/ IsReconnect(Head(m_msg_pre_buffer)),
             NEW i \in 1..Len(m_msg_pre_buffer')
      PROVE  ~IsReconnect(m_msg_pre_buffer'[i])
  BY <1>2, <1>3, <1>4, <1>5, <1>7, <1>8
<1> QED
  BY <1>2, <1>6, <1>8

LEMMA ConsumeQueryInv == ASSUME IInv, ConsumeQuery PROVE IInv'
<1> USE DEF ConsumeQuery, Front, connVars, loopVars, sendVars, clockVars, workVars
<1>1. SendInv'
  BY SendSideUnchanged
<1>2. ReadTypeOK' /\ ConnTypeOK' /\ ClockTypeOK'
  BY PopBuffer, Parts DEF ReadTypeOK, ConnTypeOK, ClockTypeOK
<1>3. ReconnectInv'
  BY PopBuffer, Parts DEF ReconnectInv, AtMostOne, NoTask
<1> QED
  BY <1>1, <1>2, <1>3 DEF IInv, TypeOK, SendInv

LEMMA ConsumeJoinPartInv == ASSUME IInv, ConsumeJoinPart PROVE IInv'
<1> USE DEF ConsumeJoinPart, Front, connVars, loopVars, sendVars, clockVars, workVars
<1>1. SendInv'
  BY SendSideUnchanged
<1>2. m_channels' \subseteq AllChannels
  <2>1. m_msg_pre_buffer \in Seq(Lines) /\ m_channels \subseteq AllChannels
    BY Parts DEF ReadTypeOK
  <2>2. Head(m_msg_pre_buffer) \in Lines
    BY <2>1
  <2>3. Head(m_msg_pre_buffer).kind = "JOIN" => Head(m_msg_pre_buffer).arg \in AllChannels
    BY <2>2 DEF Lines, Line
  <2> QED
    BY <2>1, <2>3
<1>3. ReadTypeOK' /\ ConnTypeOK' /\ ClockTypeOK'
  BY <1>2, PopBuffer, Parts DEF ReadTypeOK, ConnTypeOK, ClockTypeOK
<1>4. ReconnectInv'
  BY PopBuffer, Parts DEF ReconnectInv, AtMostOne, NoTask
<1> QED
  BY <1>1, <1>3, <1>4 DEF IInv, TypeOK, SendInv

LEMMA ConsumeShutdownInv == ASSUME IInv, ConsumeShutdown PROVE IInv'
<1> USE DEF ConsumeShutdown, Front, connVars, loopVars, sendVars, clockVars, workVars
<1>1. SendInv'
  BY SendSideUnchanged
<1>2. ReadTypeOK' /\ ConnTypeOK' /\ ClockTypeOK'
  BY PopBuffer, Parts DEF ReadTypeOK, ConnTypeOK, ClockTypeOK
<1>3. ReconnectInv'
  BY PopBuffer, Parts DEF ReconnectInv, AtMostOne, NoTask
<1> QED
  BY <1>1, <1>2, <1>3 DEF IInv, TypeOK, SendInv

LEMMA ConsumeThrowInv == ASSUME IInv, ConsumeThrow PROVE IInv'
<1> USE DEF ConsumeThrow, connVars, loopVars, sendVars, clockVars, workVars
<1>1. SendInv'
  BY SendSideUnchanged
<1>2. ReadTypeOK' /\ ConnTypeOK' /\ ClockTypeOK'
  BY Parts DEF ReadTypeOK, ConnTypeOK, ClockTypeOK
<1>3. ReconnectInv'
  BY Parts DEF ReconnectInv, AtMostOne, NoTask
<1> QED
  BY <1>1, <1>2, <1>3 DEF IInv, TypeOK, SendInv

LEMMA FinishReadInv == ASSUME IInv, FinishRead PROVE IInv'
<1> USE DEF FinishRead, connVars, loopVars, sendVars, clockVars, workVars
<1>1. SendInv'
  BY SendSideUnchanged
<1>2. ReadTypeOK' /\ ConnTypeOK' /\ ClockTypeOK'
  BY Parts DEF ReadTypeOK, ConnTypeOK, ClockTypeOK, Rearm
<1>3. ReconnectInv'
  BY Parts DEF ReconnectInv, AtMostOne, NoTask, Rearm
<1> QED
  BY <1>1, <1>2, <1>3 DEF IInv, TypeOK, SendInv

LEMMA StreamHandlerInv == ASSUME IInv, StreamHandler PROVE IInv'
<1> USE DEF StreamHandler, readVars, loopVars, sendVars, clockVars, workVars
<1>1. SendInv'
  BY SendSideUnchanged
<1>2. ReadTypeOK' /\ ConnTypeOK' /\ ClockTypeOK'
  BY Parts DEF ReadTypeOK, ConnTypeOK, ClockTypeOK
<1>3. ReconnectInv'
  BY ReconnectUnchanged, Parts
<1> QED
  BY <1>1, <1>2, <1>3 DEF IInv, TypeOK, SendInv

LEMMA TickInv == ASSUME IInv, Tick PROVE IInv'
<1> USE DEF Tick, connVars, readVars, loopVars, sendVars, workVars
<1>1. SendInv'
  BY SendSideUnchanged
<1>2. ClockTypeOK'
  BY GapAssumption, Parts DEF ClockTypeOK
<1>3. ReadTypeOK' /\ ConnTypeOK'
  BY Parts DEF ReadTypeOK, ConnTypeOK
<1>4. ReconnectInv'
  BY ReconnectUnchanged, Parts
<1> QED
  BY <1>1, <1>2, <1>3, <1>4 DEF IInv, TypeOK, SendInv

\* onResolve, onConnect and their failures move between stages in which nothing is sent.
LEMMA ConnectingInv ==
    ASSUME IInv, OnResolve \/ OnConnect \/ ConnectFails
    PROVE  IInv'
<1> USE DEF OnResolve, OnConnect, ConnectFails, readVars, loopVars, sendVars, clockVars, workVars
<1>1. SendInv'
  BY SendSideUnchanged
<1>2. ReadTypeOK' /\ ConnTypeOK' /\ ClockTypeOK'
  BY Parts DEF ReadTypeOK, ConnTypeOK, ClockTypeOK
<1>3. ReconnectInv'
  BY Parts DEF ReconnectInv, AtMostOne, NoTask
<1> QED
  BY <1>1, <1>2, <1>3 DEF IInv, TypeOK, SendInv

-----------------------------------------------------------------------------
(* Steps that post to the send strand *)

\* A new posted handler carries an id that nothing else has.
LEMMA PostKeepsIds ==
    ASSUME IInv, NEW kind, NEW text, Post(kind, text),
           UNCHANGED <<m_send_queue, m_send_queue_busy, past, wire>>,
           kind = "write" => timer
    PROVE  TaskIdInv' /\ HistoryIdInv'
<1> DEFINE new == [id |-> nextId, kind |-> kind, text |-> text]
<1>1. posted' = posted \union {new} /\ nextId' = nextId + 1 /\ nextId \in Nat /\ posted \subseteq Task
  BY Parts DEF Post, SendInv, WorkTypeOK
<1>2. HistoryIdInv'
  <2>1. HistoryIdInv /\ wire \in Seq(Written) /\ past \subseteq Nat
    BY Parts DEF SendInv, IdInv, LoopTypeOK, SendTypeOK
  <2>2. \A i \in 1..Len(wire) : wire[i].id \in Nat
    BY <2>1, WrittenIds
  <2> QED
    BY <1>1, <2>1, <2>2 DEF HistoryIdInv
<1>3. TaskIdInv'
  <2> SUFFICES ASSUME NEW t \in posted'
               PROVE  /\ t.id < nextId' /\ t.id \notin past
                      /\ \A s \in posted' : s.id = t.id => s = t
                      /\ \A i \in 1..Len(m_send_queue) : m_send_queue[i].id # t.id
                      /\ \A i \in 1..Len(wire) : wire[i].id # t.id
    BY DEF TaskIdInv
  <2>1. TaskIdInv /\ QueueIdInv /\ HistoryIdInv
    BY Parts DEF SendInv, IdInv
  <2>2. \A s \in posted : s.id \in Nat /\ s.id < nextId
    BY <1>1, <2>1 DEF TaskIdInv, Task
  <2>3. CASE t \in posted
    BY <1>1, <2>1, <2>2, <2>3 DEF TaskIdInv
  <2>4. CASE t = new
    <3>1. t.id = nextId
      BY <2>4
    <3>2. /\ nextId \notin past
          /\ \A i \in 1..Len(m_send_queue) : m_send_queue[i].id # nextId
          /\ \A i \in 1..Len(wire) : wire[i].id # nextId
      BY <1>1, <2>1 DEF QueueIdInv, HistoryIdInv
    <3> QED
      BY <1>1, <2>2, <2>4, <3>1, <3>2
  <2> QED
    BY <1>1, <2>3, <2>4
<1> QED
  BY <1>2, <1>3

LEMMA PostInv ==
    ASSUME IInv, NEW kind, NEW text, Post(kind, text),
           (kind = "send" /\ text \in Texts) \/ (kind = "suspend" /\ text = NoText),
           UNCHANGED <<stage, loopVars, sendVars>>
    PROVE  SendInv'
<1> USE DEF loopVars, sendVars
<1>1. SendTypeOK' /\ LoopTypeOK'
  BY Parts DEF SendInv, SendTypeOK, LoopTypeOK
<1>2. WorkTypeOK'
  BY Parts DEF SendInv, WorkTypeOK, Post, Task
<1>3. NoTask("write")' = NoTask("write") /\ NoTask("reconnect")' = NoTask("reconnect")
  BY DEF NoTask, Post
<1>4. AtMostOne("write")'
  BY Parts DEF SendInv, OneWrite, AtMostOne, Post
<1>5. OneWrite' /\ BufferAlive' /\ AuthFirst' /\ AtMostOnce'
  BY <1>3, <1>4, Parts DEF SendInv, OneWrite, BufferAlive, AuthFirst, AtMostOnce
<1>6. LoopInv' /\ IdleInv' /\ AuthInv'
  BY <1>3, Parts DEF SendInv, LoopInv, LoopActive, IdleInv, AuthInv
<1>7. TaskIdInv' /\ HistoryIdInv'
  BY PostKeepsIds
<1>8. QueueIdInv'
  <2>1. nextId' = nextId + 1 /\ nextId \in Nat /\ QueueIdInv /\ m_send_queue \in Seq(Message)
    BY Parts DEF Post, SendInv, WorkTypeOK, IdInv, SendTypeOK
  <2>2. \A i \in 1..Len(m_send_queue) : m_send_queue[i].id \in Nat
    BY <2>1, MessageIds
  <2> QED
    BY <1>3, <2>1, <2>2 DEF QueueIdInv
<1> QED
  BY <1>1, <1>2, <1>5, <1>6, <1>7, <1>8 DEF SendInv, IdInv

LEMMA ConsumeReplyInv ==
    ASSUME IInv, ConsumePing \/ ConsumeCommand
    PROVE  IInv'
<1> USE DEF ConsumePing, ConsumeCommand, Front, connVars, loopVars, sendVars, clockVars
<1>0. PICK text \in Texts : Post("send", text)
  <2>1. m_msg_pre_buffer \in Seq(Lines)
    BY Parts DEF ReadTypeOK
  <2>2. Head(m_msg_pre_buffer) \in Lines
    BY <2>1
  <2>3. Head(m_msg_pre_buffer).kind = "COMMAND" => Head(m_msg_pre_buffer).arg \in Replies
    BY <2>2 DEF Lines, Line
  <2>4. CASE ConsumePing
    BY <2>4 DEF Texts
  <2>5. CASE ConsumeCommand
    BY <2>3, <2>5 DEF Texts
  <2> QED
    BY <2>4, <2>5
<1>1. SendInv'
  BY <1>0, PostInv
<1>2. ReadTypeOK' /\ ConnTypeOK' /\ ClockTypeOK'
  BY PopBuffer, Parts DEF ReadTypeOK, ConnTypeOK, ClockTypeOK
<1>3. ReconnectInv'
  BY <1>0, PopBuffer, Parts DEF ReconnectInv, AtMostOne, NoTask, Post
<1> QED
  BY <1>1, <1>2, <1>3 DEF IInv, TypeOK, SendInv

LEMMA QueryReplyInv == ASSUME IInv, QueryReply PROVE IInv'
<1> USE DEF QueryReply, connVars, loopVars, sendVars, clockVars
<1>0. PICK r \in Replies : Post("send", Say(r))
  OBVIOUS
<1>1. Say(r) \in Texts
  BY DEF Texts
<1>2. SendInv'
  BY <1>0, <1>1, PostInv
<1>3. ReadTypeOK' /\ ConnTypeOK' /\ ClockTypeOK'
  BY Parts DEF ReadTypeOK, ConnTypeOK, ClockTypeOK
<1>4. ReconnectInv'
  BY <1>0, Parts DEF ReconnectInv, AtMostOne, NoTask, Post
<1> QED
  BY <1>2, <1>3, <1>4 DEF IInv, TypeOK, SendInv

LEMMA ConsumeReconnectInv == ASSUME IInv, ConsumeReconnect PROVE IInv'
<1> USE DEF ConsumeReconnect, Front, connVars, loopVars, sendVars, clockVars
<1>1. SendInv'
  BY PostInv
<1>2. ReadTypeOK' /\ ConnTypeOK' /\ ClockTypeOK'
  BY PopBuffer, Parts DEF ReadTypeOK, ConnTypeOK, ClockTypeOK
<1>3. IsReconnect(Head(m_msg_pre_buffer)) /\ ~m_suspend_read /\ stage = "up"
  <2>1. m_msg_pre_buffer \in Seq(Lines)
    BY Parts DEF ReadTypeOK
  <2>2. 1 \in 1..Len(m_msg_pre_buffer) /\ Head(m_msg_pre_buffer) = m_msg_pre_buffer[1]
    BY <2>1
  <2> QED
    BY <2>2, Parts DEF ReconnectInv, IsReconnect, SendInv, IdleInv
<1>4. NoTask("suspend") /\ NoTask("reconnect") /\ ~m_suspend_send
  BY <1>3, Parts DEF ReconnectInv
<1>5. ReconnectInv'
  BY <1>3, <1>4, PopBuffer, Parts DEF ReconnectInv, AtMostOne, NoTask, Post
<1> QED
  BY <1>1, <1>2, <1>5 DEF IInv, TypeOK, SendInv

-----------------------------------------------------------------------------
(* Steps of the send loop *)

LEMMA OneMore ==
    ASSUME NEW n \in Nat PROVE (n + 1 = 1 => n = 0) /\ (n \in {0, 1} \/ n >= 2)
  OBVIOUS

LEMMA StartWriteFacts ==
    ASSUME NEW queue \in Seq(Message), queue # <<>>, LoopTypeOK, StartWrite(queue, <<>>)
    PROVE  /\ LoopTypeOK' \/ timer' \notin BOOLEAN
           /\ Len(inflight') = 1 /\ inflight'[1].id = queue[1].id
           /\ Len(wire) \in Nat /\ Len(wire') = Len(wire) + 1
           /\ Len(wire') = 1 => Len(wire) = 0
           /\ Len(wire') >= 1 => Len(wire) \in {0, 1} \/ Len(wire) >= 2
           /\ \A i \in 1..Len(wire) : wire'[i] = wire[i]
           /\ wire'[Len(wire) + 1].id = queue[1].id
           /\ wire'[Len(wire) + 1].text = queue[1].text
<1> DEFINE pad == IsRepeat(queue[1].text)
           out == [id |-> queue[1].id, text |-> queue[1].text, pad |-> pad]
<1>1. Head(queue) = queue[1] /\ queue[1] \in Message
  OBVIOUS
<1>2. queue[1].id \in Nat /\ queue[1].text \in Texts
  BY <1>1 DEF Message
<1>3. pad \in BOOLEAN
  BY DEF IsRepeat
<1>4. out \in Written
  BY <1>2, <1>3, Zenon DEF Written
<1>5. [text |-> queue[1].text, pad |-> pad] \in [text : Texts \union {NoText}, pad : BOOLEAN]
  BY <1>2, <1>3, Zenon
<1>6. /\ inflight' = Append(<<>>, out)
      /\ wire' = Append(wire, out)
      /\ m_last_message_sendt' = [text |-> queue[1].text, pad |-> pad]
  BY <1>1 DEF StartWrite
<1>7. wire \in Seq(Written)
  BY DEF LoopTypeOK
<1> HIDE DEF out, pad
<1>8. inflight' \in Seq(Written) /\ wire' \in Seq(Written)
  BY <1>4, <1>6, <1>7
<1>9. out.id = queue[1].id /\ out.text = queue[1].text
  BY DEF out
<1>10. Len(inflight') = 1 /\ inflight'[1] = out
  BY <1>4, <1>6
<1>11. /\ Len(wire') = Len(wire) + 1
       /\ \A i \in 1..Len(wire) : wire'[i] = wire[i]
       /\ wire'[Len(wire) + 1] = out
  BY <1>4, <1>6, <1>7
<1>12. Len(wire) \in Nat
  BY <1>7
<1>13. /\ Len(wire') = 1 => Len(wire) = 0
       /\ Len(wire') >= 1 => Len(wire) \in {0, 1} \/ Len(wire) >= 2
  BY <1>11, <1>12, OneMore
<1> QED
  BY <1>5, <1>6, <1>8, <1>9, <1>10, <1>11, <1>12, <1>13 DEF LoopTypeOK

\* The queue may be worked on: nothing of it has been written, and the login leads it.
Ready(queue) ==
    /\ queue \in Seq(Message) /\ queue # <<>>
    /\ Len(wire) = 0 =>
         Len(queue) >= 2 /\ queue[1].text = Pass /\ queue[2].text = Nick
    /\ Len(wire) = 1 => queue[1].text = Nick
    /\ \A i \in 1..Len(queue) :
         /\ queue[i].id < nextId /\ queue[i].id \notin past
         /\ \A j \in 1..Len(queue) : queue[i].id = queue[j].id => i = j
         /\ \A j \in 1..Len(wire) : wire[j].id # queue[i].id

LEMMA LoopGoesOn ==
    ASSUME IInv, NEW queue, Ready(queue), m_send_queue' = queue, m_send_queue_busy' = TRUE,
           stage = "up", UNCHANGED <<stage, m_suspend_send, past, nextId>>,
           posted' \subseteq posted, NoTask("write")', NoTask("reconnect")',
           \A s \in posted' : \A i \in 1..Len(queue) : queue[i].id # s.id,
           \/ /\ timer' = TRUE /\ inflight' = <<>>
              /\ UNCHANGED <<m_last_message_sendt, wire>>
           \/ /\ timer' = FALSE /\ StartWrite(queue, <<>>)
    PROVE  SendInv'
<1>0. /\ LoopTypeOK /\ SendTypeOK /\ WorkTypeOK /\ AuthFirst /\ AtMostOnce
      /\ TaskIdInv /\ HistoryIdInv
  BY Parts DEF SendInv, IdInv
<1>1. SendTypeOK' /\ WorkTypeOK'
  <2>1. m_send_queue_busy' \in BOOLEAN
    BY Zenon
  <2> QED
    BY <1>0, <2>1 DEF SendTypeOK, WorkTypeOK, Ready
<1>2. AtMostOne("write")'
  BY DEF AtMostOne, NoTask
<1>3. CASE timer' = TRUE /\ inflight' = <<>> /\ UNCHANGED <<m_last_message_sendt, wire>>
  <2>1. LoopTypeOK'
    <3>1. timer' \in BOOLEAN
      BY <1>3, Zenon
    <3> QED
      BY <1>0, <1>3, <3>1 DEF LoopTypeOK
  <2>2. OneWrite' /\ BufferAlive' /\ AuthFirst' /\ AtMostOnce'
    BY <1>0, <1>2, <1>3 DEF OneWrite, BufferAlive, AuthFirst, AtMostOnce
  <2>3. LoopInv' /\ IdleInv'
    BY <1>3 DEF LoopInv, IdleInv, Ready
  <2>4. AuthInv'
    BY <1>0, <1>3 DEF AuthInv, Ready, LoopTypeOK
  <2>5. TaskIdInv' /\ QueueIdInv' /\ HistoryIdInv'
    BY <1>0, <1>3 DEF TaskIdInv, QueueIdInv, HistoryIdInv, Ready
  <2> QED
    BY <1>1, <2>1, <2>2, <2>3, <2>4, <2>5 DEF SendInv, IdInv
<1>4. CASE timer' = FALSE /\ StartWrite(queue, <<>>)
  <2>1. /\ LoopTypeOK'
        /\ Len(inflight') = 1 /\ inflight'[1].id = queue[1].id
        /\ Len(wire') = Len(wire) + 1
        /\ Len(wire') = 1 => Len(wire) = 0
        /\ Len(wire') >= 1 => Len(wire) \in {0, 1} \/ Len(wire) >= 2
        /\ \A i \in 1..Len(wire) : wire'[i] = wire[i]
        /\ wire'[Len(wire) + 1].id = queue[1].id
        /\ wire'[Len(wire) + 1].text = queue[1].text
    <3>1. timer' \in BOOLEAN
      BY <1>4, Zenon
    <3> QED
      BY <1>0, <1>4, <3>1, StartWriteFacts DEF Ready
  <2>2. Len(wire) \in Nat /\ 1 \in 1..Len(queue)
    BY <1>0 DEF LoopTypeOK, Ready
  <2>3. OneWrite' /\ BufferAlive'
    BY <1>2, <1>4, <2>1 DEF OneWrite, BufferAlive, Ready
  <2>4. AuthFirst'
    <3>1. CASE Len(wire) = 0
      BY <2>1, <3>1 DEF AuthFirst, Ready
    <3>2. CASE Len(wire) = 1
      <4>1. wire'[1].text = Pass /\ wire'[2].text = Nick
        BY <1>0, <2>1, <3>2 DEF AuthFirst, Ready
      <4> QED
        BY <4>1 DEF AuthFirst
    <3>3. CASE Len(wire) >= 2
      <4>1. wire'[1] = wire[1] /\ wire'[2] = wire[2]
        BY <2>1, <2>2, <3>3
      <4> QED
        BY <1>0, <3>3, <4>1 DEF AuthFirst
    <3>4. Len(wire') >= 1 => Len(wire) \in {0, 1} \/ Len(wire) >= 2
      BY <2>1
    <3>5. ~(Len(wire') >= 1) => AuthFirst'
      BY <2>1, <2>2 DEF AuthFirst
    <3> QED
      BY <3>1, <3>2, <3>3, <3>4, <3>5
  <2>5. AtMostOnce'
    <3>1. \A i \in 1..Len(wire) : wire[i].id # queue[1].id
      BY <2>2 DEF Ready
    <3>2. \A i \in 1..Len(wire') : i \in 1..Len(wire) \/ i = Len(wire) + 1
      BY <2>1, <2>2
    <3> QED
      BY SMTT(30), <1>0, <2>1, <2>2, <3>1, <3>2 DEF AtMostOnce, Ready
  <2>6. LoopInv' /\ IdleInv'
    BY DEF LoopInv, IdleInv, Ready
  <2>7. AuthInv'
    <3>1. wire' # <<>>
      BY <2>1, <2>2
    <3>2. Len(wire') = 1 => Len(wire) = 0
      BY <2>1
    <3> QED
      BY <1>4, <3>1, <3>2 DEF AuthInv, Ready
  <2>8. TaskIdInv'
    BY <1>0, <2>1, <2>2 DEF TaskIdInv
  <2>9. QueueIdInv'
    <3> SUFFICES ASSUME NEW i \in 1..Len(queue), NEW j \in 1..Len(wire'), i >= 2
                 PROVE  wire'[j].id # queue[i].id
      BY <1>4 DEF QueueIdInv, Ready
    <3>1. CASE j \in 1..Len(wire)
      BY <2>1, <3>1 DEF Ready
    <3>2. CASE j = Len(wire) + 1
      BY <2>1, <2>2, <3>2 DEF Ready
    <3> QED
      BY <2>1, <2>2, <3>1, <3>2
  <2>10. HistoryIdInv'
    BY <1>0, <2>1, <2>2 DEF HistoryIdInv, Ready
  <2> QED
    BY <1>1, <2>1, <2>3, <2>4, <2>5, <2>6, <2>7, <2>8, <2>9, <2>10 DEF SendInv, IdInv
<1> QED
  BY <1>3, <1>4

\* A posted handler has run and left the loop and the queue as they were.
LEMMA TaskGone ==
    ASSUME IInv, posted' \subseteq posted, UNCHANGED <<stage, loopVars, sendVars, nextId>>,
           NoTask("write")' = NoTask("write")
    PROVE  SendInv'
<1> USE DEF loopVars, sendVars
<1>0. NoTask("reconnect") => NoTask("reconnect")'
  BY DEF NoTask
<1>1. SendTypeOK' /\ LoopTypeOK' /\ WorkTypeOK'
  BY Parts DEF SendInv, SendTypeOK, LoopTypeOK, WorkTypeOK
<1>2. OneWrite' /\ BufferAlive' /\ AuthFirst' /\ AtMostOnce'
  BY Parts DEF SendInv, OneWrite, BufferAlive, AuthFirst, AtMostOnce, AtMostOne
<1>3. LoopInv' /\ IdleInv' /\ AuthInv'
  BY <1>0, Parts DEF SendInv, LoopInv, LoopActive, IdleInv, AuthInv
<1>4. IdInv'
  BY Parts DEF SendInv, IdInv, TaskIdInv, QueueIdInv, HistoryIdInv
<1> QED
  BY <1>1, <1>2, <1>3, <1>4 DEF SendInv

\* A message enters the queue behind the others; its id was that of its handler.
LEMMA EnqueueFacts ==
    ASSUME IInv, NEW t \in posted, t.kind = "send",
           NEW queue, queue = Enqueue([id |-> t.id, text |-> t.text])
    PROVE  /\ queue \in Seq(Message) /\ Len(queue) = Len(m_send_queue) + 1
           /\ Len(m_send_queue) \in Nat /\ queue # <<>>
           /\ \A i \in 1..Len(m_send_queue) : queue[i] = m_send_queue[i]
           /\ queue[Len(queue)].id = t.id
           /\ \A i \in 1..Len(queue) : i \in 1..Len(m_send_queue) \/ i = Len(queue)
           /\ \A i \in 1..Len(queue) :
                /\ queue[i].id < nextId /\ queue[i].id \notin past
                /\ \A j \in 1..Len(queue) : queue[i].id = queue[j].id => i = j
                /\ \A s \in posted \ {t} : queue[i].id # s.id
           /\ \A j \in 1..Len(wire) : wire[j].id # t.id
<1> DEFINE message == [id |-> t.id, text |-> t.text]
<1>1. m_send_queue \in Seq(Message) /\ t \in Task /\ TaskIdInv /\ QueueIdInv
  BY Parts DEF SendInv, SendTypeOK, WorkTypeOK, IdInv
<1>2. message \in Message /\ message.id = t.id
  BY <1>1 DEF Task, Message
<1> HIDE DEF message
<1>3. queue = Append(m_send_queue, message)
  BY DEF Enqueue, message
<1>4. /\ queue \in Seq(Message) /\ Len(queue) = Len(m_send_queue) + 1
      /\ Len(m_send_queue) \in Nat /\ queue # <<>>
      /\ \A i \in 1..Len(m_send_queue) : queue[i] = m_send_queue[i]
      /\ queue[Len(queue)] = message
      /\ \A i \in 1..Len(queue) : i \in 1..Len(m_send_queue) \/ i = Len(queue)
  <2>1. queue \in Seq(Message) /\ Len(queue) = Len(m_send_queue) + 1
    BY <1>1, <1>2, <1>3
  <2>2. Len(m_send_queue) \in Nat /\ queue # <<>>
    BY <1>1, <1>3, <2>1
  <2>3. /\ \A i \in 1..Len(m_send_queue) : queue[i] = m_send_queue[i]
        /\ queue[Len(queue)] = message
    BY <1>1, <1>2, <1>3, <2>1
  <2> QED
    BY <2>1, <2>2, <2>3
<1>5. ASSUME NEW i \in 1..Len(queue)
      PROVE  /\ queue[i].id < nextId /\ queue[i].id \notin past
             /\ \A s \in posted \ {t} : queue[i].id # s.id
  <2>1. CASE i \in 1..Len(m_send_queue)
    BY SMTT(30), <1>1, <1>4, <2>1 DEF QueueIdInv, TaskIdInv
  <2>2. CASE i = Len(queue)
    BY <1>1, <1>2, <1>4, <2>2 DEF TaskIdInv
  <2> QED
    BY <1>4, <2>1, <2>2
<1>6. ASSUME NEW i \in 1..Len(queue), NEW j \in 1..Len(queue), queue[i].id = queue[j].id
      PROVE  i = j
  BY <1>1, <1>2, <1>4, <1>6 DEF QueueIdInv, TaskIdInv
<1>7. \A j \in 1..Len(wire) : wire[j].id # t.id
  BY <1>1 DEF TaskIdInv
<1> QED
  BY <1>2, <1>4, <1>5, <1>6, <1>7

LEMMA PostedSendInv ==
    ASSUME IInv, NEW t \in posted, PostedSend(t)
    PROVE  IInv'
<1> USE DEF PostedSend, connVars, readVars, clockVars, Run
<1>1. /\ posted' = posted \ {t} /\ t.kind = "send"
      /\ NoTask("write")' = NoTask("write")
      /\ NoTask("reconnect")' = NoTask("reconnect")
      /\ NoTask("suspend")' = NoTask("suspend")
  BY DEF NoTask
<1>2. ConnTypeOK' /\ ReadTypeOK' /\ ClockTypeOK'
  BY Parts DEF ConnTypeOK, ReadTypeOK, ClockTypeOK
<1>3. ReconnectInv'
  BY <1>1, Parts DEF ReconnectInv, AtMostOne
<1>4. ASSUME Refused PROVE SendInv'
  BY <1>1, <1>4, TaskGone DEF sendVars
<1>5. ASSUME ~Refused PROVE SendInv'
  <2> DEFINE queue == Enqueue([id |-> t.id, text |-> t.text])
  <2>1. m_send_queue' = queue /\ ~m_suspend_send
    BY <1>5 DEF Refused
  <2>2. stage = "up" /\ NoTask("reconnect")
    BY <2>1, Parts DEF SendInv, IdleInv, ReconnectInv
  <2>3. /\ queue \in Seq(Message) /\ Len(queue) = Len(m_send_queue) + 1
        /\ Len(m_send_queue) \in Nat /\ queue # <<>>
        /\ \A i \in 1..Len(m_send_queue) : queue[i] = m_send_queue[i]
        /\ queue[Len(queue)].id = t.id
        /\ \A i \in 1..Len(queue) : i \in 1..Len(m_send_queue) \/ i = Len(queue)
        /\ \A i \in 1..Len(queue) :
             /\ queue[i].id < nextId /\ queue[i].id \notin past
             /\ \A j \in 1..Len(queue) : queue[i].id = queue[j].id => i = j
             /\ \A s \in posted \ {t} : queue[i].id # s.id
        /\ \A j \in 1..Len(wire) : wire[j].id # t.id
    BY <1>1, EnqueueFacts
  <2> HIDE DEF queue
  <2>4. CASE m_send_queue_busy
    <3>1. UNCHANGED <<loopVars, m_send_queue_busy, m_suspend_send, past, nextId, stage>>
      BY <1>5, <2>4 DEF loopVars
    <3>2. SendTypeOK' /\ LoopTypeOK' /\ WorkTypeOK'
      BY <1>1, <2>1, <2>3, <3>1, Parts DEF SendInv, SendTypeOK, LoopTypeOK, WorkTypeOK, loopVars
    <3>3. OneWrite' /\ AuthFirst' /\ AtMostOnce'
      BY <1>1, <3>1, Parts DEF SendInv, OneWrite, AuthFirst, AtMostOnce, AtMostOne, loopVars
    <3>4. BufferAlive'
      BY <2>1, <2>3, <3>1, Parts DEF SendInv, BufferAlive, SendTypeOK, loopVars
    <3>5. LoopInv' /\ IdleInv'
      BY <1>1, <2>1, <2>2, <2>3, <3>1, Parts
      DEF SendInv, LoopInv, LoopActive, IdleInv, loopVars
    <3>6. AuthInv'
      BY <1>1, <2>1, <2>2, <2>3, <3>1, Parts
      DEF SendInv, AuthInv, LoopInv, LoopActive, SendTypeOK, loopVars
    <3>7. TaskIdInv' /\ HistoryIdInv'
      BY <1>1, <2>1, <2>3, <3>1, Parts
      DEF SendInv, IdInv, TaskIdInv, HistoryIdInv, loopVars
    <3>8. QueueIdInv'
      BY <1>1, <2>1, <2>3, <2>4, <3>1, Parts DEF SendInv, IdInv, QueueIdInv, loopVars
    <3> QED
      BY <3>2, <3>3, <3>4, <3>5, <3>6, <3>7, <3>8 DEF SendInv, IdInv
  <2>5. CASE ~m_send_queue_busy
    <3>1. ~timer /\ NoTask("write") /\ inflight = <<>> /\ Len(wire) # 1
      BY <2>5, Parts DEF SendInv, LoopInv, LoopActive, AuthInv
    <3>2. Ready(queue)
      <4>1. \A i \in 1..Len(queue) : \A j \in 1..Len(wire) : wire[j].id # queue[i].id
        BY <2>3, <2>5, Parts DEF SendInv, IdInv, QueueIdInv
      <4>2. Len(wire) = 0 =>
              Len(queue) >= 2 /\ queue[1].text = Pass /\ queue[2].text = Nick
        BY <2>2, <2>3, Parts DEF SendInv, AuthInv, LoopTypeOK
      <4> QED
        BY <2>3, <3>1, <4>1, <4>2 DEF Ready
    <3>3. StartLoop(queue)
      BY <1>5, <2>1, <2>5
    <3>4. SendInv'
      <4>1. /\ m_send_queue_busy' = TRUE
            /\ UNCHANGED <<stage, m_suspend_send, past, nextId>>
        BY <3>3 DEF StartLoop
      <4>2. \/ /\ timer' = TRUE /\ inflight' = <<>>
               /\ UNCHANGED <<m_last_message_sendt, wire>>
            \/ /\ timer' = timer /\ StartWrite(queue, <<>>)
        BY <3>1, <3>3 DEF StartLoop, DoSendQueue
      <4>3. timer = FALSE
        BY <3>1, Parts DEF SendInv, LoopTypeOK
      <4> QED
        BY <1>1, <2>1, <2>2, <2>3, <3>1, <3>2, <4>1, <4>2, <4>3, LoopGoesOn
    <3> QED
      BY <3>4
  <2> QED
    BY <2>4, <2>5
<1> QED
  BY <1>2, <1>3, <1>4, <1>5 DEF IInv, TypeOK, SendInv

LEMMA WaitHandlerInv == ASSUME IInv, WaitHandler PROVE IInv'
<1> USE DEF WaitHandler, connVars, readVars, sendVars, clockVars
<1>1. ConnTypeOK' /\ ReadTypeOK' /\ ClockTypeOK'
  BY Parts DEF ConnTypeOK, ReadTypeOK, ClockTypeOK
<1>2. NoTask("suspend")' = NoTask("suspend") /\ NoTask("reconnect")' = NoTask("reconnect")
  BY DEF NoTask, Post
<1>3. ReconnectInv'
  <2>1. /\ AtMostOne("suspend") => AtMostOne("suspend")'
        /\ AtMostOne("reconnect") => AtMostOne("reconnect")'
    BY DEF AtMostOne, Post
  <2> QED
    BY <1>2, <2>1, Parts DEF ReconnectInv
<1>4. NoTask("write") /\ ~NoTask("write")' /\ inflight = <<>>
  <2>1. NoTask("write") /\ inflight = <<>>
    BY Parts DEF SendInv, OneWrite
  <2> DEFINE new == [id |-> nextId, kind |-> "write", text |-> NoText]
  <2>2. new \in posted' /\ new.kind = "write"
    BY DEF Post
  <2> QED
    BY <2>1, <2>2 DEF NoTask
<1>5. SendTypeOK' /\ LoopTypeOK' /\ WorkTypeOK'
  <2>1. timer' \in BOOLEAN
    BY Zenon
  <2>2. [id |-> nextId, kind |-> "write", text |-> NoText] \in Task
    BY Parts DEF SendInv, WorkTypeOK, Task
  <2> QED
    BY <2>1, <2>2, Parts DEF SendInv, SendTypeOK, LoopTypeOK, WorkTypeOK, Post
<1>6. OneWrite' /\ BufferAlive' /\ AuthFirst' /\ AtMostOnce'
  <2>1. AtMostOne("write")'
    BY <1>4 DEF AtMostOne, NoTask, Post
  <2> QED
    BY <1>4, <2>1, Parts DEF SendInv, OneWrite, BufferAlive, AuthFirst, AtMostOnce
<1>7. LoopInv' /\ IdleInv' /\ AuthInv'
  BY <1>2, <1>4, Parts DEF SendInv, LoopInv, LoopActive, IdleInv, AuthInv
<1>8. TaskIdInv' /\ HistoryIdInv'
  BY PostKeepsIds
<1>9. QueueIdInv'
  <2>1. /\ nextId' = nextId + 1 /\ nextId \in Nat
        /\ m_send_queue \in Seq(Message) /\ QueueIdInv
    BY Parts DEF Post, SendInv, WorkTypeOK, SendTypeOK, IdInv
  <2>2. \A i \in 1..Len(m_send_queue) : m_send_queue[i].id \in Nat
    BY <2>1, MessageIds
  <2> QED
    BY <2>1, <2>2 DEF QueueIdInv
<1> QED
  BY <1>1, <1>3, <1>5, <1>6, <1>7, <1>8, <1>9 DEF IInv, TypeOK, SendInv, IdInv

\* While a step of the loop is due, the queue is ready for it.
LEMMA QueueReady ==
    ASSUME IInv, timer \/ ~NoTask("write")
    PROVE  Ready(m_send_queue)
<1>1. stage = "up" /\ m_send_queue # <<>> /\ m_send_queue \in Seq(Message)
  BY Parts DEF SendInv, LoopInv, LoopActive, SendTypeOK
<1>2. wire \in Seq(Written)
  BY Parts DEF SendInv, LoopTypeOK
<1>3. /\ Len(wire) = 0 => /\ Len(m_send_queue) >= 2
                         /\ m_send_queue[1].text = Pass /\ m_send_queue[2].text = Nick
      /\ Len(wire) = 1 => m_send_queue[1].text = Nick
  BY <1>1, <1>2, Parts DEF SendInv, AuthInv
<1> QED
  BY <1>1, <1>3, Parts DEF Ready, SendInv, IdInv, QueueIdInv

LEMMA SendHandlerInv == ASSUME IInv, NEW t \in posted, SendHandler(t) PROVE IInv'
<1> USE DEF SendHandler, Run, connVars, readVars, sendVars, clockVars
<1>1. ConnTypeOK' /\ ReadTypeOK' /\ ClockTypeOK'
  BY Parts DEF ConnTypeOK, ReadTypeOK, ClockTypeOK
<1>2. NoTask("suspend")' = NoTask("suspend") /\ NoTask("reconnect")' = NoTask("reconnect")
  BY DEF NoTask
<1>3. ReconnectInv'
  BY <1>2, Parts DEF ReconnectInv, AtMostOne
<1>4. ~NoTask("write")
  BY DEF NoTask
<1>5. /\ stage = "up" /\ m_send_queue_busy /\ NoTask("reconnect")
      /\ inflight = <<>> /\ ~timer
  BY <1>4, Parts DEF SendInv, LoopInv, LoopActive, OneWrite
<1>6. NoTask("write")'
  BY Parts DEF SendInv, OneWrite, AtMostOne, NoTask
<1>7. Ready(m_send_queue)
  BY <1>4, QueueReady
<1>8. \A s \in posted' : \A i \in 1..Len(m_send_queue) : m_send_queue[i].id # s.id
  BY Parts DEF SendInv, IdInv, TaskIdInv
<1>9. timer = FALSE /\ m_send_queue_busy = TRUE
  BY <1>5, Parts DEF SendInv, LoopTypeOK, SendTypeOK
<1>10. SendInv'
  BY <1>2, <1>5, <1>6, <1>7, <1>8, <1>9, LoopGoesOn
<1> QED
  BY <1>1, <1>3, <1>10 DEF IInv, TypeOK, SendInv

\* The front of a queue is taken off.
LEMMA PopQueue ==
    ASSUME NEW queue \in Seq(Message), queue # <<>>
    PROVE  /\ Tail(queue) \in Seq(Message) /\ Len(queue) \in Nat
           /\ Len(Tail(queue)) = Len(queue) - 1
           /\ IF Tail(queue) = <<>> THEN Len(queue) = 1 ELSE Len(queue) >= 2
           /\ \A i \in 1..Len(Tail(queue)) :
                /\ Tail(queue)[i] = queue[i + 1]
                /\ i + 1 \in 1..Len(queue) /\ i + 1 >= 2
<1>1. /\ Tail(queue) \in Seq(Message) /\ Len(queue) \in Nat
      /\ Len(Tail(queue)) = Len(queue) - 1
  OBVIOUS
<1>2. IF Tail(queue) = <<>> THEN Len(queue) = 1 ELSE Len(queue) >= 2
  <2>1. CASE Tail(queue) = <<>>
    <3>1. Len(<<>>) = 0
      BY EmptySeq
    <3>2. Len(Tail(queue)) = 0
      BY <2>1, <3>1, Zenon
    <3> QED
      BY <1>1, <2>1, <3>2
  <2>2. CASE Tail(queue) # <<>>
    <3>1. Len(Tail(queue)) \in Nat \ {0}
      BY <1>1, <2>2, EmptySeq
    <3> QED
      BY <1>1, <2>2, <3>1
  <2> QED
    BY <2>1, <2>2
<1>3. \A i \in 1..Len(Tail(queue)) :
        /\ Tail(queue)[i] = queue[i + 1]
        /\ i + 1 \in 1..Len(queue) /\ i + 1 >= 2
  BY <1>1
<1> QED
  BY <1>1, <1>2, <1>3

LEMMA TailOfOne ==
    ASSUME NEW S, NEW s \in Seq(S), s # <<>>, Len(s) <= 1
    PROVE  Tail(s) = <<>> /\ Len(s) = 1
<1>1. Len(s) \in Nat /\ Len(s) # 0
  OBVIOUS
<1>2. Len(s) = 1
  BY <1>1
<1>3. Tail(s) \in Seq(S) /\ Len(Tail(s)) = 0
  BY <1>2
<1> QED
  BY <1>2, <1>3, EmptySeq

LEMMA OnSendQueueInv == ASSUME IInv, OnSendQueue PROVE IInv'
<1> USE DEF OnSendQueue, connVars, readVars
<1>1. ConnTypeOK' /\ ReadTypeOK'
  BY Parts DEF ConnTypeOK, ReadTypeOK
<1>2. /\ inflight # <<>> /\ inflight \in Seq(Written) /\ Len(inflight) <= 1
      /\ ~timer /\ NoTask("write")
  BY Parts DEF SendInv, LoopTypeOK, OneWrite
<1>3. Tail(inflight) = <<>> /\ Len(inflight) = 1
  BY <1>2, TailOfOne
<1>4. /\ stage = "up" /\ m_send_queue_busy /\ m_send_queue # <<>> /\ NoTask("reconnect")
      /\ wire # <<>> /\ m_send_queue \in Seq(Message)
  BY <1>2, Parts DEF SendInv, LoopInv, LoopActive, AuthInv, SendTypeOK
<1>5. wire \in Seq(Written) /\ Len(wire) \in Nat /\ Len(wire) # 0
  BY <1>4, Parts DEF SendInv, LoopTypeOK
<1>6. CASE OnSendQueueSuspended
  <2> USE DEF OnSendQueueSuspended, sendVars
  <2>1. NoTask("suspend") /\ m_suspend_read /\ m_suspend_send
    BY <1>6, Parts DEF ReconnectInv
  <2>2. /\ posted' = posted \union {[id |-> nextId, kind |-> "reconnect", text |-> NoText]}
        /\ nextId' = nextId + 1
        /\ NoTask("write")' /\ NoTask("suspend")'
    BY <1>2, <1>6, <2>1 DEF NoTask, Post
  <2>3. ReconnectInv'
    BY <1>4, <1>6, <2>1, <2>2, Parts DEF ReconnectInv, AtMostOne, NoTask
  <2>4. ClockTypeOK'
    BY <1>6, GapAssumption, Parts DEF ClockTypeOK
  <2>5. SendTypeOK' /\ LoopTypeOK'
    BY <1>2, <1>3, <1>6, Parts DEF SendInv, SendTypeOK, LoopTypeOK
  <2>6. WorkTypeOK'
    BY <2>2, Parts DEF SendInv, WorkTypeOK, Task
  <2>7. OneWrite' /\ BufferAlive' /\ AuthFirst' /\ AtMostOnce'
    BY <1>2, <1>3, <1>6, <2>2, Parts
    DEF SendInv, OneWrite, BufferAlive, AuthFirst, AtMostOnce, AtMostOne, NoTask
  <2>8. LoopInv' /\ IdleInv'
    BY <1>2, <1>3, <1>4, <1>6, <2>2 DEF LoopInv, LoopActive, IdleInv
  <2>9. AuthInv'
    BY <1>2, <1>3, <1>4, <1>6, <2>2 DEF AuthInv
  <2>10. TaskIdInv' /\ HistoryIdInv'
    BY <1>6, PostKeepsIds
  <2>11. QueueIdInv'
    <3>1. nextId \in Nat /\ QueueIdInv
      BY Parts DEF SendInv, WorkTypeOK, IdInv
    <3>2. \A i \in 1..Len(m_send_queue) : m_send_queue[i].id \in Nat
      BY <1>4, MessageIds
    <3> QED
      BY <1>2, <1>4, <1>6, <2>2, <3>1, <3>2 DEF QueueIdInv
  <2> QED
    BY <1>1, <2>3, <2>4, <2>5, <2>6, <2>7, <2>8, <2>9, <2>10, <2>11
    DEF IInv, TypeOK, IdInv
<1>7. CASE OnSendQueueError
  <2> USE DEF OnSendQueueError, sendVars, clockVars, workVars
  <2>1. ReconnectInv' /\ ClockTypeOK'
    BY <1>7, Parts DEF ReconnectInv, ClockTypeOK, AtMostOne, NoTask
  <2>2. SendTypeOK' /\ LoopTypeOK' /\ WorkTypeOK'
    BY <1>2, <1>3, <1>7, Parts DEF SendInv, SendTypeOK, LoopTypeOK, WorkTypeOK
  <2>3. NoTask("write")'
    BY <1>2, <1>7 DEF NoTask
  <2>4. OneWrite' /\ BufferAlive' /\ AuthFirst' /\ AtMostOnce'
    BY <1>2, <1>3, <1>7, <2>3, Parts
    DEF SendInv, OneWrite, BufferAlive, AuthFirst, AtMostOnce, AtMostOne, NoTask
  <2>5. LoopInv' /\ IdleInv' /\ AuthInv'
    BY <1>2, <1>3, <1>4, <1>7, <2>3 DEF LoopInv, LoopActive, IdleInv, AuthInv
  <2>6. IdInv'
    BY <1>2, <1>7, <2>3, Parts
    DEF SendInv, IdInv, TaskIdInv, QueueIdInv, HistoryIdInv
  <2> QED
    BY <1>1, <2>1, <2>2, <2>4, <2>5, <2>6 DEF IInv, TypeOK
<1>8. CASE OnSendQueueOk
  <2> DEFINE queue == Tail(m_send_queue)
  <2> USE DEF OnSendQueueOk, AfterSend, TimeOfSend, StillBusy, workVars
  <2>0. /\ m_send_queue' = queue /\ ~m_suspend_send
        /\ m_send_queue_busy' = (queue # <<>>)
        /\ UNCHANGED <<m_suspend_send, past, posted, nextId, stage>>
    BY <1>8
  <2>1. ReconnectInv' /\ ClockTypeOK'
    BY <1>8, GapAssumption, Parts DEF ReconnectInv, ClockTypeOK, AtMostOne, NoTask
  <2>2. /\ queue \in Seq(Message) /\ Len(m_send_queue) \in Nat
        /\ Len(queue) = Len(m_send_queue) - 1
        /\ IF queue = <<>> THEN Len(m_send_queue) = 1 ELSE Len(m_send_queue) >= 2
        /\ \A i \in 1..Len(queue) :
             /\ queue[i] = m_send_queue[i + 1]
             /\ i + 1 \in 1..Len(m_send_queue) /\ i + 1 >= 2
    BY <1>4, PopQueue
  <2>3. NoTask("write")' /\ NoTask("reconnect")'
    BY <1>2, <1>4, <2>0 DEF NoTask
  <2> HIDE DEF queue
  <2>4. \A i \in 1..Len(queue) :
          /\ queue[i].id < nextId /\ queue[i].id \notin past
          /\ \A j \in 1..Len(queue) : queue[i].id = queue[j].id => i = j
          /\ \A j \in 1..Len(wire) : wire[j].id # queue[i].id
    <3>1. QueueIdInv
      BY Parts DEF SendInv, IdInv
    <3> SUFFICES ASSUME NEW i \in 1..Len(queue)
                 PROVE  /\ queue[i].id < nextId /\ queue[i].id \notin past
                        /\ \A j \in 1..Len(queue) : queue[i].id = queue[j].id => i = j
                        /\ \A j \in 1..Len(wire) : wire[j].id # queue[i].id
      OBVIOUS
    <3>2. /\ queue[i].id < nextId /\ queue[i].id \notin past
          /\ \A j \in 1..Len(wire) : wire[j].id # queue[i].id
      <4>1. i + 1 \in 1..Len(m_send_queue) /\ i + 1 >= 2 /\ queue[i] = m_send_queue[i + 1]
        BY <2>2
      <4> QED
        BY <3>1, <4>1 DEF QueueIdInv
    <3>3. ASSUME NEW j \in 1..Len(queue), queue[i].id = queue[j].id PROVE i = j
      <4>1. i + 1 = j + 1
        BY SMTT(30), <2>2, <3>1, <3>3 DEF QueueIdInv
      <4> QED
        BY <4>1
    <3> QED
      BY <3>2, <3>3
  <2>5. \A s \in posted' : \A i \in 1..Len(queue) : queue[i].id # s.id
    BY <2>0, <2>2, Parts DEF SendInv, IdInv, TaskIdInv
  <2>6. ASSUME queue = <<>> PROVE SendInv'
    <3>1. /\ inflight' = <<>> /\ UNCHANGED <<m_last_message_sendt, timer, wire>>
          /\ m_send_queue_busy' = FALSE
      BY <1>3, <1>8, <2>0, <2>6
    <3>2. Len(wire) # 1
      <4>1. Len(wire) = 1 => Len(m_send_queue) >= 2
        BY <1>2, Parts DEF SendInv, AuthInv
      <4>2. Len(m_send_queue) = 1
        BY <2>2, <2>6
      <4> QED
        BY <4>1, <4>2
    <3>3. m_send_queue_busy' \in BOOLEAN
      BY <3>1, Zenon
    <3>4. SendTypeOK' /\ LoopTypeOK' /\ WorkTypeOK'
      BY <2>0, <2>2, <3>1, <3>3, Parts DEF SendInv, SendTypeOK, LoopTypeOK, WorkTypeOK
    <3>5. OneWrite' /\ BufferAlive' /\ AuthFirst' /\ AtMostOnce'
      BY <1>2, <2>0, <2>3, <3>1, Parts
      DEF SendInv, OneWrite, BufferAlive, AuthFirst, AtMostOnce, AtMostOne, NoTask
    <3>6. LoopInv' /\ IdleInv'
      BY <1>2, <1>4, <2>0, <2>3, <3>1 DEF LoopInv, LoopActive, IdleInv
    <3>7. AuthInv'
      BY <1>4, <3>1, <3>2 DEF AuthInv
    <3>8. TaskIdInv' /\ QueueIdInv' /\ HistoryIdInv'
      BY <2>0, <2>4, <2>5, <2>6, <3>1, Parts
      DEF SendInv, IdInv, TaskIdInv, QueueIdInv, HistoryIdInv
    <3> QED
      BY <3>4, <3>5, <3>6, <3>7, <3>8 DEF SendInv, IdInv
  <2>7. ASSUME queue # <<>> PROVE SendInv'
    <3>1. DoSendQueue(queue, <<>>, 0) /\ m_send_queue_busy' = TRUE
      BY <1>3, <1>8, <2>0, <2>7
    <3>2. Len(wire) = 1 => queue[1].text = Nick
      <4>1. ASSUME Len(wire) = 1 PROVE m_send_queue[2].text = Nick
        BY <1>2, <4>1, Parts DEF SendInv, AuthInv
      <4>2. queue[1] = m_send_queue[2]
        BY <2>2, <2>7
      <4> QED
        BY <4>1, <4>2
    <3>3. Ready(queue)
      BY <1>5, <2>2, <2>4, <2>7, <3>2 DEF Ready
    <3>4. timer = FALSE
      BY <1>2, Parts DEF SendInv, LoopTypeOK
    <3>5. \/ /\ timer' = TRUE /\ inflight' = <<>>
             /\ UNCHANGED <<m_last_message_sendt, wire>>
          \/ /\ timer' = FALSE /\ StartWrite(queue, <<>>)
      BY <3>1, <3>4 DEF DoSendQueue
    <3> QED
      BY <1>4, <2>0, <2>3, <2>5, <3>1, <3>3, <3>5, LoopGoesOn
  <2> QED
    BY <1>1, <2>1, <2>6, <2>7 DEF IInv, TypeOK, SendInv
<1> QED
  BY <1>6, <1>7, <1>8

LEMMA SuspendWriteHandlerInv ==
    ASSUME IInv, NEW t \in posted, SuspendWriteHandler(t)
    PROVE  IInv'
<1> USE DEF SuspendWriteHandler, connVars, readVars, clockVars
<1>1. ConnTypeOK' /\ ReadTypeOK' /\ ClockTypeOK'
  BY Parts DEF ConnTypeOK, ReadTypeOK, ClockTypeOK
<1>2. /\ m_suspend_send' = TRUE /\ ~NoTask("suspend")
      /\ UNCHANGED <<loopVars, m_send_queue_busy, m_send_queue, past, stage, m_suspend_read>>
  BY DEF NoTask
<1>3. m_suspend_read /\ stage = "up" /\ ~m_suspend_send /\ NoTask("reconnect")
  BY <1>2, Parts DEF ReconnectInv
<1>4. m_suspend_send' \in BOOLEAN
  BY <1>2, Zenon
<1>5. \A s \in posted \ {t} : s.kind # "suspend"
  BY Parts DEF ReconnectInv, AtMostOne
<1>6. CASE ~LoopIdle
  <2>1. posted' = posted \ {t} /\ nextId' = nextId
    BY <1>6 DEF Run
  <2>2. /\ NoTask("write")' = NoTask("write") /\ NoTask("reconnect")' /\ NoTask("suspend")'
    BY <1>3, <1>5, <2>1 DEF NoTask
  <2>3. ReconnectInv'
    BY <1>2, <1>3, <2>2, Parts DEF ReconnectInv, AtMostOne, NoTask
  <2>4. SendTypeOK' /\ LoopTypeOK' /\ WorkTypeOK'
    BY <1>2, <1>4, <2>1, Parts DEF SendInv, SendTypeOK, LoopTypeOK, WorkTypeOK, loopVars
  <2>5. OneWrite' /\ BufferAlive' /\ AuthFirst' /\ AtMostOnce'
    BY <1>2, <2>1, <2>2, Parts
    DEF SendInv, OneWrite, BufferAlive, AuthFirst, AtMostOnce, AtMostOne, loopVars
  <2>6. LoopInv' /\ IdleInv' /\ AuthInv'
    BY <1>2, <1>3, <2>2, Parts DEF SendInv, LoopInv, LoopActive, IdleInv, AuthInv, loopVars
  <2>7. IdInv'
    BY <1>2, <2>1, <2>2, Parts
    DEF SendInv, IdInv, TaskIdInv, QueueIdInv, HistoryIdInv, loopVars
  <2> QED
    BY <1>1, <2>3, <2>4, <2>5, <2>6, <2>7 DEF IInv, TypeOK
<1>7. CASE LoopIdle
  <2> DEFINE new == [id |-> nextId, kind |-> "reconnect", text |-> NoText]
  <2>1. posted' = (posted \ {t}) \union {new} /\ nextId' = nextId + 1
    BY <1>7 DEF RunAndPost
  <2>2. ~timer /\ NoTask("write") /\ inflight = <<>> /\ ~m_send_queue_busy
    BY <1>7, Parts DEF LoopIdle, SendInv, LoopInv, LoopActive
  <2>3. NoTask("write")' /\ NoTask("suspend")' /\ AtMostOne("reconnect")'
    BY <1>3, <1>5, <2>1, <2>2 DEF NoTask, AtMostOne
  <2>4. ReconnectInv'
    BY <1>2, <1>3, <2>3, Parts DEF ReconnectInv, AtMostOne, NoTask
  <2>5. SendTypeOK' /\ LoopTypeOK'
    BY <1>2, <1>4, Parts DEF SendInv, SendTypeOK, LoopTypeOK, loopVars
  <2>6. WorkTypeOK'
    BY <2>1, Parts DEF SendInv, WorkTypeOK, Task
  <2>7. OneWrite' /\ BufferAlive' /\ AuthFirst' /\ AtMostOnce'
    BY <1>2, <2>2, <2>3, Parts
    DEF SendInv, OneWrite, BufferAlive, AuthFirst, AtMostOnce, AtMostOne, NoTask, loopVars
  <2>8. LoopInv' /\ IdleInv' /\ AuthInv'
    BY <1>2, <1>3, <2>2, <2>3, Parts DEF SendInv, LoopInv, LoopActive, IdleInv, AuthInv, loopVars
  <2>9. TaskIdInv' /\ QueueIdInv' /\ HistoryIdInv'
    <3>1. /\ TaskIdInv /\ QueueIdInv /\ HistoryIdInv /\ nextId \in Nat /\ posted \subseteq Task
          /\ m_send_queue \in Seq(Message) /\ wire \in Seq(Written) /\ past \subseteq Nat
      BY Parts DEF SendInv, IdInv, WorkTypeOK, SendTypeOK, LoopTypeOK
    <3>2. /\ \A i \in 1..Len(m_send_queue) : m_send_queue[i].id \in Nat
          /\ \A i \in 1..Len(wire) : wire[i].id \in Nat
      BY <3>1, MessageIds, WrittenIds
    <3>3. \A s \in posted : s.id \in Nat /\ s.id < nextId
      BY <3>1 DEF TaskIdInv, Task
    <3>4. HistoryIdInv'
      BY <1>2, <2>1, <3>1, <3>2 DEF HistoryIdInv, loopVars
    <3>5. QueueIdInv'
      BY <1>2, <2>1, <2>2, <2>3, <3>1, <3>2 DEF QueueIdInv, loopVars
    <3>6. ASSUME NEW u \in posted'
          PROVE  /\ u.id < nextId' /\ u.id \notin past
                 /\ \A s \in posted' : s.id = u.id => s = u
                 /\ \A i \in 1..Len(m_send_queue) : m_send_queue[i].id # u.id
                 /\ \A i \in 1..Len(wire) : wire[i].id # u.id
      <4>1. CASE u \in posted
        BY <2>1, <3>1, <3>3, <4>1 DEF TaskIdInv
      <4>2. CASE u = new
        <5>1. u.id = nextId
          BY <4>2
        <5>2. /\ nextId \notin past
              /\ \A i \in 1..Len(m_send_queue) : m_send_queue[i].id # nextId
              /\ \A i \in 1..Len(wire) : wire[i].id # nextId
          BY <3>1 DEF QueueIdInv, HistoryIdInv
        <5> QED
          BY <2>1, <3>1, <3>3, <4>2, <5>1, <5>2
      <4> QED
        BY <2>1, <4>1, <4>2
    <3>7. TaskIdInv'
      BY <1>2, <3>6 DEF TaskIdInv, loopVars
    <3> QED
      BY <3>4, <3>5, <3>7
  <2> QED
    BY <1>1, <2>4, <2>5, <2>6, <2>7, <2>8, <2>9 DEF IInv, TypeOK, IdInv
<1> QED
  BY <1>6, <1>7

LEMMA ReconnectHandlerInv ==
    ASSUME IInv, NEW t \in posted, ReconnectHandler(t)
    PROVE  IInv'
<1> USE DEF ReconnectHandler, Run, readVars, clockVars, QueueAfterReconnect
<1>0. ~NoTask("reconnect")
  BY DEF NoTask
<1>1. m_suspend_send /\ m_suspend_read /\ NoTask("suspend") /\ stage = "up"
  BY <1>0, Parts DEF ReconnectInv
<1>2. ~timer /\ NoTask("write") /\ inflight = <<>>
  BY <1>0, Parts DEF SendInv, LoopInv, LoopActive
<1>3. NoTask("reconnect")' /\ NoTask("write")' /\ NoTask("suspend")'
  BY <1>1, <1>2, Parts DEF ReconnectInv, AtMostOne, NoTask
<1>4. ConnTypeOK' /\ ReadTypeOK' /\ ClockTypeOK'
  BY Parts DEF ConnTypeOK, ReadTypeOK, ClockTypeOK
<1>5. ReconnectInv'
  BY <1>1, <1>3, Parts DEF ReconnectInv, AtMostOne, NoTask
<1>6. wire \in Seq(Written) /\ past \subseteq Nat /\ \A i \in 1..Len(wire) : wire[i].id \in Nat
  BY Parts, WrittenIds DEF SendInv, LoopTypeOK, SendTypeOK
<1>7. past' = past \union {wire[i].id : i \in 1..Len(wire)}
  BY DEF Ids
<1>8. /\ wire' = <<>> /\ m_send_queue' = <<>> /\ m_send_queue_busy' = FALSE
      /\ stage' = "resolving" /\ posted' = posted \ {t}
      /\ UNCHANGED <<m_last_message_sendt, timer, inflight, m_suspend_send, nextId>>
  OBVIOUS
<1>9. SendTypeOK'
  <2>1. m_send_queue_busy' \in BOOLEAN
    BY <1>8, Zenon
  <2>2. m_send_queue' \in Seq(Message)
    BY <1>8
  <2>3. past' \subseteq Nat
    BY <1>6, <1>7
  <2> QED
    BY <1>8, <2>1, <2>2, <2>3, Parts DEF SendInv, SendTypeOK
<1>10. LoopTypeOK' /\ WorkTypeOK'
  <2>1. wire' \in Seq(Written)
    BY <1>8
  <2> QED
    BY <1>8, <2>1, Parts DEF SendInv, LoopTypeOK, WorkTypeOK
<1>11. OneWrite' /\ BufferAlive' /\ AuthFirst' /\ AtMostOnce'
  BY <1>2, <1>3, <1>8 DEF OneWrite, BufferAlive, AuthFirst, AtMostOnce, AtMostOne, NoTask
<1>12. LoopInv' /\ IdleInv' /\ AuthInv'
  BY <1>1, <1>2, <1>3, <1>8 DEF LoopInv, LoopActive, IdleInv, AuthInv
<1>13. TaskIdInv' /\ QueueIdInv' /\ HistoryIdInv'
  <2>1. TaskIdInv /\ HistoryIdInv
    BY Parts DEF SendInv, IdInv
  <2>2. \A s \in posted : s.id \notin past'
    BY <1>7, <2>1 DEF TaskIdInv
  <2>3. \A id \in past' : id < nextId
    BY <1>7, <2>1 DEF HistoryIdInv
  <2> QED
    BY <1>8, <2>1, <2>2, <2>3 DEF TaskIdInv, QueueIdInv, HistoryIdInv
<1> QED
  BY <1>4, <1>5, <1>9, <1>10, <1>11, <1>12, <1>13 DEF IInv, TypeOK, IdInv

LEMMA ChannelCount == ASSUME IInv PROVE Cardinality(m_channels) \in Nat
<1>1. IsFiniteSet(AllChannels)
  BY ChannelsAssumption, FS_AddElement DEF AllChannels
<1>2. m_channels \subseteq AllChannels
  BY Parts DEF ReadTypeOK
<1> QED
  BY <1>1, <1>2, FS_Subset, FS_CardinalityType

\* The concatenation of two sequences is one, and as long as both.
LEMMA Concatenation ==
    ASSUME NEW S, NEW s \in Seq(S), NEW t \in Seq(S)
    PROVE  s \o t \in Seq(S) /\ Len(s \o t) = Len(s) + Len(t)
  OBVIOUS

\* A login is not what anybody posts.
LEMMA NotLogin ==
    /\ NoText \notin {Pass, Nick} /\ Pong \notin {Pass, Nick} /\ Nick # Pass
    /\ \A what : Say(what) \notin {Pass, Nick} /\ Join(what) \notin {Pass, Nick}
BY DEF NoText, Pong, Say, Join, Pass, Nick, Cmd

\* What onHandshake posts are texts.
LEMMA JoinTexts ==
    ASSUME IInv, NEW n \in Nat, NEW order \in [1..n -> m_channels]
    PROVE  \A i \in 1..(2 + n) :
             (<<Join(OwnChannel), Say(Greeting)>> \o [j \in 1..n |-> Join(order[j])])[i] \in Texts \ {Pass, Nick}
<1> DEFINE P == Texts \ {Pass, Nick}
           first == <<Join(OwnChannel), Say(Greeting)>>
           joins == [j \in 1..n |-> Join(order[j])]
<1>1. m_channels \subseteq AllChannels
  BY Parts DEF ReadTypeOK
<1>2. Join(OwnChannel) \in P /\ Say(Greeting) \in P
  BY NotLogin DEF Texts, AllChannels
<1>3. \A j \in 1..n : Join(order[j]) \in P
  BY <1>1, NotLogin DEF Texts
<1>4. first \in Seq(P) /\ Len(first) = 2
  BY <1>2
<1>5. joins \in Seq(P) /\ Len(joins) = n
  <2>1. joins \in [1..n -> P]
    BY <1>3
  <2> HIDE DEF joins
  <2> QED
    BY <2>1
<1> HIDE DEF first, joins
<1>6. first \o joins \in Seq(P) /\ Len(first \o joins) = 2 + n
  <2>1. first \in Seq(P) /\ joins \in Seq(P)
    BY <1>4, <1>5
  <2>2. first \o joins \in Seq(P) /\ Len(first \o joins) = Len(first) + Len(joins)
    BY <2>1, Concatenation, Zenon
  <2> QED
    BY <1>4, <1>5, <2>2, Zenon
<1>7. \A i \in 1..(2 + n) : (first \o joins)[i] \in P
  BY <1>6
<1> QED
  BY <1>7 DEF first, joins

LEMMA OnHandshakeInv == ASSUME IInv, OnHandshake PROVE IInv'
<1> USE DEF OnHandshake, loopVars, clockVars
<1> DEFINE n == Cardinality(m_channels)
           pass == [id |-> nextId, text |-> Pass]
           nick == [id |-> nextId + 1, text |-> Nick]
<1>0. n \in Nat
  BY ChannelCount
<1>1. /\ stage' = "up" /\ m_suspend_read' = FALSE /\ m_suspend_send' = FALSE /\ reading' = TRUE
      /\ ~consuming
      /\ m_send_queue' = m_send_queue \o <<pass, nick>>
      /\ UNCHANGED <<conn, link, consuming, m_msg_pre_buffer, m_channels, inputs, queries,
                     loopVars, m_send_queue_busy, past, clockVars>>
  OBVIOUS
<1>2. /\ m_suspend_read /\ m_suspend_send /\ ~m_send_queue_busy /\ m_send_queue = <<>>
      /\ wire = <<>> /\ NoTask("suspend") /\ NoTask("reconnect") /\ NoTask("write")
      /\ ~timer /\ inflight = <<>>
  BY Parts DEF SendInv, IdleInv, ReconnectInv, LoopInv, LoopActive
<1>3. PICK order \in Bijection(1..n, m_channels) :
        LET texts == <<Join(OwnChannel), Say(Greeting)>> \o [i \in 1..n |-> Join(order[i])]
        IN  /\ posted' = posted \union
                 {[id |-> nextId + 1 + i, kind |-> "send", text |-> texts[i]] : i \in 1..(2 + n)}
            /\ nextId' = nextId + 4 + n
  OBVIOUS
<1> DEFINE texts == <<Join(OwnChannel), Say(Greeting)>> \o [i \in 1..n |-> Join(order[i])]
           task(i) == [id |-> nextId + 1 + i, kind |-> "send", text |-> texts[i]]
<1>4. \A i \in 1..(2 + n) : texts[i] \in Texts
  <2>1. order \in [1..n -> m_channels]
    BY DEF Bijection, Injection
  <2> QED
    BY <1>0, <2>1, JoinTexts
<1> HIDE DEF texts
<1>5. posted' = posted \union {task(i) : i \in 1..(2 + n)} /\ nextId' = nextId + 4 + n
  BY <1>3 DEF texts
<1>6. \A t \in posted' : t \in posted \/ \E i \in 1..(2 + n) : t = task(i)
  BY <1>5
<1>7. NoTask("write")' /\ NoTask("suspend")' /\ NoTask("reconnect")'
  BY <1>2, <1>6 DEF NoTask
<1>8. nextId \in Nat /\ posted \subseteq Task
  BY Parts DEF SendInv, WorkTypeOK
<1>9. pass \in Message /\ nick \in Message
  BY <1>8 DEF Message, Texts
<1>10. /\ m_send_queue' \in Seq(Message) /\ Len(m_send_queue') = 2
       /\ m_send_queue'[1] = pass /\ m_send_queue'[2] = nick
  BY <1>1, <1>2, <1>9
<1>11. ConnTypeOK' /\ ClockTypeOK'
  BY <1>1, Parts DEF ConnTypeOK, ClockTypeOK
<1>12. ReadTypeOK'
  <2>1. m_suspend_read' \in BOOLEAN /\ reading' \in BOOLEAN
    BY <1>1, Zenon
  <2> QED
    BY <1>1, <2>1, Parts DEF ReadTypeOK
<1>13. ReconnectInv'
  <2>1. AtMostOne("suspend")' /\ AtMostOne("reconnect")'
    BY <1>7 DEF AtMostOne, NoTask
  <2>2. (\A i, j \in 1..Len(m_msg_pre_buffer) :
           IsReconnect(m_msg_pre_buffer[i]) /\ IsReconnect(m_msg_pre_buffer[j]) => i = j)'
    BY <1>1, Parts DEF ReconnectInv
  <2> QED
    BY <1>1, <1>7, <2>1, <2>2 DEF ReconnectInv
<1>14. SendTypeOK' /\ LoopTypeOK'
  <2>1. m_suspend_send' \in BOOLEAN
    BY <1>1, Zenon
  <2> QED
    BY <1>1, <1>10, <2>1, Parts DEF SendInv, SendTypeOK, LoopTypeOK
<1>15. WorkTypeOK'
  <2>1. \A i \in 1..(2 + n) : task(i) \in Task
    BY <1>0, <1>4, <1>8 DEF Task
  <2> HIDE DEF task, n
  <2>2. posted' \subseteq Task
    BY <1>5, <1>8, <2>1
  <2>3. nextId' \in Nat
    BY <1>0, <1>5, <1>8
  <2> QED
    BY <2>2, <2>3 DEF WorkTypeOK
<1>16. OneWrite' /\ BufferAlive' /\ AuthFirst' /\ AtMostOnce'
  BY <1>1, <1>2, <1>7 DEF OneWrite, BufferAlive, AuthFirst, AtMostOnce, AtMostOne, NoTask
<1>17. LoopInv' /\ IdleInv' /\ AuthInv'
  BY <1>1, <1>2, <1>7, <1>10 DEF LoopInv, LoopActive, IdleInv, AuthInv
<1>18. TaskIdInv /\ HistoryIdInv /\ past \subseteq Nat
  BY Parts DEF SendInv, IdInv, SendTypeOK
<1>19. /\ \A i \in 1..(2 + n) : task(i).id = nextId + 1 + i
       /\ \A s \in posted : s.id \in Nat /\ s.id < nextId
       /\ \A i \in 1..(2 + n) : \A j \in 1..(2 + n) : task(i).id = task(j).id => i = j
  <2>1. \A i \in 1..(2 + n) : task(i).id = nextId + 1 + i
    OBVIOUS
  <2>2. \A s \in posted : s.id \in Nat /\ s.id < nextId
    BY <1>8, <1>18 DEF TaskIdInv, Task
  <2> HIDE DEF task, n
  <2> QED
    BY <1>0, <1>8, <2>1, <2>2
<1> HIDE DEF task, n
<1>20. HistoryIdInv'
  BY <1>0, <1>1, <1>2, <1>5, <1>8, <1>18 DEF HistoryIdInv
<1>21. QueueIdInv'
  <2>1. \A i \in 1..Len(m_send_queue') :
          (i = 1 /\ m_send_queue'[i].id = nextId) \/ (i = 2 /\ m_send_queue'[i].id = nextId + 1)
    BY <1>10
  <2>2. nextId \notin past /\ nextId + 1 \notin past
    BY <1>8, <1>18 DEF HistoryIdInv
  <2>3. nextId < nextId' /\ nextId + 1 < nextId'
    BY <1>0, <1>5, <1>8
  <2> QED
    BY <1>1, <1>2, <1>8, <2>1, <2>2, <2>3 DEF QueueIdInv
<1>22. TaskIdInv'
  <2> SUFFICES ASSUME NEW t \in posted'
               PROVE  /\ t.id < nextId' /\ t.id \notin past
                      /\ \A s \in posted' : s.id = t.id => s = t
                      /\ t.id # nextId /\ t.id # nextId + 1
    <3>1. \A i \in 1..Len(m_send_queue') :
             m_send_queue'[i].id = nextId \/ m_send_queue'[i].id = nextId + 1
      BY <1>10
    <3>2. 1..Len(wire') = {} /\ past' = past
      BY <1>1, <1>2
    <3> QED
      BY <3>1, <3>2 DEF TaskIdInv
  <2>1. ASSUME t \in posted
        PROVE  /\ t.id < nextId' /\ t.id \notin past
               /\ \A s \in posted' : s.id = t.id => s = t
               /\ t.id # nextId /\ t.id # nextId + 1
    <3>1. t.id \in Nat /\ t.id < nextId
      BY <1>19, <2>1
    <3>2. t.id < nextId' /\ t.id # nextId /\ t.id # nextId + 1
      BY <1>0, <1>5, <1>8, <3>1
    <3>3. t.id \notin past /\ \A s \in posted : s.id = t.id => s = t
      BY <1>18, <2>1 DEF TaskIdInv
    <3>4. \A i \in 1..(2 + n) : task(i).id # t.id
      BY <1>0, <1>8, <1>19, <3>1
    <3> QED
      BY <1>6, <3>2, <3>3, <3>4
  <2>2. ASSUME NEW i \in 1..(2 + n), t = task(i)
        PROVE  /\ t.id < nextId' /\ t.id \notin past
               /\ \A s \in posted' : s.id = t.id => s = t
               /\ t.id # nextId /\ t.id # nextId + 1
    <3>1. t.id = nextId + 1 + i
      BY <1>19, <2>2
    <3>2. t.id < nextId' /\ t.id # nextId /\ t.id # nextId + 1 /\ t.id >= nextId /\ t.id \in Nat
      BY <1>0, <1>5, <1>8, <3>1
    <3>3. t.id \notin past
      BY <1>8, <1>18, <3>2 DEF HistoryIdInv
    <3>4. ASSUME NEW s \in posted', s.id = t.id PROVE s = t
      <4>1. CASE s \in posted
        BY <1>8, <1>19, <3>2, <3>4, <4>1
      <4>2. CASE \E j \in 1..(2 + n) : s = task(j)
        BY <1>19, <2>2, <3>4, <4>2
      <4> QED
        BY <1>6, <4>1, <4>2
    <3> QED
      BY <3>2, <3>3, <3>4
  <2> QED
    BY <1>6, <2>1, <2>2
<1> QED
  BY <1>11, <1>12, <1>13, <1>14, <1>15, <1>16, <1>17, <1>20, <1>21, <1>22
  DEF IInv, TypeOK, IdInv

-----------------------------------------------------------------------------
(* The theorems *)

LEMMA QueryLostInv == ASSUME IInv, QueryLost PROVE IInv'
<1> USE DEF QueryLost, connVars, loopVars, sendVars, clockVars, workVars
<1>1. SendInv'
  BY SendSideUnchanged
<1>2. ReadTypeOK' /\ ConnTypeOK' /\ ClockTypeOK'
  BY Parts DEF ReadTypeOK, ConnTypeOK, ClockTypeOK
<1>3. ReconnectInv'
  BY ReconnectUnchanged, Parts
<1> QED
  BY <1>1, <1>2, <1>3 DEF IInv, TypeOK, SendInv

LEMMA NextInv == IInv /\ [Next]_vars => IInv'
<1> SUFFICES ASSUME IInv, [Next]_vars PROVE IInv'
  OBVIOUS
<1>1. ASSUME NEW t \in posted, RunTask(t) PROVE IInv'
  BY <1>1, PostedSendInv, SendHandlerInv, SuspendWriteHandlerInv, ReconnectHandlerInv
  DEF RunTask
<1>2. CASE WaitHandler \/ OnSendQueue
  BY <1>2, WaitHandlerInv, OnSendQueueInv
<1>3. CASE Connecting \/ ConnectFails
  BY <1>3, ConnectingInv, OnHandshakeInv DEF Connecting
<1>4. CASE OnRead \/ OnReadError \/ FinishRead
  BY <1>4, OnReadInv, OnReadErrorInv, FinishReadInv
<1>5. CASE ConsumeLine
  BY <1>5, ConsumeReplyInv, ConsumeQueryInv, ConsumeJoinPartInv, ConsumeReconnectInv,
     ConsumeShutdownInv, ConsumeThrowInv DEF ConsumeLine
<1>6. CASE QueryReply \/ QueryLost \/ StreamHandler \/ Tick
  BY <1>6, QueryReplyInv, QueryLostInv, StreamHandlerInv, TickInv
<1>7. CASE UNCHANGED vars
  <2> USE <1>7 DEF vars, connVars, readVars, loopVars, sendVars, clockVars, workVars
  <2>1. SendInv'
    BY SendSideUnchanged
  <2>2. ReadTypeOK' /\ ConnTypeOK' /\ ClockTypeOK'
    BY Parts DEF ReadTypeOK, ConnTypeOK, ClockTypeOK
  <2>3. ReconnectInv'
    BY ReconnectUnchanged, Parts
  <2> QED
    BY <2>1, <2>2, <2>3 DEF IInv, TypeOK, SendInv
<1> QED
  BY <1>1, <1>2, <1>3, <1>4, <1>5, <1>6, <1>7 DEF Next

\* IInv holds in every reachable state.
THEOREM Invariance == Spec => []IInv
  BY InitInv, NextInv, PTL DEF Spec

\* Every variable keeps its type.
THEOREM TypeCorrect == Spec => []TypeOK
<1>1. IInv => TypeOK
  BY DEF IInv
<1> QED
  BY Invariance, <1>1, PTL

\* Two writes are never outstanding on the stream, and the send loop runs once at a
\* time, whatever the threads do (doSendQueue and its callers).
THEOREM WritesDoNotOverlap == Spec => []OneWrite
<1>1. IInv => OneWrite
  BY DEF IInv
<1> QED
  BY Invariance, <1>1, PTL

\* The buffer of a write stays the front of m_send_queue while the write is
\* outstanding: reconnectHandler never empties the queue under it.
THEOREM BufferStaysAlive == Spec => []BufferAlive
<1>1. IInv => BufferAlive
  BY DEF IInv
<1> QED
  BY Invariance, <1>1, PTL

\* Every connection starts with PASS and NICK (onHandshake), before any message
\* that was posted before, during or after the reconnect.
THEOREM LoginComesFirst == Spec => []AuthFirst
<1>1. IInv => AuthFirst
  BY DEF IInv
<1> QED
  BY Invariance, <1>1, PTL

\* No message is written twice, be it after errors or across reconnects.
THEOREM NothingSentTwice == Spec => []AtMostOnce
<1>1. IInv => AtMostOnce
  BY DEF IInv
<1> QED
  BY Invariance, <1>1, PTL

\* As long as no read fails and no command throws, a connection that is up has a reader: a read is
\* outstanding, its lines are being handled, or the bot waits for the reconnect it was told of.
THEOREM KeepsListening ==
    ASSUME "read" \notin Faults, "THROW" \notin LineKinds
    PROVE  Spec => []NeverDeaf
<1>1. Init => NeverDeaf
  BY DEF Init, NeverDeaf
<1>2. IInv /\ NeverDeaf /\ [Next]_vars => NeverDeaf'
  <2> SUFFICES ASSUME IInv, NeverDeaf, [Next]_vars PROVE NeverDeaf'
    OBVIOUS
  <2> USE DEF NeverDeaf, connVars, readVars, loopVars, sendVars, clockVars, workVars
  <2>1. ASSUME UNCHANGED <<stage, link, reading, consuming, m_suspend_read>> PROVE NeverDeaf'
    BY <2>1
  <2>2. CASE \E t \in posted : RunTask(t)
    BY <2>2 DEF RunTask, PostedSend, SendHandler, SuspendWriteHandler, ReconnectHandler
  <2>3. CASE WaitHandler \/ OnSendQueue \/ QueryReply \/ QueryLost \/ StreamHandler \/ Tick
    BY <2>3 DEF WaitHandler, OnSendQueue, QueryReply, QueryLost, StreamHandler, Tick
  <2>4. CASE Connecting \/ ConnectFails
    BY <2>4 DEF Connecting, OnResolve, OnConnect, OnHandshake, ConnectFails
  <2>5. CASE OnRead \/ OnReadError \/ FinishRead
    BY <2>5 DEF OnRead, OnReadError, FinishRead, Rearm
  <2>6. CASE ConsumeLine
    <3>1. CASE ConsumeThrow
      <4>1. Head(m_msg_pre_buffer) \in Lines
        BY <3>1 DEF ConsumeThrow, Front, IInv, TypeOK, ReadTypeOK
      <4>2. \A line \in Lines : line.kind \in LineKinds
        BY DEF Lines, Line
      <4> QED BY <3>1, <4>1, <4>2 DEF ConsumeThrow, Front
    <3>2. CASE ConsumeShutdown
      BY <3>2 DEF ConsumeShutdown
    <3>3. CASE ConsumePing \/ ConsumeCommand \/ ConsumeQuery \/ ConsumeJoinPart \/ ConsumeReconnect
      BY <3>3 DEF ConsumePing, ConsumeCommand, ConsumeQuery, ConsumeJoinPart, ConsumeReconnect
    <3> QED BY <2>6, <3>1, <3>2, <3>3 DEF ConsumeLine
  <2>7. CASE UNCHANGED vars
    BY <2>7 DEF vars
  <2> QED BY <2>2, <2>3, <2>4, <2>5, <2>6, <2>7 DEF Next
<1> QED BY <1>1, <1>2, Invariance, PTL DEF Spec

=============================================================================
