--------------------------- MODULE IrcWriteProofs ---------------------------
(***************************************************************************)
(* Proofs about what IrcConnection writes and when, for any threads,       *)
(* channels, inputs and faults: no message repeats the one before it,      *)
(* writes keep the distance of the rate limit, one thread keeps the order  *)
(* of messages, and the suffix never gets onto the login.                  *)
(***************************************************************************)
EXTENDS IrcConnectionProofs

\* The steps that leave what was written alone.
NoWrite == UNCHANGED <<m_last_message_sendt, wire>>

LEMMA WireSteps ==
    ASSUME [Next]_vars
    PROVE  NoWrite \/ wire' = <<>> \/ \E queue, before : StartWrite(queue, before)
<1> USE DEF connVars, readVars, loopVars, sendVars, clockVars, workVars, NoWrite
<1>1. ASSUME NEW queue, NEW before, NEW since, DoSendQueue(queue, before, since)
      PROVE  NoWrite \/ StartWrite(queue, before)
  BY <1>1 DEF DoSendQueue
<1>2. ASSUME NEW t \in posted, PostedSend(t)
      PROVE  NoWrite \/ \E queue, before : StartWrite(queue, before)
  <2>1. CASE ~Refused /\ ~m_send_queue_busy
    <3>1. DoSendQueue(m_send_queue', inflight, since_sent)
      BY <1>2, <2>1 DEF PostedSend, StartLoop
    <3> QED BY <1>1, <3>1
  <2>2. CASE Refused \/ m_send_queue_busy
    BY <1>2, <2>2 DEF PostedSend
  <2> QED BY <2>1, <2>2
<1>3. ASSUME NEW t \in posted, SendHandler(t)
      PROVE  \E queue, before : StartWrite(queue, before)
  BY <1>3 DEF SendHandler
<1>4. ASSUME NEW t \in posted, SuspendWriteHandler(t) PROVE NoWrite
  BY <1>4 DEF SuspendWriteHandler
<1>5. ASSUME NEW t \in posted, ReconnectHandler(t) PROVE wire' = <<>>
  BY <1>5 DEF ReconnectHandler
<1>6. CASE WaitHandler
  BY <1>6 DEF WaitHandler
<1>7. CASE OnSendQueue
  <2>1. CASE OnSendQueueSuspended \/ OnSendQueueError
    BY <2>1 DEF OnSendQueueSuspended, OnSendQueueError
  <2>2. CASE OnSendQueueOk
    <3>1. NoWrite \/ DoSendQueue(m_send_queue', Tail(inflight), since_sent')
      BY <2>2 DEF OnSendQueueOk
    <3> QED BY <1>1, <3>1
  <2> QED BY <1>7, <2>1, <2>2 DEF OnSendQueue
<1>8. CASE Connecting \/ ConnectFails
  BY <1>8 DEF Connecting, OnResolve, OnConnect, OnHandshake, ConnectFails
<1>9. CASE OnRead \/ OnReadError \/ FinishRead
  BY <1>9 DEF OnRead, OnReadError, FinishRead
<1>10. CASE ConsumeLine
  BY <1>10 DEF ConsumeLine, ConsumePing, ConsumeCommand, ConsumeQuery, ConsumeJoinPart,
     ConsumeReconnect, ConsumeShutdown, ConsumeThrow
<1>11. CASE QueryReply \/ QueryLost \/ StreamHandler \/ Tick
  BY <1>11 DEF QueryReply, QueryLost, StreamHandler, Tick
<1>12. CASE UNCHANGED vars
  BY <1>12 DEF vars
<1> QED
  BY <1>2, <1>3, <1>4, <1>5, <1>6, <1>7, <1>8, <1>9, <1>10, <1>11, <1>12 DEF Next, RunTask

-----------------------------------------------------------------------------
(* Repetitions *)

\* m_last_message_sendt is what was written last on this connection.
LastInv ==
    /\ wire # <<>> => m_last_message_sendt = [text |-> wire[Len(wire)].text,
                                              pad |-> wire[Len(wire)].pad]
    /\ NoRepeat

LEMMA WriteKeepsLast ==
    ASSUME TypeOK, TypeOK', LastInv, NEW queue, NEW before, StartWrite(queue, before)
    PROVE  LastInv'
<1> DEFINE text == Head(queue).text
           pad == IsRepeat(text)
           out == [id |-> Head(queue).id, text |-> text, pad |-> pad]
<1>1. wire' = Append(wire, out) /\ m_last_message_sendt' = [text |-> text, pad |-> pad]
  BY DEF StartWrite
<1>2. out.text = text /\ out.pad = pad
  OBVIOUS
<1>3. pad = ([text |-> text, pad |-> FALSE] = m_last_message_sendt)
  BY DEF IsRepeat
<1> HIDE DEF out, pad, text
<1>4. wire \in Seq(Written \union {out}) /\ Len(wire) \in Nat
  BY DEF TypeOK, LoopTypeOK
<1>5. /\ Len(wire') = Len(wire) + 1 /\ wire'[Len(wire) + 1] = out
      /\ \A i \in 1..Len(wire) : wire'[i] = wire[i]
  BY <1>1, <1>4
<1>6. ASSUME wire # <<>> PROVE <<wire[Len(wire)].text, wire[Len(wire)].pad>> # <<text, pad>>
  <2>1. m_last_message_sendt = [text |-> wire[Len(wire)].text, pad |-> wire[Len(wire)].pad]
    BY <1>6 DEF LastInv
  <2>2. ASSUME wire[Len(wire)].text = text, wire[Len(wire)].pad = pad PROVE FALSE
    <3>1. m_last_message_sendt = [text |-> text, pad |-> pad]
      BY <2>1, <2>2
    <3>2. pad = ([text |-> text, pad |-> FALSE] = [text |-> text, pad |-> pad])
      BY <1>3, <3>1
    <3>3. pad = (pad = FALSE)
      BY <3>2
    <3> QED BY <3>3
  <2> QED BY <2>2
<1>7. NoRepeat'
  <2> SUFFICES ASSUME NEW i \in 1..(Len(wire') - 1)
               PROVE  <<wire'[i].text, wire'[i].pad>> # <<wire'[i + 1].text, wire'[i + 1].pad>>
    BY DEF NoRepeat
  <2>1. CASE i = Len(wire)
    BY <1>2, <1>4, <1>5, <1>6, <2>1
  <2>2. CASE i # Len(wire)
    <3>1. i \in 1..(Len(wire) - 1) /\ i \in 1..Len(wire) /\ i + 1 \in 1..Len(wire)
      BY <1>4, <1>5, <2>2
    <3> QED BY <1>5, <3>1 DEF LastInv, NoRepeat
  <2> QED BY <2>1, <2>2
<1>8. m_last_message_sendt' = [text |-> wire'[Len(wire')].text, pad |-> wire'[Len(wire')].pad]
  BY <1>1, <1>2, <1>5
<1> QED BY <1>7, <1>8 DEF LastInv

LEMMA LastInvHolds == Spec => []LastInv
<1>1. Init => LastInv
  BY DEF Init, LastInv, NoRepeat
<1>2. TypeOK /\ TypeOK' /\ LastInv /\ [Next]_vars => LastInv'
  <2> SUFFICES ASSUME TypeOK, TypeOK', LastInv, [Next]_vars PROVE LastInv'
    OBVIOUS
  <2>1. CASE NoWrite
    BY <2>1 DEF NoWrite, LastInv, NoRepeat
  <2>2. CASE wire' = <<>>
    <3>1. Len(wire') = 0
      BY <2>2
    <3> QED BY <2>2, <3>1 DEF LastInv, NoRepeat
  <2> QED BY <2>1, <2>2, WireSteps, WriteKeepsLast
<1> QED BY <1>1, <1>2, TypeCorrect, PTL DEF Spec

\* Two writes in a row on a connection never carry the same bytes: the suffix is set exactly when
\* the message is what was written last, also when that ends with the suffix.
THEOREM NothingRepeated == Spec => []NoRepeat
<1>1. LastInv => NoRepeat
  BY DEF LastInv
<1> QED BY <1>1, LastInvHolds, PTL

-----------------------------------------------------------------------------
(* The rate limit *)

\* A write that is due on a connection that has written is measured from the completion of the
\* last write, or earlier.
RateInv ==
    /\ ~NoTask("write") => since_sent = Gap
    /\ wire # <<>> /\ (timer \/ ~NoTask("write") \/ ~m_send_queue_busy) => quiet >= since_sent

\* The steps that neither start a write nor make one due.
Calm ==
    /\ UNCHANGED <<wire, timer, m_send_queue_busy, since_sent, quiet>>
    /\ NoTask("write") => NoTask("write")'

LEMMA PostIsCalm ==
    ASSUME NEW text, NEW kind \in {"send", "suspend", "reconnect"}, Post(kind, text), NoTask("write")
    PROVE  NoTask("write")'
BY DEF Post, NoTask

LEMMA CalmSteps ==
    ASSUME \/ OnResolve \/ OnConnect \/ ConnectFails
           \/ OnRead \/ OnReadError \/ ConsumeLine \/ FinishRead
           \/ QueryReply \/ QueryLost \/ StreamHandler \/ UNCHANGED vars
           \/ \E t \in posted : SuspendWriteHandler(t)
    PROVE  Calm
<1> USE DEF Calm, connVars, readVars, loopVars, sendVars, clockVars, workVars, NoTask
<1>1. CASE OnResolve \/ OnConnect \/ ConnectFails \/ OnRead \/ OnReadError \/ FinishRead
  BY <1>1 DEF OnResolve, OnConnect, ConnectFails, OnRead, OnReadError, FinishRead
<1>2. CASE ConsumeLine
  <2>1. CASE ConsumePing
    BY <2>1, PostIsCalm DEF ConsumePing
  <2>2. CASE ConsumeCommand
    BY <2>2, PostIsCalm DEF ConsumeCommand
  <2>3. CASE ConsumeReconnect
    BY <2>3, PostIsCalm DEF ConsumeReconnect
  <2>4. CASE ConsumeQuery \/ ConsumeJoinPart \/ ConsumeShutdown \/ ConsumeThrow
    BY <2>4 DEF ConsumeQuery, ConsumeJoinPart, ConsumeShutdown, ConsumeThrow
  <2> QED BY <1>2, <2>1, <2>2, <2>3, <2>4 DEF ConsumeLine
<1>3. CASE QueryReply
  BY <1>3, PostIsCalm DEF QueryReply
<1>4. CASE QueryLost \/ StreamHandler \/ UNCHANGED vars
  BY <1>4 DEF QueryLost, StreamHandler, vars
<1>5. ASSUME NEW t \in posted, SuspendWriteHandler(t) PROVE Calm
  <2>1. Run(t) \/ RunAndPost(t, "reconnect")
    BY <1>5 DEF SuspendWriteHandler
  <2>2. NoTask("write") => NoTask("write")'
    BY <2>1 DEF Run, RunAndPost
  <2> QED BY <1>5, <2>2 DEF SuspendWriteHandler
<1> QED BY <1>1, <1>2, <1>3, <1>4, <1>5

\* A step keeps RateInv, and writes on a connection that has written only after the distance.
Paced == RateInv' /\ (wire # <<>> /\ Len(wire') > Len(wire) => quiet >= Gap)

LEMMA PacedSteps ==
    ASSUME IInv, RateInv, [Next]_vars
    PROVE  Paced
<1> USE DEF connVars, readVars, loopVars, sendVars, clockVars, workVars
<1>1. /\ since_sent \in 0..Gap /\ quiet \in 0..Gap /\ Gap \in Nat
      /\ Len(wire) \in Nat /\ Len(inflight) \in Nat
  BY GapAssumption DEF IInv, TypeOK, ClockTypeOK, LoopTypeOK
<1>2. CASE Calm
  BY <1>1, <1>2 DEF Calm, Paced, RateInv, NoTask
<1>3. CASE Tick
  <2>1. UNCHANGED <<wire, timer, m_send_queue_busy, posted>>
    BY <1>3 DEF Tick
  <2>2. /\ since_sent' = IF since_sent < Gap THEN since_sent + 1 ELSE Gap
        /\ quiet' = IF quiet < Gap THEN quiet + 1 ELSE Gap
    BY <1>3 DEF Tick
  <2>3. /\ since_sent = Gap => since_sent' = Gap
        /\ quiet >= since_sent => quiet' >= since_sent'
    BY <1>1, <2>2
  <2> QED BY <1>1, <2>1, <2>3 DEF Paced, RateInv, NoTask
<1>4. ASSUME NEW t \in posted, PostedSend(t) PROVE Paced
  <2>1. /\ NoTask("write") => NoTask("write")'
        /\ UNCHANGED <<since_sent, quiet>>
    BY <1>4 DEF PostedSend, Run, NoTask
  <2>2. CASE ~Refused /\ ~m_send_queue_busy
    <3>1. NoTask("write") /\ ~timer
      BY <2>2 DEF IInv, LoopInv, LoopActive
    <3>2. CASE wire' = wire
      BY <1>1, <2>1, <2>2, <3>1, <3>2 DEF Paced, RateInv
    <3>3. CASE wire' # wire
      <4>1. since_sent >= Gap /\ timer' = timer /\ m_send_queue_busy' = TRUE
        BY <1>4, <2>2, <3>3 DEF PostedSend, StartLoop, DoSendQueue
      <4> QED BY <1>1, <2>1, <2>2, <3>1, <4>1 DEF Paced, RateInv
    <3> QED BY <3>2, <3>3
  <2>3. CASE Refused \/ m_send_queue_busy
    <3>1. UNCHANGED <<wire, timer, m_send_queue_busy>>
      BY <1>4, <2>3 DEF PostedSend
    <3> QED BY <1>1, <2>1, <3>1 DEF Paced, RateInv
  <2> QED BY <2>2, <2>3
<1>5. CASE WaitHandler
  <2>1. since_sent = Gap /\ timer /\ UNCHANGED <<wire, m_send_queue_busy, since_sent, quiet>>
    BY <1>5 DEF WaitHandler
  <2> QED BY <1>1, <2>1 DEF Paced, RateInv
<1>6. ASSUME NEW t \in posted, SendHandler(t) PROVE Paced
  <2>1. ~NoTask("write")
    BY <1>6 DEF SendHandler, NoTask
  <2>2. m_send_queue_busy /\ ~timer /\ AtMostOne("write")
    BY <2>1 DEF IInv, LoopInv, LoopActive, OneWrite
  <2>3. /\ NoTask("write")'
        /\ UNCHANGED <<timer, m_send_queue_busy, since_sent, quiet>>
    BY <1>6, <2>2 DEF SendHandler, Run, NoTask, AtMostOne
  <2> QED BY <1>1, <2>1, <2>2, <2>3 DEF Paced, RateInv
<1>7. ASSUME NEW t \in posted, ReconnectHandler(t) PROVE Paced
  <2>1. /\ wire' = <<>> /\ since_sent' = since_sent
        /\ NoTask("write") => NoTask("write")'
    BY <1>7 DEF ReconnectHandler, Run, NoTask
  <2>2. Len(wire') = 0
    BY <2>1
  <2> QED BY <1>1, <2>1, <2>2 DEF Paced, RateInv
<1>8. CASE OnHandshake
  <2>1. wire = <<>> /\ NoTask("write")
    BY <1>8 DEF OnHandshake, IInv, IdleInv, LoopInv, LoopActive
  <2>2. NoTask("write")' /\ wire' = wire
    <3>1. PICK texts : posted' = posted \union
            {[id |-> nextId + 1 + i, kind |-> "send", text |-> texts[i]]
               : i \in 1..(2 + Cardinality(m_channels))}
      BY <1>8 DEF OnHandshake
    <3>2. \A t \in posted' : t \in posted \/ t.kind = "send"
      BY <3>1
    <3>3. wire' = wire
      BY <1>8 DEF OnHandshake
    <3> QED BY <2>1, <3>2, <3>3 DEF NoTask
  <2> QED BY <1>1, <2>1, <2>2 DEF Paced, RateInv
<1>9. CASE OnSendQueue
  <2>1. m_send_queue_busy /\ NoTask("write") /\ ~timer
    BY <1>9 DEF OnSendQueue, IInv, LoopInv, LoopActive, OneWrite
  <2>2. CASE OnSendQueueSuspended
    <3>1. NoTask("write")' /\ UNCHANGED <<wire, timer, m_send_queue_busy>>
      BY <2>1, <2>2, PostIsCalm DEF OnSendQueueSuspended
    <3> QED BY <1>1, <2>1, <3>1 DEF Paced, RateInv
  <2>3. CASE OnSendQueueError
    <3>1. Calm
      BY <2>3 DEF OnSendQueueError, Calm, NoTask
    <3> QED BY <1>2, <3>1
  <2>4. CASE OnSendQueueOk
    <3>1. since_sent' = 0 /\ quiet' = 0 /\ NoTask("write")'
      BY <2>1, <2>4 DEF OnSendQueueOk, TimeOfSend, NoTask
    <3>2. wire' = wire \/ 0 >= Gap
      BY <2>4, <3>1 DEF OnSendQueueOk, DoSendQueue
    <3> QED BY <1>1, <3>1, <3>2 DEF Paced, RateInv
  <2> QED BY <1>9, <2>2, <2>3, <2>4 DEF OnSendQueue
<1> QED
  BY <1>2, <1>3, <1>4, <1>5, <1>6, <1>7, <1>8, <1>9, CalmSteps DEF Next, RunTask, Connecting

\* After the first write of a connection, a write starts only when the distance of the rate limit
\* has passed since the one before it completed, whichever of the three ways starts it.
THEOREM WritesKeepDistance == Spec => RateLimit
<1>1. Init => RateInv
  BY DEF Init, RateInv, NoTask
<1>2. IInv /\ RateInv /\ [Next]_vars => RateInv'
  BY PacedSteps DEF Paced
<1>3. IInv /\ RateInv /\ [Next]_vars =>
        [wire # <<>> /\ Len(wire') > Len(wire) => quiet >= Gap]_vars
  BY PacedSteps DEF Paced
<1> QED BY <1>1, <1>2, <1>3, Invariance, PTL DEF Spec, RateLimit


-----------------------------------------------------------------------------
(* The send side of a step *)

\* The front of the queue may be written now or by the next step of the loop.
Due == timer \/ ~NoTask("write") \/ ~m_send_queue_busy

\* Handlers come with ids of their own and without a login; the rest of the send side stays.
SendCalm ==
    /\ UNCHANGED <<m_send_queue, past>> /\ NoWrite
    /\ \A s \in posted' : s \in posted \/ (s.id >= nextId /\ s.text \notin {Pass, Nick})
    /\ Due' => Due

\* The loop goes on with a queue: it waits, or writes the front of it, and then nothing is due.
GoesOn(queue) ==
    /\ m_send_queue' = queue /\ past' = past
    /\ NoWrite \/ (StartWrite(queue, <<>>) /\ queue # <<>> /\ ~Due')

\* A posted message enters the queue; it is written at once only if the loop was idle.
Entered(t) ==
    /\ t.kind = "send" /\ Runnable(t) /\ posted' = posted \ {t}
    /\ GoesOn(Enqueue([id |-> t.id, text |-> t.text]))
    /\ Due' \/ ~NoWrite => Due

\* The wait for the rate limit is over.
Resumed(t) == posted' = posted \ {t} /\ Due /\ GoesOn(m_send_queue)

\* The message that was written leaves the queue.
Left == UNCHANGED posted /\ m_send_queue # <<>> /\ GoesOn(Tail(m_send_queue))

LEMMA NothingDue ==
    ASSUME IInv', NEW queue, StartWrite(queue, <<>>)
    PROVE  ~Due' /\ m_send_queue' # <<>> /\ NoTask("reconnect")'
<1>1. PICK out : inflight' = Append(<<>>, out)
  BY DEF StartWrite
<1>2. inflight' # <<>>
  <2>1. <<>> \in Seq({out})
    OBVIOUS
  <2>2. Len(Append(<<>>, out)) = 1
    BY <2>1
  <2> QED BY <1>1, <2>2
<1> QED BY <1>2 DEF IInv, OneWrite, LoopInv, LoopActive, Due

LEMMA PostedFresh ==
    ASSUME IInv, NEW text, NEW kind, kind # "write", Post(kind, text), text \notin {Pass, Nick},
           UNCHANGED <<m_send_queue, past, timer, m_send_queue_busy>>, NoWrite
    PROVE  SendCalm
<1>1. nextId \in Nat
  BY DEF IInv, TypeOK, WorkTypeOK
<1>2. \A s \in posted' : s \in posted \/ (s.id = nextId /\ s.text = text /\ s.kind = kind)
  BY DEF Post
<1>3. Due' => Due
  BY <1>2 DEF Due, NoTask
<1> QED BY <1>1, <1>2, <1>3 DEF SendCalm

\* What StartWrite appends.
LEMMA WriteAppends ==
    ASSUME wire \in Seq(Written), NEW queue, NEW before, StartWrite(queue, before)
    PROVE  \E pad \in BOOLEAN :
             LET out == [id |-> Head(queue).id, text |-> Head(queue).text, pad |-> pad]
             IN  /\ wire' = Append(wire, out) /\ inflight' = Append(before, out)
                 /\ Len(wire) \in Nat /\ Len(wire') = Len(wire) + 1
                 /\ wire'[Len(wire) + 1] = out
                 /\ \A i \in 1..Len(wire) : wire'[i] = wire[i]
                 /\ Ids(wire') = Ids(wire) \union {Head(queue).id}
<1> DEFINE pad == IsRepeat(Head(queue).text)
           out == [id |-> Head(queue).id, text |-> Head(queue).text, pad |-> pad]
<1>1. wire' = Append(wire, out) /\ inflight' = Append(before, out)
  BY DEF StartWrite
<1>2. pad \in BOOLEAN
  BY DEF IsRepeat
<1>3. out.id = Head(queue).id
  OBVIOUS
<1> HIDE DEF out
<1>4. wire \in Seq(Written \union {out}) /\ Len(wire) \in Nat
  OBVIOUS
<1>5. /\ Len(wire') = Len(wire) + 1 /\ wire'[Len(wire) + 1] = out
      /\ \A i \in 1..Len(wire) : wire'[i] = wire[i]
  BY <1>1, <1>4
<1>6. Ids(wire') = Ids(wire) \union {out.id}
  <2>1. 1..(Len(wire) + 1) = 1..Len(wire) \union {Len(wire) + 1}
    BY <1>4
  <2> QED BY <1>5, <2>1 DEF Ids
<1> HIDE DEF pad
<1> QED BY <1>1, <1>2, <1>3, <1>4, <1>5, <1>6 DEF out

LEMMA SendSteps ==
    ASSUME IInv, IInv', [Next]_vars
    PROVE  \/ SendCalm \/ Left \/ OnHandshake
           \/ \E t \in posted : Entered(t) \/ Resumed(t) \/ ReconnectHandler(t)
<1> USE DEF connVars, readVars, loopVars, sendVars, clockVars, workVars
<1>1. OneWrite /\ LoopInv /\ inflight \in Seq(Written)
  BY DEF IInv, TypeOK, LoopTypeOK
<1>2. ASSUME UNCHANGED <<posted, m_send_queue, past, timer, m_send_queue_busy>>, NoWrite
      PROVE  SendCalm
  BY <1>2 DEF SendCalm, Due, NoTask
<1>3. ASSUME NEW queue, NEW since, DoSendQueue(queue, <<>>, since)
      PROVE  NoWrite \/ (StartWrite(queue, <<>>) /\ m_send_queue' # <<>> /\ ~Due')
  BY <1>3, NothingDue DEF DoSendQueue, NoWrite
<1>4. ASSUME NEW t \in posted, PostedSend(t) PROVE SendCalm \/ Entered(t)
  <2>1. /\ posted' = posted \ {t} /\ t.kind = "send" /\ Runnable(t) /\ past' = past
        /\ NoTask("write")' = NoTask("write")
    BY <1>4 DEF PostedSend, Run, NoTask
  <2>2. CASE Refused
    BY <1>4, <2>1, <2>2 DEF PostedSend, SendCalm, NoWrite, Due, NoTask
  <2>3. CASE ~Refused /\ m_send_queue_busy
    <3>1. /\ NoWrite /\ m_send_queue' = Enqueue([id |-> t.id, text |-> t.text])
          /\ UNCHANGED <<timer, m_send_queue_busy>>
      BY <1>4, <2>3 DEF PostedSend, NoWrite
    <3> QED BY <2>1, <3>1 DEF Entered, GoesOn, Due
  <2>4. CASE ~Refused /\ ~m_send_queue_busy
    <3>1. /\ DoSendQueue(m_send_queue', <<>>, since_sent)
          /\ m_send_queue' = Enqueue([id |-> t.id, text |-> t.text])
      BY <1>1, <1>4, <2>4 DEF PostedSend, StartLoop, LoopInv, LoopActive
    <3> QED BY <1>3, <2>1, <2>4, <3>1 DEF Entered, GoesOn, Due
  <2> QED BY <2>2, <2>3, <2>4
<1>5. ASSUME NEW t \in posted, SendHandler(t) PROVE Resumed(t)
  <2>1. ~NoTask("write") /\ inflight = <<>>
    BY <1>1, <1>5 DEF SendHandler, NoTask, OneWrite
  <2>2. /\ posted' = posted \ {t} /\ StartWrite(m_send_queue, <<>>)
        /\ UNCHANGED <<m_send_queue, past>>
    BY <1>5, <2>1 DEF SendHandler, Run
  <2> QED BY <2>1, <2>2, NothingDue DEF Resumed, GoesOn, Due
<1>6. ASSUME NEW t \in posted, SuspendWriteHandler(t) PROVE SendCalm
  <2>1. Run(t) \/ RunAndPost(t, "reconnect")
    BY <1>6 DEF SuspendWriteHandler
  <2>2. /\ NoTask("write") => NoTask("write")'
        /\ \A s \in posted' : s \in posted \/ (s.id = nextId /\ s.text = NoText)
    BY <2>1 DEF Run, RunAndPost, NoTask
  <2>3. nextId \in Nat
    BY DEF IInv, TypeOK, WorkTypeOK
  <2> QED BY <1>6, <2>2, <2>3, NotLogin DEF SuspendWriteHandler, SendCalm, NoWrite, Due
<1>7. CASE WaitHandler
  <2>1. /\ timer /\ UNCHANGED <<m_send_queue, past>> /\ NoWrite
        /\ \A s \in posted' : s \in posted \/ (s.id = nextId /\ s.text = NoText)
    BY <1>7 DEF WaitHandler, Post, NoWrite
  <2>2. nextId \in Nat
    BY DEF IInv, TypeOK, WorkTypeOK
  <2> QED BY <2>1, <2>2, NotLogin DEF SendCalm, Due
<1>8. CASE OnSendQueue
  <2>1. Tail(inflight) = <<>> /\ m_send_queue # <<>>
    BY <1>1, <1>8, TailOfOne DEF OneWrite, OnSendQueue, LoopInv, LoopActive
  <2>2. CASE OnSendQueueSuspended
    BY <2>2, PostedFresh, NotLogin DEF OnSendQueueSuspended, NoWrite
  <2>3. CASE OnSendQueueError
    BY <1>2, <2>3 DEF OnSendQueueError, NoWrite
  <2>4. CASE OnSendQueueOk
    <3>1. NoWrite \/ (StartWrite(Tail(m_send_queue), <<>>) /\ m_send_queue' # <<>> /\ ~Due')
      <4>1. NoWrite \/ DoSendQueue(Tail(m_send_queue), <<>>, since_sent')
        BY <2>1, <2>4 DEF OnSendQueueOk, AfterSend, NoWrite
      <4> QED BY <1>3, <4>1
    <3> QED BY <2>1, <2>4, <3>1 DEF OnSendQueueOk, AfterSend, Left, GoesOn
  <2> QED BY <1>8, <2>2, <2>3, <2>4 DEF OnSendQueue
<1>9. CASE OnResolve \/ OnConnect \/ ConnectFails \/ OnRead \/ OnReadError \/ FinishRead
  BY <1>2, <1>9 DEF OnResolve, OnConnect, ConnectFails, OnRead, OnReadError, FinishRead, NoWrite
<1>10. CASE ConsumeLine
  <2>1. CASE ConsumePing
    BY <2>1, PostedFresh, NotLogin DEF ConsumePing, NoWrite
  <2>2. CASE ConsumeCommand
    BY <2>2, PostedFresh, NotLogin DEF ConsumeCommand, NoWrite
  <2>3. CASE ConsumeReconnect
    BY <2>3, PostedFresh, NotLogin DEF ConsumeReconnect, NoWrite
  <2>4. CASE ConsumeQuery \/ ConsumeJoinPart \/ ConsumeShutdown \/ ConsumeThrow
    BY <1>2, <2>4 DEF ConsumeQuery, ConsumeJoinPart, ConsumeShutdown, ConsumeThrow, NoWrite
  <2> QED BY <1>10, <2>1, <2>2, <2>3, <2>4 DEF ConsumeLine
<1>11. CASE QueryReply
  BY <1>11, PostedFresh, NotLogin DEF QueryReply, NoWrite
<1>12. CASE QueryLost \/ StreamHandler \/ Tick \/ UNCHANGED vars
  BY <1>2, <1>12 DEF QueryLost, StreamHandler, Tick, NoWrite, vars
<1> QED
  BY <1>4, <1>5, <1>6, <1>7, <1>8, <1>9, <1>10, <1>11, <1>12 DEF Next, RunTask, Connecting

\* A connection is ready: the queue is the login, and everything else is posted.
LEMMA HandshakeSteps ==
    ASSUME IInv, OnHandshake
    PROVE  /\ NoWrite /\ wire = <<>> /\ past' = past /\ stage' = "up" /\ m_suspend_send' = FALSE
           /\ Len(m_send_queue') = 2
           /\ m_send_queue'[1].text = Pass /\ m_send_queue'[2].text = Nick
           /\ \A s \in posted' : \/ s \in posted
                                 \/ /\ s.id >= nextId /\ s.text \notin {Pass, Nick}
                                    /\ s.kind = "send"
           /\ IsFiniteSet(posted) => IsFiniteSet(posted')
<1> DEFINE n == Cardinality(m_channels)
           pass == [id |-> nextId, text |-> Pass]
           nick == [id |-> nextId + 1, text |-> Nick]
<1>1. n \in Nat /\ nextId \in Nat
  BY ChannelCount DEF IInv, TypeOK, WorkTypeOK
<1>2. m_send_queue = <<>> /\ wire = <<>>
  BY DEF IInv, IdleInv, OnHandshake
<1>3. /\ NoWrite /\ past' = past /\ stage' = "up" /\ m_suspend_send' = FALSE
      /\ m_send_queue' = m_send_queue \o <<pass, nick>>
  BY DEF OnHandshake, NoWrite, loopVars
<1>4. /\ Len(m_send_queue') = 2
      /\ m_send_queue'[1].text = Pass /\ m_send_queue'[2].text = Nick
  <2>1. m_send_queue' = <<pass, nick>>
    BY <1>2, <1>3
  <2> QED BY <2>1
<1>5. PICK order \in Bijection(1..n, m_channels) :
        LET texts == <<Join(OwnChannel), Say(Greeting)>> \o [i \in 1..n |-> Join(order[i])]
        IN  posted' = posted \union
              {[id |-> nextId + 1 + i, kind |-> "send", text |-> texts[i]] : i \in 1..(2 + n)}
  BY DEF OnHandshake
<1> DEFINE texts == <<Join(OwnChannel), Say(Greeting)>> \o [i \in 1..n |-> Join(order[i])]
           f == [i \in 1..(2 + n) |-> [id |-> nextId + 1 + i, kind |-> "send", text |-> texts[i]]]
           new == {f[i] : i \in 1..(2 + n)}
<1>6. \A i \in 1..(2 + n) : texts[i] \in Texts \ {Pass, Nick}
  <2>1. order \in [1..n -> m_channels]
    BY DEF Bijection, Injection
  <2> QED BY <1>1, <2>1, JoinTexts
<1> HIDE DEF texts, n
<1>7. posted' = posted \union new
  BY <1>5 DEF texts
<1>8. \A s \in new : s.id >= nextId /\ s.text \notin {Pass, Nick} /\ s.kind = "send"
  BY <1>1, <1>6
<1>9. IsFiniteSet(new)
  <2>1. 1 \in Int /\ 2 + n \in Int
    BY <1>1
  <2>2. IsFiniteSet(1..(2 + n))
    BY <2>1, FS_Interval, Zenon
  <2>3. f \in Surjection(1..(2 + n), new)
    <3>1. f \in [1..(2 + n) -> new]
      OBVIOUS
    <3> HIDE DEF f
    <3> QED BY <3>1 DEF Surjection
  <2> HIDE DEF new, f
  <2> QED BY <2>2, <2>3, FS_Surjection
<1> HIDE DEF new
<1> QED BY <1>2, <1>3, <1>4, <1>7, <1>8, <1>9, FS_Union

\* Only finitely many handlers are posted.
LEMMA FinitelyPosted == Spec => []IsFiniteSet(posted)
<1> USE DEF connVars, readVars, loopVars, sendVars, clockVars, workVars
<1>1. Init => IsFiniteSet(posted)
  BY FS_EmptySet DEF Init
<1>2. IInv /\ IsFiniteSet(posted) /\ [Next]_vars => IsFiniteSet(posted)'
  <2> SUFFICES ASSUME IInv, IsFiniteSet(posted), [Next]_vars PROVE IsFiniteSet(posted')
    OBVIOUS
  <2>1. ASSUME NEW t, posted' = posted \union {t} \/ posted' = posted \/ \E s : posted' = (posted \ {s}) \union {t}
                        \/ posted' = posted \ {t}
        PROVE  IsFiniteSet(posted')
    <3>1. IsFiniteSet(posted \union {t})
      BY FS_AddElement
    <3>2. posted' \subseteq posted \union {t}
      BY <2>1
    <3> QED BY <3>1, <3>2, FS_Subset
  <2>2. CASE UNCHANGED posted
    BY <2>2
  <2>3. CASE \E t \in posted : RunTask(t)
    BY <2>1, <2>3 DEF RunTask, PostedSend, SendHandler, SuspendWriteHandler, ReconnectHandler,
       Run, RunAndPost
  <2>4. CASE WaitHandler \/ QueryReply \/ QueryLost \/ StreamHandler \/ Tick
    BY <2>1, <2>2, <2>4 DEF WaitHandler, QueryReply, QueryLost, StreamHandler, Tick, Post
  <2>5. CASE OnSendQueue
    BY <2>1, <2>2, <2>5 DEF OnSendQueue, OnSendQueueSuspended, OnSendQueueError, OnSendQueueOk, Post
  <2>6. CASE ConsumeLine
    BY <2>1, <2>2, <2>6 DEF ConsumeLine, ConsumePing, ConsumeCommand, ConsumeQuery,
       ConsumeJoinPart, ConsumeReconnect, ConsumeShutdown, ConsumeThrow, Post
  <2>7. CASE OnResolve \/ OnConnect \/ ConnectFails \/ OnRead \/ OnReadError \/ FinishRead
    BY <2>2, <2>7 DEF OnResolve, OnConnect, ConnectFails, OnRead, OnReadError, FinishRead
  <2>8. CASE OnHandshake
    BY <2>8, HandshakeSteps
  <2>9. CASE UNCHANGED vars
    BY <2>2, <2>9 DEF vars
  <2> QED BY <2>3, <2>4, <2>5, <2>6, <2>7, <2>8, <2>9 DEF Next, Connecting
<1> QED BY <1>1, <1>2, Invariance, PTL DEF Spec

-----------------------------------------------------------------------------
(* The login *)

\* PASS and NICK are the first two entries of a connection, written or queued, and nothing else
\* is a login.
LoginInv ==
    /\ \A t \in posted : t.text \notin {Pass, Nick}
    /\ \A i \in 1..Len(wire) : IsLogin(wire[i]) => i <= 2
    /\ \A i \in 1..Len(m_send_queue) : IsLogin(m_send_queue[i]) => Len(wire) + i <= 3
    /\ Due => \A i \in 1..Len(m_send_queue) : IsLogin(m_send_queue[i]) => Len(wire) + i <= 2

\* What GoesOn writes, if anything.
LEMMA WhatIsWritten ==
    ASSUME IInv, IInv', NEW queue, GoesOn(queue), ~NoWrite
    PROVE  /\ Len(wire) \in Nat /\ Len(wire') = Len(wire) + 1
           /\ 1 \in 1..Len(queue)
           /\ wire'[Len(wire) + 1].id = queue[1].id /\ wire'[Len(wire) + 1].text = queue[1].text
           /\ wire'[Len(wire) + 1].pad = IsRepeat(queue[1].text)
           /\ m_last_message_sendt' = [text |-> queue[1].text, pad |-> IsRepeat(queue[1].text)]
           /\ \A i \in 1..Len(wire) : wire'[i] = wire[i]
           /\ ~Due' /\ NoTask("reconnect")'
<1>1. /\ StartWrite(queue, <<>>) /\ queue # <<>> /\ queue \in Seq(Message)
      /\ wire \in Seq(Written) /\ ~Due' /\ NoTask("reconnect")'
  BY NothingDue DEF GoesOn, IInv, TypeOK, SendTypeOK, LoopTypeOK
<1>2. Head(queue) = queue[1] /\ 1 \in 1..Len(queue)
  BY <1>1
<1> DEFINE pad == IsRepeat(queue[1].text)
           out == [id |-> queue[1].id, text |-> queue[1].text, pad |-> pad]
<1>3. wire' = Append(wire, out) /\ m_last_message_sendt' = [text |-> queue[1].text, pad |-> pad]
  BY <1>1, <1>2 DEF StartWrite
<1>4. out.id = queue[1].id /\ out.text = queue[1].text /\ out.pad = pad
  OBVIOUS
<1> HIDE DEF out, pad
<1>5. /\ Len(wire) \in Nat /\ Len(wire') = Len(wire) + 1 /\ wire'[Len(wire) + 1] = out
      /\ \A i \in 1..Len(wire) : wire'[i] = wire[i]
  <2>1. wire \in Seq(Written \union {out})
    BY <1>1
  <2> QED BY <1>3, <2>1
<1> QED BY <1>1, <1>2, <1>3, <1>4, <1>5 DEF pad

LEMMA GoingOnKeepsLogin ==
    ASSUME IInv, IInv', LoginInv, NEW queue, GoesOn(queue), posted' \subseteq posted,
           \A i \in 1..Len(queue) : IsLogin(queue[i]) => Len(wire) + i <= 3,
           Due' \/ ~NoWrite => \A i \in 1..Len(queue) : IsLogin(queue[i]) => Len(wire) + i <= 2
    PROVE  LoginInv'
<1>1. m_send_queue' = queue /\ Len(queue) \in Nat /\ Len(wire) \in Nat
  BY DEF GoesOn, IInv, TypeOK, SendTypeOK, LoopTypeOK
<1>2. CASE NoWrite
  BY <1>1, <1>2 DEF NoWrite, LoginInv
<1>3. CASE ~NoWrite
  <2>1. /\ Len(wire') = Len(wire) + 1 /\ 1 \in 1..Len(queue)
        /\ wire'[Len(wire) + 1].text = queue[1].text
        /\ \A i \in 1..Len(wire) : wire'[i] = wire[i]
        /\ ~Due'
    BY <1>3, WhatIsWritten
  <2>2. ASSUME NEW i \in 1..Len(wire'), IsLogin(wire'[i]) PROVE i <= 2
    <3>1. CASE i = Len(wire) + 1
      BY <1>1, <1>3, <2>1, <2>2, <3>1 DEF IsLogin
    <3>2. CASE i # Len(wire) + 1
      <4>1. i \in 1..Len(wire)
        BY <1>1, <2>1, <3>2
      <4> QED BY <2>1, <2>2, <4>1 DEF LoginInv
    <3> QED BY <3>1, <3>2
  <2>3. ASSUME NEW i \in 1..Len(queue), IsLogin(queue[i]) PROVE Len(wire') + i <= 3
    <3>1. Len(wire) + i <= 2
      BY <1>3, <2>3
    <3> QED BY <1>1, <2>1, <3>1
  <2> QED BY <1>1, <2>1, <2>2, <2>3 DEF LoginInv
<1> QED BY <1>2, <1>3

LEMMA LoginStep ==
    ASSUME IInv, IInv', LoginInv, [Next]_vars
    PROVE  LoginInv'
<1>1. /\ m_send_queue \in Seq(Message) /\ Len(m_send_queue) \in Nat /\ Len(wire) \in Nat
      /\ posted \subseteq Task
  BY DEF IInv, TypeOK, SendTypeOK, LoopTypeOK, WorkTypeOK
<1>2. CASE SendCalm
  BY <1>2 DEF SendCalm, NoWrite, LoginInv
<1>3. CASE Left
  <2> DEFINE queue == Tail(m_send_queue)
  <2>1. GoesOn(queue) /\ posted' = posted /\ m_send_queue # <<>>
    BY <1>3 DEF Left
  <2>2. ASSUME NEW i \in 1..Len(queue), IsLogin(queue[i]) PROVE Len(wire) + i <= 2
    <3>1. i + 1 \in 1..Len(m_send_queue) /\ queue[i] = m_send_queue[i + 1] /\ i \in Nat
      BY <1>1, <2>1
    <3>2. Len(wire) + (i + 1) <= 3
      BY <2>2, <3>1 DEF LoginInv
    <3> QED BY <1>1, <3>1, <3>2
  <2>3. \A i \in 1..Len(queue) : IsLogin(queue[i]) => Len(wire) + i <= 3
    <3>1. \A i \in Nat : Len(wire) + i <= 2 => Len(wire) + i <= 3
      BY <1>1
    <3> QED BY <2>2, <3>1
  <2> HIDE DEF queue
  <2> QED BY <2>1, <2>2, <2>3, GoingOnKeepsLogin
<1>4. ASSUME NEW t \in posted, Entered(t) PROVE LoginInv'
  <2> DEFINE message == [id |-> t.id, text |-> t.text]
             queue == Enqueue(message)
  <2>1. GoesOn(queue) /\ posted' \subseteq posted /\ (Due' \/ ~NoWrite => Due)
    BY <1>4 DEF Entered
  <2>2. ~IsLogin(message)
    BY DEF IsLogin, LoginInv
  <2>3. message \in Message
    BY <1>1, <1>4 DEF Entered, Task, Message
  <2> HIDE DEF message
  <2>4. /\ Len(queue) = Len(m_send_queue) + 1
        /\ \A i \in 1..Len(m_send_queue) : queue[i] = m_send_queue[i]
        /\ queue[Len(m_send_queue) + 1] = message
    BY <1>1, <2>3 DEF Enqueue
  <2>5. \A i \in 1..Len(queue) : IsLogin(queue[i]) => i \in 1..Len(m_send_queue)
                                                      /\ IsLogin(m_send_queue[i])
    BY <1>1, <2>2, <2>4
  <2> HIDE DEF queue
  <2>6. /\ \A i \in 1..Len(queue) : IsLogin(queue[i]) => Len(wire) + i <= 3
        /\ Due => \A i \in 1..Len(queue) : IsLogin(queue[i]) => Len(wire) + i <= 2
    BY <2>5 DEF LoginInv
  <2> QED BY <2>1, <2>6, GoingOnKeepsLogin
<1>5. ASSUME NEW t \in posted, Resumed(t) PROVE LoginInv'
  <2>1. GoesOn(m_send_queue) /\ posted' \subseteq posted /\ Due
    BY <1>5 DEF Resumed
  <2> QED BY <2>1, GoingOnKeepsLogin DEF LoginInv
<1>6. ASSUME NEW t \in posted, ReconnectHandler(t) PROVE LoginInv'
  <2>1. /\ posted' \subseteq posted /\ wire' = <<>> /\ m_send_queue' = <<>>
    BY <1>6 DEF ReconnectHandler, Run, QueueAfterReconnect
  <2>2. Len(wire') = 0 /\ Len(m_send_queue') = 0
    BY <2>1
  <2> QED BY <2>1, <2>2 DEF LoginInv
<1>7. CASE OnHandshake
  <2>1. /\ wire = <<>> /\ wire' = wire /\ Len(m_send_queue') = 2
        /\ \A s \in posted' : s \in posted \/ s.text \notin {Pass, Nick}
    BY <1>7, HandshakeSteps DEF NoWrite
  <2>2. Len(wire') = 0
    BY <2>1
  <2> QED BY <2>1, <2>2 DEF LoginInv
<1> QED BY <1>2, <1>3, <1>4, <1>5, <1>6, <1>7, SendSteps

LEMMA LoginInvHolds == Spec => []LoginInv
<1>1. Init => LoginInv
  BY DEF Init, LoginInv
<1>2. IInv /\ IInv' /\ LoginInv /\ [Next]_vars => LoginInv'
  BY LoginStep
<1> QED BY <1>1, <1>2, Invariance, PTL DEF Spec

-----------------------------------------------------------------------------
(* The order of messages *)

\* Messages get into the queue, on the wire and into the past in the order of their ids, and
\* before anything that is still posted.  A login takes its ids when it enters the queue, ahead
\* of messages that were posted earlier; it is in the past only after a reconnect that was
\* posted later.
OrderInv ==
    /\ \A t \in posted :
         /\ \A i \in 1..Len(m_send_queue) :
              ~IsLogin(m_send_queue[i]) => m_send_queue[i].id < t.id
         /\ \A i \in 1..Len(wire) :
              ~IsLogin(wire[i]) \/ t.kind = "reconnect" => wire[i].id < t.id
         /\ \A id \in past : id < t.id
    /\ \A i, j \in 1..Len(m_send_queue) :
         i < j /\ ~IsLogin(m_send_queue[i]) /\ ~IsLogin(m_send_queue[j]) =>
            m_send_queue[i].id < m_send_queue[j].id
    /\ \A i \in 1..Len(wire), j \in 1..Len(m_send_queue) :
         ~IsLogin(wire[i]) /\ ~IsLogin(m_send_queue[j]) => wire[i].id <= m_send_queue[j].id
    /\ \A i, j \in 1..Len(wire) :
         i < j /\ ~IsLogin(wire[i]) /\ ~IsLogin(wire[j]) => wire[i].id < wire[j].id
    /\ \A id \in past :
         /\ \A i \in 1..Len(m_send_queue) : ~IsLogin(m_send_queue[i]) => id < m_send_queue[i].id
         /\ \A i \in 1..Len(wire) : ~IsLogin(wire[i]) => id < wire[i].id

\* OrderInv in parts, for any handlers, queue, entries and past.
Posteds(tasks, queue, out, old) ==
    \A t \in tasks :
        /\ \A i \in 1..Len(queue) : ~IsLogin(queue[i]) => queue[i].id < t.id
        /\ \A i \in 1..Len(out) : ~IsLogin(out[i]) \/ t.kind = "reconnect" => out[i].id < t.id
        /\ \A id \in old : id < t.id
Sorted(s) ==
    \A i, j \in 1..Len(s) : i < j /\ ~IsLogin(s[i]) /\ ~IsLogin(s[j]) => s[i].id < s[j].id
Follows(queue, out) ==
    \A i \in 1..Len(out), j \in 1..Len(queue) :
        ~IsLogin(out[i]) /\ ~IsLogin(queue[j]) => out[i].id <= queue[j].id
After(s, old) == \A id \in old : \A i \in 1..Len(s) : ~IsLogin(s[i]) => id < s[i].id

LEMMA OrderParts ==
    OrderInv <=> /\ Posteds(posted, m_send_queue, wire, past) /\ Follows(m_send_queue, wire)
                 /\ Sorted(m_send_queue) /\ Sorted(wire)
                 /\ After(m_send_queue, past) /\ After(wire, past)
BY DEF OrderInv, Posteds, Sorted, Follows, After

\* With one thread, the handler that runs is the oldest of those posted.
LEMMA OldestRuns ==
    ASSUME IInv, IsFiniteSet(posted), Workers = 1, NEW t \in posted, Runnable(t)
    PROVE  \A s \in posted \ {t} : t.id < s.id
<1> DEFINE older == {s \in posted : s.id < t.id}
<1>1. IsFiniteSet(older)
  BY FS_Subset
<1>2. Cardinality(older) < 1
  BY DEF Runnable
<1> HIDE DEF older
<1>3. Cardinality(older) \in Nat
  BY <1>1, FS_CardinalityType
<1>4. Cardinality(older) = 0
  BY <1>2, <1>3
<1>5. older = {}
  BY <1>1, <1>4, FS_EmptySet
<1>6. ASSUME NEW s \in posted \ {t} PROVE t.id < s.id
  <2>1. ~(s.id < t.id)
    BY <1>5 DEF older
  <2>2. s.id # t.id
    BY <1>6 DEF IInv, IdInv, TaskIdInv
  <2>3. s.id \in Nat /\ t.id \in Nat
    BY DEF IInv, TypeOK, WorkTypeOK, Task
  <2> QED BY <2>1, <2>2, <2>3
<1> QED BY <1>6

\* A write keeps the order: what is written at the front of the queue was not written before.
LEMMA WritingKeepsOrder ==
    ASSUME IInv, IInv', NEW queue, GoesOn(queue),
           Posteds(posted', queue, wire, past), Follows(queue, wire), Sorted(queue), Sorted(wire),
           After(queue, past), After(wire, past)
    PROVE  OrderInv'
<1>1. m_send_queue' = queue /\ past' = past
  BY DEF GoesOn
<1>2. CASE NoWrite
  <2>1. wire' = wire
    BY <1>2 DEF NoWrite
  <2> QED BY <1>1, <2>1, OrderParts DEF Posteds, Sorted, Follows, After, OrderInv, IsLogin
<1>3. CASE ~NoWrite
  <2>1. /\ Len(wire) \in Nat /\ Len(wire') = Len(wire) + 1 /\ 1 \in 1..Len(queue)
        /\ wire'[Len(wire) + 1].id = queue[1].id /\ wire'[Len(wire) + 1].text = queue[1].text
        /\ \A i \in 1..Len(wire) : wire'[i] = wire[i]
        /\ NoTask("reconnect")'
    BY <1>3, WhatIsWritten
  <2>2. \A i \in 1..Len(wire') : i \in 1..Len(wire) \/ i = Len(wire) + 1
    BY <2>1
  <2>3. /\ queue \in Seq(Message) /\ wire \in Seq(Written)
        /\ \A i \in 1..Len(queue) : queue[i].id \in Nat
        /\ \A i \in 1..Len(wire) : wire[i].id \in Nat
    <3>1. queue \in Seq(Message) /\ wire \in Seq(Written)
      BY <1>1 DEF IInv, TypeOK, SendTypeOK, LoopTypeOK
    <3> QED BY <3>1, MessageIds, WrittenIds
  <2>4. \A i \in 1..Len(wire) : wire[i].id # queue[1].id
    <3>1. AtMostOnce'
      BY DEF IInv
    <3>2. ASSUME NEW i \in 1..Len(wire), wire[i].id = queue[1].id PROVE FALSE
      <4>1. i \in 1..Len(wire') /\ Len(wire) + 1 \in 1..Len(wire') /\ i # Len(wire) + 1
        BY <2>1
      <4>2. wire'[i].id = wire'[Len(wire) + 1].id
        BY <2>1, <3>2
      <4> QED BY <3>1, <4>1, <4>2 DEF AtMostOnce
    <3> QED BY <3>2
  <2>5. IsLogin(wire'[Len(wire) + 1]) <=> IsLogin(queue[1])
    BY <2>1 DEF IsLogin
  <2>6. Posteds(posted', queue, wire', past)
    BY <2>1, <2>2, <2>5 DEF Posteds, NoTask
  <2>7. Follows(queue, wire')
    <3> SUFFICES ASSUME NEW i \in 1..Len(wire'), NEW j \in 1..Len(queue),
                        ~IsLogin(wire'[i]), ~IsLogin(queue[j])
                 PROVE  wire'[i].id <= queue[j].id
      BY DEF Follows
    <3>1. CASE i \in 1..Len(wire)
      BY <2>1, <3>1 DEF Follows
    <3>2. CASE i = Len(wire) + 1
      <4>1. CASE j = 1
        BY <2>1, <2>3, <3>2, <4>1
      <4>2. CASE j # 1
        <5>1. 1 < j
          BY <4>2
        <5>2. queue[1].id < queue[j].id
          BY <2>1, <2>5, <3>2, <5>1 DEF Sorted
        <5> QED BY <2>1, <2>3, <3>2, <5>2
      <4> QED BY <4>1, <4>2
    <3> QED BY <2>2, <3>1, <3>2
  <2>8. Sorted(wire')
    <3> SUFFICES ASSUME NEW i \in 1..Len(wire'), NEW j \in 1..Len(wire'), i < j,
                        ~IsLogin(wire'[i]), ~IsLogin(wire'[j])
                 PROVE  wire'[i].id < wire'[j].id
      BY DEF Sorted
    <3>1. i \in 1..Len(wire)
      BY <2>1, <2>2
    <3>2. CASE j \in 1..Len(wire)
      BY <2>1, <3>1, <3>2 DEF Sorted
    <3>3. CASE j = Len(wire) + 1
      <4>1. wire[i].id <= queue[1].id
        BY <2>1, <2>5, <3>1, <3>3 DEF Follows
      <4>2. wire[i].id # queue[1].id /\ wire[i].id \in Nat /\ queue[1].id \in Nat
        BY <2>1, <2>3, <2>4, <3>1
      <4> QED BY <2>1, <3>1, <3>3, <4>1, <4>2
    <3> QED BY <2>2, <3>2, <3>3
  <2>9. After(wire', past)
    BY <2>1, <2>2, <2>5 DEF After
  <2> QED BY <1>1, <2>6, <2>7, <2>8, <2>9, OrderParts
         DEF Posteds, Sorted, Follows, After, OrderInv, IsLogin
<1> QED BY <1>2, <1>3

LEMMA OrderStep ==
    ASSUME IInv, IInv', LoginInv, OrderInv, IsFiniteSet(posted), Workers = 1, [Next]_vars
    PROVE  OrderInv'
<1>1. /\ m_send_queue \in Seq(Message) /\ wire \in Seq(Written) /\ posted \subseteq Task
      /\ Len(m_send_queue) \in Nat /\ Len(wire) \in Nat /\ nextId \in Nat /\ past \subseteq Nat
  BY DEF IInv, TypeOK, SendTypeOK, LoopTypeOK, WorkTypeOK
<1>2. /\ Posteds(posted, m_send_queue, wire, past) /\ Follows(m_send_queue, wire)
      /\ Sorted(m_send_queue) /\ Sorted(wire) /\ After(m_send_queue, past) /\ After(wire, past)
  BY OrderParts
<1>3. /\ \A i \in 1..Len(m_send_queue) : m_send_queue[i].id \in Nat /\ m_send_queue[i].id < nextId
      /\ \A i \in 1..Len(wire) : wire[i].id \in Nat /\ wire[i].id < nextId
      /\ \A id \in past : id \in Nat /\ id < nextId
      /\ \A t \in posted : t.id \in Nat
  BY <1>1, MessageIds, WrittenIds DEF IInv, IdInv, QueueIdInv, HistoryIdInv, Task
<1>4. CASE Left
  <2> DEFINE queue == Tail(m_send_queue)
  <2>1. GoesOn(queue) /\ posted' = posted /\ m_send_queue # <<>>
    BY <1>4 DEF Left
  <2>2. \A i \in 1..Len(queue) : /\ i + 1 \in 1..Len(m_send_queue)
                                  /\ queue[i] = m_send_queue[i + 1]
    BY <1>1, <2>1
  <2>3. Len(queue) \in Nat
    BY <1>1, <2>1
  <2> HIDE DEF queue
  <2>4. Posteds(posted', queue, wire, past) /\ Follows(queue, wire) /\ After(queue, past)
    BY <1>2, <2>1, <2>2 DEF Posteds, Follows, After
  <2>5. Sorted(queue)
    <3> SUFFICES ASSUME NEW i \in 1..Len(queue), NEW j \in 1..Len(queue), i < j,
                        ~IsLogin(queue[i]), ~IsLogin(queue[j])
                 PROVE  queue[i].id < queue[j].id
      BY DEF Sorted
    <3>1. i + 1 < j + 1
      OBVIOUS
    <3> QED BY <1>2, <2>2, <3>1 DEF Sorted
  <2> QED BY <1>2, <2>1, <2>4, <2>5, WritingKeepsOrder
<1>5. CASE SendCalm
  <2>1. UNCHANGED <<m_send_queue, past, wire>>
    BY <1>5 DEF SendCalm, NoWrite
  <2>2. ASSUME NEW s \in posted' PROVE s \in posted \/ (s.id \in Nat /\ s.id >= nextId)
    BY <1>5 DEF SendCalm, IInv, TypeOK, WorkTypeOK, Task
  <2>3. Posteds(posted', m_send_queue, wire, past)
    <3> SUFFICES ASSUME NEW s \in posted', s.id \in Nat, s.id >= nextId
                 PROVE  /\ \A i \in 1..Len(m_send_queue) : m_send_queue[i].id < s.id
                        /\ \A i \in 1..Len(wire) : wire[i].id < s.id
                        /\ \A id \in past : id < s.id
      BY <1>2, <2>2 DEF Posteds
    <3> QED BY <1>1, <1>3
  <2> QED BY <1>2, <2>1, <2>3 DEF Posteds, Follows, Sorted, After, OrderInv, IsLogin
<1>6. ASSUME NEW t \in posted, Entered(t) PROVE OrderInv'
  <2> DEFINE message == [id |-> t.id, text |-> t.text]
             queue == Enqueue(message)
  <2>1. GoesOn(queue) /\ posted' = posted \ {t} /\ Runnable(t) /\ message \in Message
    BY <1>1, <1>6 DEF Entered, Task, Message
  <2>2. \A s \in posted' : s \in posted /\ t.id < s.id
    BY <2>1, OldestRuns
  <2>3. message.id = t.id
    OBVIOUS
  <2> HIDE DEF message
  <2>4. /\ Len(queue) = Len(m_send_queue) + 1
        /\ \A i \in 1..Len(m_send_queue) : queue[i] = m_send_queue[i]
        /\ queue[Len(m_send_queue) + 1].id = t.id
    BY <1>1, <2>1, <2>3 DEF Enqueue
  <2> HIDE DEF queue
  <2>5. \A i \in 1..Len(queue) : i \in 1..Len(m_send_queue) \/ i = Len(m_send_queue) + 1
    BY <1>1, <2>4
  <2>6. Posteds(posted', queue, wire, past)
    BY <1>2, <2>2, <2>4, <2>5 DEF Posteds
  <2>7. Follows(queue, wire)
    <3>1. \A i \in 1..Len(wire) : ~IsLogin(wire[i]) => wire[i].id <= t.id
      BY <1>2, <1>3 DEF Posteds
    <3> QED BY <1>2, <2>4, <2>5, <3>1 DEF Follows
  <2>8. Sorted(queue)
    <3> SUFFICES ASSUME NEW i \in 1..Len(queue), NEW j \in 1..Len(queue), i < j,
                        ~IsLogin(queue[i]), ~IsLogin(queue[j])
                 PROVE  queue[i].id < queue[j].id
      BY DEF Sorted
    <3>1. i \in 1..Len(m_send_queue)
      BY <1>1, <2>4
    <3> QED BY <1>2, <2>4, <2>5, <3>1 DEF Sorted, Posteds
  <2>9. After(queue, past)
    BY <1>2, <2>4, <2>5 DEF After, Posteds
  <2> QED BY <1>2, <2>1, <2>6, <2>7, <2>8, <2>9, WritingKeepsOrder
<1>7. ASSUME NEW t \in posted, Resumed(t) PROVE OrderInv'
  <2>1. GoesOn(m_send_queue) /\ posted' \subseteq posted
    BY <1>7 DEF Resumed
  <2>2. Posteds(posted', m_send_queue, wire, past)
    BY <1>2, <2>1 DEF Posteds
  <2> QED BY <1>2, <2>1, <2>2, WritingKeepsOrder
<1>8. ASSUME NEW t \in posted, ReconnectHandler(t) PROVE OrderInv'
  <2>1. /\ t.kind = "reconnect" /\ Runnable(t) /\ posted' = posted \ {t}
        /\ m_send_queue' = <<>> /\ wire' = <<>> /\ past' = past \union Ids(wire)
    BY <1>8 DEF ReconnectHandler, Run, QueueAfterReconnect
  <2>2. \A s \in posted' : s \in posted /\ t.id < s.id
    BY <2>1, OldestRuns
  <2>3. Len(wire') = 0 /\ Len(m_send_queue') = 0
    BY <2>1
  <2>4. \A i \in 1..Len(wire) : wire[i].id < t.id
    BY <1>2, <2>1 DEF Posteds
  <2>5. ASSUME NEW s \in posted', NEW id \in past' PROVE id < s.id
    <3>1. CASE id \in past
      BY <1>2, <2>2, <3>1 DEF Posteds
    <3>2. CASE id \in Ids(wire)
      <4>1. id < t.id /\ id \in Nat
        BY <1>3, <2>4, <3>2 DEF Ids
      <4> QED BY <1>3, <2>2, <4>1
    <3> QED BY <2>1, <3>1, <3>2
  <2> QED BY <2>3, <2>5 DEF OrderInv
<1>9. CASE OnHandshake
  <2>1. /\ wire' = <<>> /\ past' = past /\ Len(m_send_queue') = 2
        /\ m_send_queue'[1].text = Pass /\ m_send_queue'[2].text = Nick
        /\ \A s \in posted' : s \in posted \/ s.id >= nextId
    BY <1>9, HandshakeSteps DEF NoWrite
  <2>2. Len(wire') = 0 /\ \A i \in 1..Len(m_send_queue') : IsLogin(m_send_queue'[i])
    <3>1. \A i \in 1..2 : i = 1 \/ i = 2
      OBVIOUS
    <3> QED BY <2>1, <3>1 DEF IsLogin
  <2>3. ASSUME NEW s \in posted', NEW id \in past PROVE id < s.id
    <3>1. CASE s \in posted
      BY <1>2, <3>1 DEF Posteds
    <3>2. CASE s.id >= nextId
      <4>1. s.id \in Nat
        BY DEF IInv, TypeOK, WorkTypeOK, Task
      <4> QED BY <1>1, <1>3, <3>2, <4>1
    <3> QED BY <2>1, <3>1, <3>2
  <2> QED BY <2>1, <2>2, <2>3 DEF OrderInv, IsLogin
<1> QED BY <1>4, <1>5, <1>6, <1>7, <1>8, <1>9, SendSteps

\* With one worker thread the messages of a connection reach the wire in the order in which
\* their handlers were posted, and after everything written on the connections before it: a
\* reconnect, the rate limit and a busy loop never let a later message overtake an earlier one.
THEOREM OneThreadKeepsOrder == ASSUME Workers = 1 PROVE Spec => []InOrder
<1>1. Init => OrderInv
  <2>1. Len(<<>>) = 0
    OBVIOUS
  <2> QED BY <2>1 DEF Init, OrderInv
<1>2. /\ IInv /\ IInv' /\ LoginInv /\ OrderInv /\ IsFiniteSet(posted) /\ [Next]_vars
      => OrderInv'
  BY OrderStep
<1>3. IInv /\ LoginInv /\ OrderInv => InOrder
  <2> SUFFICES ASSUME IInv, LoginInv, OrderInv, NEW j \in 1..Len(wire), ~IsLogin(wire[j])
               PROVE  /\ \A i \in 3..(j - 1) : wire[i].id < wire[j].id
                      /\ \A id \in past : id < wire[j].id
    BY DEF InOrder
  <2>1. Len(wire) \in Nat
    BY DEF IInv, TypeOK, LoopTypeOK
  <2>2. \A i \in 3..(j - 1) : i \in 1..Len(wire) /\ i < j /\ ~(i <= 2)
    BY <2>1
  <2> QED BY <2>2 DEF LoginInv, OrderInv
<1> QED BY <1>1, <1>2, <1>3, Invariance, FinitelyPosted, LoginInvHolds, PTL DEF Spec

-----------------------------------------------------------------------------
(* The password *)

\* A reconnect is on its way: in the read buffer, posted, or waiting for the send loop.
Ending ==
    \/ \E i \in 1..Len(m_msg_pre_buffer) : IsReconnect(m_msg_pre_buffer[i])
    \/ ~NoTask("suspend")
    \/ m_suspend_send /\ stage = "up"

\* The server answers a login before it tells anybody to reconnect, so no connection ends before
\* its NICK is written, and the password is the last message only while it is the only one.
PatientInv ==
    /\ Ending => Len(wire) >= 2
    /\ m_last_message_sendt.text = Pass => Len(wire) = 1

\* Where a reconnect comes from: a line that arrives.
LEMMA EndingSteps ==
    ASSUME IInv, EarlyReconnect = FALSE, [Next]_vars
    PROVE  Ending' => Ending \/ Len(wire) >= 2
<1> USE DEF connVars, readVars, loopVars, sendVars, clockVars, workVars
<1>1. ASSUME UNCHANGED <<stage, m_msg_pre_buffer, m_suspend_send>>,
             NoTask("suspend") => NoTask("suspend")'
      PROVE  Ending' => Ending
  BY <1>1 DEF Ending
<1>2. ASSUME m_msg_pre_buffer # <<>>, Pop, UNCHANGED <<stage, m_suspend_send>>,
             NoTask("suspend") => NoTask("suspend")' \/ IsReconnect(Head(m_msg_pre_buffer))
      PROVE  Ending' => Ending
  <2>1. m_msg_pre_buffer \in Seq(Lines)
    BY DEF IInv, TypeOK, ReadTypeOK
  <2>2. /\ \A i \in 1..Len(m_msg_pre_buffer') :
             /\ i + 1 \in 1..Len(m_msg_pre_buffer)
             /\ m_msg_pre_buffer'[i] = m_msg_pre_buffer[i + 1]
        /\ 1 \in 1..Len(m_msg_pre_buffer) /\ Head(m_msg_pre_buffer) = m_msg_pre_buffer[1]
    BY <1>2, <2>1 DEF Pop
  <2> QED BY <1>2, <2>2 DEF Ending
<1>3. ASSUME NEW kind, NEW text, Post(kind, text), kind # "suspend"
      PROVE  NoTask("suspend") => NoTask("suspend")'
  BY <1>3 DEF Post, NoTask
<1>4. ASSUME NEW t \in posted, RunTask(t) PROVE Ending' => Ending
  <2>1. CASE PostedSend(t) \/ SendHandler(t)
    BY <1>1, <2>1 DEF PostedSend, SendHandler, Run, NoTask
  <2>2. CASE SuspendWriteHandler(t)
    BY <2>2 DEF SuspendWriteHandler, Ending, NoTask
  <2>3. CASE ReconnectHandler(t)
    BY <2>3 DEF ReconnectHandler, Ending, Run, NoTask
  <2> QED BY <1>4, <2>1, <2>2, <2>3 DEF RunTask
<1>5. CASE WaitHandler \/ QueryReply \/ QueryLost \/ StreamHandler \/ Tick \/ UNCHANGED vars
  BY <1>1, <1>3, <1>5 DEF WaitHandler, QueryReply, QueryLost, StreamHandler, Tick, vars, NoTask
<1>6. CASE OnSendQueue
  <2>1. UNCHANGED <<stage, m_msg_pre_buffer, m_suspend_send>>
    BY <1>6 DEF OnSendQueue, OnSendQueueSuspended, OnSendQueueError, OnSendQueueOk
  <2>2. Post("reconnect", NoText) \/ UNCHANGED posted
    BY <1>6 DEF OnSendQueue, OnSendQueueSuspended, OnSendQueueError, OnSendQueueOk
  <2> QED BY <1>1, <1>3, <2>1, <2>2 DEF NoTask
<1>7. CASE OnResolve \/ OnConnect \/ ConnectFails \/ OnReadError \/ FinishRead
  BY <1>7 DEF OnResolve, OnConnect, ConnectFails, OnReadError, FinishRead, Ending, NoTask
<1>8. CASE OnHandshake
  <2>1. \A s \in posted' : s \in posted \/ s.kind = "send"
    BY <1>8, HandshakeSteps
  <2>2. m_suspend_send' = FALSE /\ m_msg_pre_buffer' = m_msg_pre_buffer
    BY <1>8 DEF OnHandshake
  <2> QED BY <2>1, <2>2 DEF Ending, NoTask
<1>9. CASE OnRead
  <2>1. PICK chunk \in Chunks : m_msg_pre_buffer' = m_msg_pre_buffer \o chunk
    BY <1>9 DEF OnRead
  <2>2. PICK n \in 1..MaxChunk : chunk \in [1..n -> Lines]
    BY <2>1 DEF Chunks
  <2>3. chunk \in Seq(Lines) /\ DOMAIN chunk = 1..Len(chunk) /\ m_msg_pre_buffer \in Seq(Lines)
    BY <2>2, BoundsAssumption DEF IInv, TypeOK, ReadTypeOK
  <2>4. CASE \E i \in DOMAIN chunk : IsReconnect(chunk[i])
    BY <2>1, <2>4 DEF Chunks, MayReconnect
  <2>5. CASE \A i \in 1..Len(chunk) : ~IsReconnect(chunk[i])
    <3>1. \A i \in 1..Len(m_msg_pre_buffer') :
            \/ i \in 1..Len(m_msg_pre_buffer) /\ m_msg_pre_buffer'[i] = m_msg_pre_buffer[i]
            \/ \E j \in 1..Len(chunk) : m_msg_pre_buffer'[i] = chunk[j]
      <4> SUFFICES ASSUME NEW i \in 1..Len(m_msg_pre_buffer'), ~(i \in 1..Len(m_msg_pre_buffer))
                   PROVE  \E j \in 1..Len(chunk) : m_msg_pre_buffer'[i] = chunk[j]
        BY <2>1, <2>3
      <4>1. /\ i - Len(m_msg_pre_buffer) \in 1..Len(chunk)
            /\ m_msg_pre_buffer'[i] = chunk[i - Len(m_msg_pre_buffer)]
        BY <2>1, <2>3
      <4> QED BY <4>1
    <3>2. UNCHANGED <<stage, m_suspend_send, posted>>
      BY <1>9 DEF OnRead
    <3> QED BY <2>5, <3>1, <3>2 DEF Ending, NoTask
  <2> QED BY <2>3, <2>4, <2>5
<1>10. CASE ConsumeLine
  <2>1. CASE ConsumePing \/ ConsumeCommand
    BY <1>2, <1>3, <2>1 DEF ConsumePing, ConsumeCommand, Front
  <2>2. CASE ConsumeQuery \/ ConsumeJoinPart \/ ConsumeShutdown
    BY <1>2, <2>2 DEF ConsumeQuery, ConsumeJoinPart, ConsumeShutdown, Front, NoTask
  <2>3. CASE ConsumeReconnect
    BY <1>2, <2>3 DEF ConsumeReconnect, Front, IsReconnect
  <2>4. CASE ConsumeThrow
    BY <1>1, <2>4 DEF ConsumeThrow, NoTask
  <2> QED BY <1>10, <2>1, <2>2, <2>3, <2>4 DEF ConsumeLine
<1> QED BY <1>4, <1>5, <1>6, <1>7, <1>8, <1>9, <1>10 DEF Next, Connecting

\* What a step writes, if anything.
LEMMA WriteSteps ==
    ASSUME IInv, IInv', [Next]_vars
    PROVE  \/ NoWrite
           \/ \E t \in posted : ReconnectHandler(t)
           \/ \E queue : GoesOn(queue) /\ ~NoWrite
<1>1. SendCalm \/ OnHandshake => NoWrite
  BY HandshakeSteps DEF SendCalm
<1> QED BY <1>1, SendSteps DEF Left, Entered, Resumed

LEMMA PatientStep ==
    ASSUME IInv, IInv', LoginInv', EarlyReconnect = FALSE, PatientInv, [Next]_vars
    PROVE  PatientInv'
<1>1. wire \in Seq(Written) /\ Len(wire) \in Nat /\ Pass # Nick
  BY DEF IInv, TypeOK, LoopTypeOK, Pass, Nick, Cmd
<1>2. Ending' => Len(wire) >= 2
  BY EndingSteps DEF PatientInv
<1>3. CASE NoWrite
  BY <1>2, <1>3 DEF NoWrite, PatientInv
<1>4. ASSUME NEW queue, GoesOn(queue), ~NoWrite PROVE PatientInv'
  <2>1. /\ Len(wire') = Len(wire) + 1 /\ wire'[Len(wire) + 1].text = queue[1].text
        /\ m_last_message_sendt'.text = queue[1].text
    BY <1>4, WhatIsWritten
  <2>2. Ending' => Len(wire') >= 2
    BY <1>1, <1>2, <2>1
  <2>3. ASSUME queue[1].text = Pass PROVE Len(wire') = 1
    <3>1. IsLogin(wire'[Len(wire')])
      BY <1>1, <2>1, <2>3 DEF IsLogin
    <3>2. Len(wire') <= 2
      BY <1>1, <2>1, <3>1 DEF LoginInv
    <3>3. Len(wire') # 2
      BY <1>1, <2>1, <2>3 DEF IInv, AuthFirst
    <3> QED BY <1>1, <2>1, <3>2, <3>3
  <2> QED BY <2>1, <2>2, <2>3 DEF PatientInv
<1>5. ASSUME NEW t \in posted, ReconnectHandler(t) PROVE PatientInv'
  <2>1. /\ t.kind = "reconnect" /\ m_last_message_sendt' = m_last_message_sendt
        /\ posted' \subseteq posted /\ stage' = "resolving"
        /\ m_msg_pre_buffer' = m_msg_pre_buffer
    BY <1>5 DEF ReconnectHandler, Run, readVars
  <2>2. m_suspend_send /\ stage = "up"
    BY <2>1 DEF IInv, ReconnectInv, NoTask
  <2>3. Len(wire) >= 2 /\ m_last_message_sendt.text # Pass
    <3>1. Len(wire) >= 2
      BY <2>2 DEF PatientInv, Ending
    <3>2. Len(wire) # 1
      <4> DEFINE n == Len(wire)
      <4>1. n \in Nat /\ n >= 2
        BY <1>1, <3>1
      <4> HIDE DEF n
      <4>2. n # 1
        BY <4>1
      <4> QED BY <4>2 DEF n
    <3> QED BY <3>1, <3>2 DEF PatientInv
  <2>4. ~Ending'
    BY <2>1, <2>2 DEF Ending, IInv, ReconnectInv, NoTask
  <2> QED BY <2>1, <2>3, <2>4 DEF PatientInv
<1> QED BY <1>3, <1>4, <1>5, WriteSteps

\* What an unpadded login needs: it is first or second, and the message before it is another.
LEMMA UnpaddedStep ==
    ASSUME IInv, IInv', LoginInv', LastInv, PatientInv, AuthUnpadded, [Next]_vars
    PROVE  AuthUnpadded'
<1>1. wire \in Seq(Written) /\ Len(wire) \in Nat /\ Pass # Nick
  BY DEF IInv, TypeOK, LoopTypeOK, Pass, Nick, Cmd
<1>2. CASE NoWrite
  BY <1>2 DEF NoWrite, AuthUnpadded
<1>3. ASSUME NEW t \in posted, ReconnectHandler(t) PROVE AuthUnpadded'
  <2>1. wire' = <<>>
    BY <1>3 DEF ReconnectHandler
  <2>2. Len(wire') = 0
    BY <2>1
  <2> QED BY <2>2 DEF AuthUnpadded
<1>4. ASSUME NEW queue, GoesOn(queue), ~NoWrite PROVE AuthUnpadded'
  <2> DEFINE last == Len(wire) + 1
             text == queue[1].text
  <2>1. /\ Len(wire') = last /\ wire'[last].text = text /\ wire'[last].pad = IsRepeat(text)
        /\ \A i \in 1..Len(wire) : wire'[i] = wire[i]
    BY <1>4, WhatIsWritten
  <2>2. ASSUME IsLogin(wire'[last]) PROVE ~IsRepeat(text)
    <3>1. last \in 1..Len(wire') /\ last <= 2
      BY <1>1, <2>1, <2>2 DEF LoginInv
    <3>2. IsRepeat(text) => m_last_message_sendt.text = text
      BY DEF IsRepeat
    <3>3. CASE Len(wire) = 0
      <4>1. text = Pass /\ Len(wire) # 1
        BY <1>1, <2>1, <3>3 DEF IInv, AuthFirst
      <4> QED BY <3>2, <4>1 DEF PatientInv
    <3>4. CASE Len(wire) = 1
      <4>1. text = Nick /\ wire[Len(wire)].text = Pass /\ wire # <<>>
        <5>1. last = 2 /\ wire'[2].text = Nick
          BY <2>1, <3>4 DEF IInv, AuthFirst
        <5>2. wire # <<>> /\ wire[1].text = Pass
          BY <1>1, <3>4 DEF IInv, AuthFirst
        <5> QED BY <2>1, <3>4, <5>1, <5>2
      <4>2. m_last_message_sendt.text = Pass
        BY <4>1 DEF LastInv
      <4> QED BY <1>1, <3>2, <4>1, <4>2
    <3>5. Len(wire) = 0 \/ Len(wire) = 1
      <4> DEFINE n == Len(wire)
      <4>1. n \in Nat /\ n + 1 <= 2
        BY <1>1, <3>1
      <4> HIDE DEF n
      <4>2. n = 0 \/ n = 1
        BY <4>1
      <4> QED BY <4>2 DEF n
    <3> QED BY <3>3, <3>4, <3>5
  <2>3. \A i \in 1..Len(wire') : i \in 1..Len(wire) \/ i = last
    BY <1>1, <2>1
  <2> QED BY <2>1, <2>2, <2>3 DEF AuthUnpadded, IsLogin
<1> QED BY <1>2, <1>3, <1>4, WriteSteps

\* The suffix that makes a repetition differ never reaches the password or the nick, given a
\* server that tells only a client that has logged in to reconnect.  (Told earlier, the password
\* is the last message of one connection and the first of the next.)
THEOREM LoginIsUnpadded == ASSUME EarlyReconnect = FALSE PROVE Spec => []AuthUnpadded
<1>1. Init => PatientInv /\ AuthUnpadded
  <2> SUFFICES ASSUME Init PROVE PatientInv /\ AuthUnpadded
    OBVIOUS
  <2>1. Len(wire) = 0 /\ Len(m_msg_pre_buffer) = 0 /\ NoText # Pass
    BY DEF Init, NoText, Pass, Cmd
  <2> QED BY <2>1 DEF Init, PatientInv, Ending, NoTask, AuthUnpadded
<1>2. IInv /\ IInv' /\ LoginInv' /\ PatientInv /\ [Next]_vars => PatientInv'
  BY PatientStep
<1>3. /\ IInv /\ IInv' /\ LoginInv' /\ LastInv /\ PatientInv /\ AuthUnpadded /\ [Next]_vars
      => AuthUnpadded'
  BY UnpaddedStep
<1> QED BY <1>1, <1>2, <1>3, Invariance, LoginInvHolds, LastInvHolds, PTL DEF Spec

-----------------------------------------------------------------------------
(* IrcConnection implements Transmission.  What is offered moves from a posted handler to the *)
(* queue without a step of Transmission; the write at the front of the queue is the step that *)
(* transmits. *)

\* The messages of posted handlers, and those of a queue that are not written yet.
Sends(tasks) == {[id |-> t.id, text |-> t.text] : t \in {s \in tasks : s.kind = "send"}}
Unsent(queue, written) ==
    {queue[i] : i \in {j \in 1..Len(queue) : queue[j].id \notin Ids(written)}}
Offered == Sends(posted) \union Unsent(m_send_queue, wire)

LEMMA TransportVars ==
    Transport!vars = <<m_suspend_send, Offered, wire, past>>
BY DEF Transport!vars, Offered, Sends, Unsent

LEMMA TransportIds == ASSUME wire \in Seq(Written) PROVE Transport!SentIds = Ids(wire)
<1>1. DOMAIN wire = 1..Len(wire)
  OBVIOUS
<1> QED BY <1>1 DEF Transport!SentIds, Ids

LEMMA TransportStutter ==
    ASSUME UNCHANGED <<m_suspend_send, wire, past>>, Offered' = Offered
    PROVE  [Transport!Next]_(Transport!vars)
BY DEF Transport!vars, Offered, Sends, Unsent

-----------------------------------------------------------------------------
(* What is outstanding has been written *)

FlightInv == \A i \in 1..Len(inflight) : inflight[i].id \in Ids(wire)

LEMMA FlightSteps ==
    ASSUME IInv, [Next]_vars
    PROVE  UNCHANGED <<inflight, wire>> \/ inflight' = <<>> \/ \E queue : StartWrite(queue, <<>>)
<1> USE DEF connVars, readVars, loopVars, sendVars, clockVars, workVars
<1>1. OneWrite /\ LoopInv /\ inflight \in Seq(Written)
  BY DEF IInv, TypeOK, LoopTypeOK
<1>2. ASSUME NEW queue, NEW since, DoSendQueue(queue, <<>>, since)
      PROVE  inflight' = <<>> \/ StartWrite(queue, <<>>)
  BY <1>2 DEF DoSendQueue
<1>3. ASSUME NEW t \in posted, PostedSend(t)
      PROVE  UNCHANGED <<inflight, wire>> \/ inflight' = <<>> \/ \E queue : StartWrite(queue, <<>>)
  <2>1. CASE ~Refused /\ ~m_send_queue_busy
    <3>1. DoSendQueue(m_send_queue', inflight, since_sent) /\ inflight = <<>>
      BY <1>1, <1>3, <2>1 DEF PostedSend, StartLoop, LoopInv, LoopActive
    <3> QED BY <1>2, <3>1
  <2>2. CASE Refused \/ m_send_queue_busy
    BY <1>3, <2>2 DEF PostedSend
  <2> QED BY <2>1, <2>2
<1>4. ASSUME NEW t \in posted, SendHandler(t) PROVE \E queue : StartWrite(queue, <<>>)
  <2>1. ~NoTask("write")
    BY <1>4 DEF SendHandler, NoTask
  <2>2. inflight = <<>>
    BY <1>1, <2>1 DEF OneWrite
  <2> QED BY <1>4, <2>2 DEF SendHandler
<1>5. ASSUME NEW t \in posted, SuspendWriteHandler(t) PROVE UNCHANGED <<inflight, wire>>
  BY <1>5 DEF SuspendWriteHandler
<1>6. ASSUME NEW t \in posted, ReconnectHandler(t) PROVE inflight' = <<>>
  <2>1. ~NoTask("reconnect")
    BY <1>6 DEF ReconnectHandler, NoTask
  <2> QED BY <1>1, <1>6, <2>1 DEF ReconnectHandler, LoopInv, LoopActive
<1>7. CASE WaitHandler
  BY <1>7 DEF WaitHandler
<1>8. CASE OnSendQueue
  <2>1. Tail(inflight) = <<>>
    BY <1>1, <1>8, TailOfOne DEF OneWrite, OnSendQueue
  <2>2. CASE OnSendQueueSuspended \/ OnSendQueueError
    BY <2>1, <2>2 DEF OnSendQueueSuspended, OnSendQueueError
  <2>3. CASE OnSendQueueOk
    <3>1. inflight' = <<>> \/ DoSendQueue(m_send_queue', <<>>, since_sent')
      BY <2>1, <2>3 DEF OnSendQueueOk
    <3> QED BY <1>2, <3>1
  <2> QED BY <1>8, <2>2, <2>3 DEF OnSendQueue
<1>9. CASE Connecting \/ ConnectFails
  BY <1>9 DEF Connecting, OnResolve, OnConnect, OnHandshake, ConnectFails
<1>10. CASE OnRead \/ OnReadError \/ FinishRead
  BY <1>10 DEF OnRead, OnReadError, FinishRead
<1>11. CASE ConsumeLine
  BY <1>11 DEF ConsumeLine, ConsumePing, ConsumeCommand, ConsumeQuery, ConsumeJoinPart,
     ConsumeReconnect, ConsumeShutdown, ConsumeThrow
<1>12. CASE QueryReply \/ QueryLost \/ StreamHandler \/ Tick
  BY <1>12 DEF QueryReply, QueryLost, StreamHandler, Tick
<1>13. CASE UNCHANGED vars
  BY <1>13 DEF vars
<1> QED
  BY <1>3, <1>4, <1>5, <1>6, <1>7, <1>8, <1>9, <1>10, <1>11, <1>12, <1>13 DEF Next, RunTask

LEMMA FlightInvHolds == Spec => []FlightInv
<1>1. Init => FlightInv
  BY DEF Init, FlightInv
<1>2. IInv /\ FlightInv /\ [Next]_vars => FlightInv'
  <2> SUFFICES ASSUME IInv, FlightInv, [Next]_vars PROVE FlightInv'
    OBVIOUS
  <2>1. CASE UNCHANGED <<inflight, wire>>
    BY <2>1 DEF FlightInv, Ids
  <2>2. CASE inflight' = <<>>
    BY <2>2 DEF FlightInv
  <2>3. ASSUME NEW queue, StartWrite(queue, <<>>) PROVE FlightInv'
    <3>1. wire \in Seq(Written)
      BY DEF IInv, TypeOK, LoopTypeOK
    <3>2. PICK pad \in BOOLEAN :
            /\ inflight' = Append(<<>>, [id |-> Head(queue).id, text |-> Head(queue).text, pad |-> pad])
            /\ Ids(wire') = Ids(wire) \union {Head(queue).id}
      BY <2>3, <3>1, WriteAppends
    <3>3. \A i \in 1..Len(inflight') : inflight'[i].id = Head(queue).id
      BY <3>2
    <3> QED BY <3>2, <3>3 DEF FlightInv
  <2> QED BY <2>1, <2>2, <2>3, FlightSteps
<1> QED BY <1>1, <1>2, Invariance, PTL DEF Spec

-----------------------------------------------------------------------------
(* What is offered *)

Of(t) == [id |-> t.id, text |-> t.text]

LEMMA PostedIds ==
    ASSUME IInv
    PROVE  /\ nextId \in Nat /\ wire \in Seq(Written) /\ m_send_queue \in Seq(Message)
           /\ \A t \in posted : /\ t.id \in Nat /\ t.id < nextId /\ t.id \notin past
                              /\ t.id \notin Ids(wire)
           /\ \A s, t \in posted : s.id = t.id => s = t
           /\ \A t \in posted : \A i \in 1..Len(m_send_queue) : m_send_queue[i].id # t.id
<1>1. TaskIdInv /\ posted \subseteq Task
  BY DEF IInv, IdInv, TypeOK, WorkTypeOK
<1>2. /\ \A t \in posted : t.id < nextId /\ t.id \notin past /\ t.id \notin Ids(wire)
      /\ \A s, t \in posted : s.id = t.id => s = t
      /\ \A t \in posted : \A i \in 1..Len(m_send_queue) : m_send_queue[i].id # t.id
  BY <1>1 DEF TaskIdInv, Ids
<1>3. \A t \in posted : t.id \in Nat
  BY <1>1 DEF Task
<1> QED BY <1>2, <1>3 DEF IInv, TypeOK, WorkTypeOK, LoopTypeOK, SendTypeOK

LEMMA SendsWithout ==
    ASSUME NEW tasks, NEW t \in tasks, \A s \in tasks : s.id = t.id => s = t
    PROVE  /\ t.kind = "send" => /\ Sends(tasks) = Sends(tasks \ {t}) \union {Of(t)}
                                /\ Of(t) \notin Sends(tasks \ {t})
           /\ t.kind # "send" => Sends(tasks \ {t}) = Sends(tasks)
           /\ Sends(tasks \ {t}) \subseteq Sends(tasks)
<1>1. Of(t).id = t.id
  BY DEF Of
<1>2. \A m \in Sends(tasks \ {t}) : m.id # t.id
  BY DEF Sends
<1> QED BY <1>1, <1>2 DEF Sends, Of

LEMMA SendsWith ==
    ASSUME NEW tasks, NEW t
    PROVE  /\ t.kind = "send" => Sends(tasks \union {t}) = Sends(tasks) \union {Of(t)}
           /\ t.kind # "send" => Sends(tasks \union {t}) = Sends(tasks)
BY DEF Sends, Of

\* What leaves Sends and the queue as they are is no step of Transmission.
LEMMA NothingOffered ==
    ASSUME UNCHANGED <<m_suspend_send, wire, past, m_send_queue>>, Sends(posted') = Sends(posted)
    PROVE  [Transport!Next]_(Transport!vars)
<1>1. Offered' = Offered
  BY DEF Offered, Sends, Unsent
<1> QED BY <1>1, TransportStutter

\* A handler that is posted with an id of its own offers its message.
LEMMA PostedOffer ==
    ASSUME IInv, NEW text, Post("send", text),
           UNCHANGED <<m_suspend_send, wire, past, m_send_queue>>
    PROVE  [Transport!Next]_(Transport!vars)
<1> DEFINE new == [id |-> nextId, kind |-> "send", text |-> text]
<1>1. Sends(posted') = Sends(posted) \union {Of(new)} /\ Of(new).id = nextId
  BY SendsWith DEF Post, Of
<1>2. Offered' = Offered \union {Of(new)}
  BY <1>1 DEF Offered, Sends, Unsent
<1> HIDE DEF new
<1>3. nextId \notin {m.id : m \in Offered} \union Ids(wire) \union past
  <2>1. HistoryIdInv /\ QueueIdInv
    BY DEF IInv, IdInv
  <2>2. nextId \notin Ids(wire) \union past
    BY <2>1, PostedIds DEF HistoryIdInv, Ids
  <2>3. \A m \in Sends(posted) : m.id # nextId
    BY PostedIds DEF Sends
  <2>4. \A m \in Unsent(m_send_queue, wire) : m.id # nextId
    BY <2>1, PostedIds DEF Unsent, QueueIdInv
  <2> QED BY <2>2, <2>3, <2>4 DEF Offered
<1>4. Transport!Fresh(nextId)
  BY <1>3, PostedIds, TransportIds DEF Transport!Fresh, Offered, Sends, Unsent
<1>5. Transport!Accept
  BY <1>1, <1>2, <1>4 DEF Transport!Accept, Offered, Sends, Unsent
<1> QED BY <1>5 DEF Transport!Offer, Transport!Next

-----------------------------------------------------------------------------
(* The step that transmits *)

LEMMA Transmits ==
    ASSUME TypeOK, TypeOK', LastInv, NEW queue, Ready(queue),
           \A s \in posted' : \A i \in 1..Len(queue) : queue[i].id # s.id,
           Offered = Sends(posted') \union Unsent(queue, wire),
           m_send_queue' = queue, UNCHANGED <<m_suspend_send, past>>,
           NEW before, StartWrite(queue, before)
    PROVE  [Transport!Next]_(Transport!vars)
<1> DEFINE m == queue[1]
<1>1. wire \in Seq(Written) /\ Len(wire) \in Nat
  BY DEF TypeOK, LoopTypeOK
<1>2. /\ Head(queue) = m /\ 1 \in 1..Len(queue) /\ Len(queue) \in Nat
      /\ \A i \in 1..Len(queue) : queue[i].id = m.id => i = 1
  BY DEF Ready
<1>3. PICK pad \in BOOLEAN :
        /\ wire' = Append(wire, [id |-> m.id, text |-> m.text, pad |-> pad])
        /\ wire'[Len(wire) + 1] = [id |-> m.id, text |-> m.text, pad |-> pad]
        /\ \A i \in 1..Len(wire) : wire'[i] = wire[i]
        /\ Len(wire') = Len(wire) + 1
        /\ Ids(wire') = Ids(wire) \union {m.id}
  BY <1>1, <1>2, WriteAppends
<1>4. Unsent(queue, wire) = {queue[i] : i \in 1..Len(queue)}
  BY DEF Unsent, Ready, Ids
<1>5. Unsent(queue, wire') = {queue[i] : i \in 1..Len(queue)} \ {m}
  <2>1. \A i \in 1..Len(queue) : queue[i].id \notin Ids(wire') <=> queue[i].id # m.id
    BY <1>3 DEF Ready, Ids
  <2>2. \A i \in 1..Len(queue) : queue[i].id # m.id <=> queue[i] # m
    BY <1>2
  <2> QED BY <2>1, <2>2 DEF Unsent
<1>6. m \notin Sends(posted')
  BY <1>2 DEF Sends
<1>7. m \in Offered /\ Offered' = Offered \ {m}
  <2>1. Offered' = Sends(posted') \union Unsent(queue, wire')
    BY DEF Offered, Sends, Unsent
  <2> QED BY <1>2, <1>4, <1>5, <1>6, <2>1
<1>8. Len(wire) < 2 => m.text = <<Pass, Nick>>[Len(wire) + 1]
  <2>1. <<Pass, Nick>>[1] = Pass /\ <<Pass, Nick>>[2] = Nick
    OBVIOUS
  <2>2. Len(wire) < 2 => Len(wire) = 0 \/ Len(wire) = 1
    <3>1. \A n \in Nat : n < 2 => n = 0 \/ n = 1
      OBVIOUS
    <3> QED BY <1>1, <3>1
  <2>3. CASE Len(wire) = 0
    BY <2>1, <2>3 DEF Ready
  <2>4. CASE Len(wire) = 1
    BY <2>1, <2>4 DEF Ready
  <2> QED BY <2>2, <2>3, <2>4
<1>9. wire # <<>> => ~(m.text = wire[Len(wire)].text /\ pad = wire[Len(wire)].pad)
  <2> SUFFICES ASSUME wire # <<>>
               PROVE  ~(m.text = wire[Len(wire)].text /\ pad = wire[Len(wire)].pad)
    OBVIOUS
  <2>1. NoRepeat'
    BY WriteKeepsLast DEF LastInv
  <2>2. Len(wire) \in 1..(Len(wire') - 1) /\ Len(wire) \in 1..Len(wire)
    BY <1>1, <1>3
  <2>3. <<wire'[Len(wire)].text, wire'[Len(wire)].pad>> # <<m.text, pad>>
    BY <1>3, <2>1, <2>2 DEF NoRepeat
  <2> QED BY <1>3, <2>2, <2>3
<1>10. Len(<<Pass, Nick>>) = 2
  OBVIOUS
<1> HIDE DEF m
<1>11. Transport!Transmit(m)
  BY <1>3, <1>7, <1>8, <1>9, <1>10 DEF Transport!Transmit, Offered, Sends, Unsent
<1> QED BY <1>7, <1>11 DEF Transport!Next, Offered, Sends, Unsent

\* The loop waits or writes; what moved between the posted handlers and the queue is still offered.
LEMMA LoopStep ==
    ASSUME TypeOK, TypeOK', LastInv, NEW queue, Ready(queue),
           \A s \in posted' : \A i \in 1..Len(queue) : queue[i].id # s.id,
           Offered = Sends(posted') \union Unsent(queue, wire),
           m_send_queue' = queue, UNCHANGED <<m_suspend_send, past>>,
           wire' = wire \/ \E before : StartWrite(queue, before)
    PROVE  [Transport!Next]_(Transport!vars)
<1>1. CASE wire' = wire
  <2>1. Offered' = Offered
    BY <1>1 DEF Offered, Sends, Unsent
  <2> QED BY <1>1, <2>1, TransportStutter
<1> QED BY <1>1, Transmits

-----------------------------------------------------------------------------
(* The steps of the send side *)

LEMMA PostedSendStep ==
    ASSUME IInv, IInv', LastInv, NEW t \in posted, PostedSend(t)
    PROVE  [Transport!Next]_(Transport!vars)
<1> USE DEF Run
<1>1. /\ posted' = posted \ {t} /\ t.kind = "send"
      /\ UNCHANGED <<m_suspend_send, past>>
  BY DEF PostedSend
<1>2. Sends(posted) = Sends(posted') \union {Of(t)}
  <2>1. \A s \in posted : s.id = t.id => s = t
    BY PostedIds
  <2> QED BY <1>1, <2>1, SendsWithout, Zenon
<1>3. CASE Refused
  <2>1. UNCHANGED <<wire, m_send_queue>> /\ m_suspend_send
    BY <1>3 DEF PostedSend, Refused, loopVars
  <2>2. Offered' \subseteq Offered
    BY <1>2, <2>1 DEF Offered, Sends, Unsent
  <2> QED BY <1>1, <2>1, <2>2 DEF Transport!Drop, Transport!Next, Offered, Sends, Unsent
<1>4. CASE ~Refused
  <2> DEFINE queue == Enqueue(Of(t))
  <2>1. m_send_queue' = queue /\ ~m_suspend_send
    BY <1>4 DEF PostedSend, Refused, Of
  <2>2. /\ queue \in Seq(Message) /\ Len(queue) = Len(m_send_queue) + 1
        /\ Len(m_send_queue) \in Nat /\ queue # <<>>
        /\ \A i \in 1..Len(m_send_queue) : queue[i] = m_send_queue[i]
        /\ queue[Len(queue)].id = t.id
        /\ \A i \in 1..Len(queue) : i \in 1..Len(m_send_queue) \/ i = Len(queue)
        /\ \A i \in 1..Len(queue) :
             /\ queue[i].id < nextId /\ queue[i].id \notin past
             /\ \A j \in 1..Len(queue) : queue[i].id = queue[j].id => i = j
             /\ \A s \in posted \ {t} : queue[i].id # s.id
        /\ \A j \in 1..Len(wire) : wire[j].id # t.id
    BY <1>1, EnqueueFacts DEF Of
  <2>3. queue[Len(queue)] = Of(t)
    BY PostedIds DEF Enqueue
  <2> HIDE DEF queue
  <2>4. Unsent(queue, wire) = Unsent(m_send_queue, wire) \union {Of(t)}
    <3>1. t.id \notin Ids(wire) /\ Of(t).id = t.id
      BY <2>2 DEF Ids, Of
    <3>2. \A i \in 1..Len(m_send_queue) : i \in 1..Len(queue)
      BY <2>2
    <3>3. Len(queue) \in 1..Len(queue)
      BY <2>2
    <3> QED BY <2>2, <2>3, <3>1, <3>2, <3>3 DEF Unsent
  <2>5. Offered = Sends(posted') \union Unsent(queue, wire)
    BY <1>2, <2>4 DEF Offered
  <2>6. CASE m_send_queue_busy
    <3>1. wire' = wire
      BY <1>4, <2>6 DEF PostedSend, loopVars
    <3>2. Offered' = Offered
      BY <2>1, <2>5, <3>1 DEF Offered, Sends, Unsent
    <3> QED BY <1>1, <3>1, <3>2, TransportStutter
  <2>7. CASE ~m_send_queue_busy
    <3>1. stage = "up" /\ ~timer /\ NoTask("write") /\ inflight = <<>> /\ Len(wire) # 1
      BY <2>1, <2>7 DEF IInv, IdleInv, LoopInv, LoopActive, AuthInv
    <3>2. Ready(queue)
      <4>1. \A i \in 1..Len(queue) : \A j \in 1..Len(wire) : wire[j].id # queue[i].id
        BY <2>2, <2>7 DEF IInv, IdInv, QueueIdInv
      <4>2. Len(wire) = 0 =>
              Len(queue) >= 2 /\ queue[1].text = Pass /\ queue[2].text = Nick
        <5> SUFFICES ASSUME Len(wire) = 0
                     PROVE  Len(queue) >= 2 /\ queue[1].text = Pass /\ queue[2].text = Nick
          OBVIOUS
        <5>1. wire = <<>>
          BY PostedIds
        <5>2. Len(m_send_queue) >= 2 /\ m_send_queue[1].text = Pass /\ m_send_queue[2].text = Nick
          BY <3>1, <5>1 DEF IInv, AuthInv
        <5> QED BY <2>2, <5>2
      <4> QED BY <2>2, <3>1, <4>1, <4>2 DEF Ready
    <3>3. wire' = wire \/ StartWrite(queue, inflight)
      BY <1>4, <2>1, <2>7 DEF PostedSend, StartLoop, DoSendQueue, Refused
    <3>4. TypeOK /\ TypeOK'
      BY DEF IInv
    <3> QED BY <1>1, <2>1, <2>2, <2>5, <3>2, <3>3, <3>4, LoopStep
  <2> QED BY <2>6, <2>7
<1> QED BY <1>3, <1>4

LEMMA SendHandlerStep ==
    ASSUME IInv, IInv', LastInv, NEW t \in posted, SendHandler(t)
    PROVE  [Transport!Next]_(Transport!vars)
<1>1. /\ posted' = posted \ {t} /\ t.kind = "write" /\ StartWrite(m_send_queue, inflight)
      /\ UNCHANGED <<m_suspend_send, past, m_send_queue>>
  BY DEF SendHandler, Run, sendVars
<1>2. Sends(posted') = Sends(posted)
  <2>1. \A s \in posted : s.id = t.id => s = t
    BY PostedIds
  <2>2. t.kind # "send"
    BY <1>1
  <2> QED BY <1>1, <2>1, <2>2, SendsWithout, Zenon
<1>3. Ready(m_send_queue)
  BY <1>1, QueueReady DEF NoTask
<1>4. \A s \in posted' : \A i \in 1..Len(m_send_queue) : m_send_queue[i].id # s.id
  BY <1>1, PostedIds
<1>5. Offered = Sends(posted') \union Unsent(m_send_queue, wire)
  BY <1>2 DEF Offered
<1> QED BY <1>1, <1>3, <1>4, <1>5, LoopStep DEF IInv

\* The write at the front of the queue has completed.
LEMMA OnSendQueueStep ==
    ASSUME IInv, IInv', LastInv, FlightInv, OnSendQueue
    PROVE  [Transport!Next]_(Transport!vars)
<1>1. /\ inflight # <<>> /\ inflight \in Seq(Written) /\ Len(inflight) <= 1
      /\ m_send_queue # <<>> /\ m_send_queue \in Seq(Message) /\ wire \in Seq(Written)
      /\ wire # <<>>
  BY DEF OnSendQueue, IInv, OneWrite, LoopInv, LoopActive, AuthInv, TypeOK, LoopTypeOK, SendTypeOK
<1>2. Len(inflight) = 1 /\ m_send_queue[1].id \in Ids(wire)
  <2>1. Len(inflight) = 1
    BY <1>1, TailOfOne
  <2>2. 1 \in 1..Len(inflight)
    BY <2>1
  <2> QED BY <2>1, <2>2 DEF IInv, BufferAlive, FlightInv
<1>3. CASE OnSendQueueSuspended
  <2>1. Sends(posted') = Sends(posted)
    <3> DEFINE new == [id |-> nextId, kind |-> "reconnect", text |-> NoText]
    <3>1. posted' = posted \union {new} /\ new.kind # "send"
      BY <1>3 DEF OnSendQueueSuspended, Post
    <3> HIDE DEF new
    <3> QED BY <3>1, SendsWith
  <2> QED BY <1>3, <2>1, NothingOffered DEF OnSendQueueSuspended, sendVars
<1>4. CASE OnSendQueueError
  BY <1>4, NothingOffered DEF OnSendQueueError, sendVars, workVars, Sends
<1>5. CASE OnSendQueueOk
  <2> DEFINE queue == Tail(m_send_queue)
  <2>1. /\ m_send_queue' = queue /\ posted' = posted
        /\ UNCHANGED <<m_suspend_send, past>>
    BY <1>5 DEF OnSendQueueOk, AfterSend, workVars
  <2>2. /\ queue \in Seq(Message) /\ Len(m_send_queue) \in Nat
        /\ Len(queue) = Len(m_send_queue) - 1
        /\ IF queue = <<>> THEN Len(m_send_queue) = 1 ELSE Len(m_send_queue) >= 2
        /\ \A i \in 1..Len(queue) :
             /\ queue[i] = m_send_queue[i + 1]
             /\ i + 1 \in 1..Len(m_send_queue) /\ i + 1 >= 2
    BY <1>1, PopQueue
  <2>3. wire' = wire \/ StartWrite(queue, Tail(inflight))
    BY <1>5, <2>1 DEF OnSendQueueOk, DoSendQueue
  <2>4. queue = <<>> => wire' = wire
    BY <1>5, <2>1 DEF OnSendQueueOk
  <2> HIDE DEF queue
  <2>5. QueueIdInv
    BY DEF IInv, IdInv
  <2>6. \A i \in 1..Len(queue) :
          /\ queue[i].id < nextId /\ queue[i].id \notin past
          /\ \A j \in 1..Len(wire) : wire[j].id # queue[i].id
    BY SMTT(30), <2>2, <2>5 DEF QueueIdInv
  <2>7. Unsent(m_send_queue, wire) = Unsent(queue, wire)
    <3>1. \A k \in 1..Len(m_send_queue) :
            k = 1 \/ (k - 1 \in 1..Len(queue) /\ m_send_queue[k] = queue[k - 1])
      BY <2>2
    <3>2. \A x \in Unsent(m_send_queue, wire) : x \in Unsent(queue, wire)
      <4> SUFFICES ASSUME NEW k \in 1..Len(m_send_queue), m_send_queue[k].id \notin Ids(wire)
                   PROVE  m_send_queue[k] \in Unsent(queue, wire)
        BY DEF Unsent
      <4>1. k - 1 \in 1..Len(queue) /\ m_send_queue[k] = queue[k - 1]
        BY <1>2, <3>1
      <4> QED BY <4>1 DEF Unsent
    <3>3. \A x \in Unsent(queue, wire) : x \in Unsent(m_send_queue, wire)
      BY <2>2 DEF Unsent
    <3> QED BY <3>2, <3>3
  <2>8. Offered = Sends(posted') \union Unsent(queue, wire)
    BY <2>1, <2>7 DEF Offered
  <2>9. CASE wire' = wire
    <3>1. Offered' = Offered
      BY <2>1, <2>8, <2>9 DEF Offered, Sends, Unsent
    <3> QED BY <2>1, <2>9, <3>1, TransportStutter
  <2>10. CASE queue # <<>>
    <3>1. \A i, j \in 1..Len(queue) : queue[i].id = queue[j].id => i = j
      <4> SUFFICES ASSUME NEW i \in 1..Len(queue), NEW j \in 1..Len(queue),
                          queue[i].id = queue[j].id
                   PROVE  i = j
        OBVIOUS
      <4>1. /\ i + 1 \in 1..Len(m_send_queue) /\ j + 1 \in 1..Len(m_send_queue)
            /\ m_send_queue[i + 1].id = m_send_queue[j + 1].id
        BY <2>2
      <4>2. i + 1 = j + 1
        BY <2>5, <4>1 DEF QueueIdInv
      <4> QED BY <4>2
    <3>2. Len(wire) = 1 => queue[1].text = Nick
      <4>1. Len(wire) = 1 => m_send_queue[2].text = Nick
        BY <1>1 DEF IInv, AuthInv
      <4>2. queue[1] = m_send_queue[2]
        BY <2>2, <2>10
      <4> QED BY <4>1, <4>2
    <3>3. Len(wire) # 0
      BY <1>1
    <3>4. Ready(queue)
      BY <2>2, <2>6, <2>10, <3>1, <3>2, <3>3 DEF Ready
    <3>5. \A s \in posted' : \A i \in 1..Len(queue) : queue[i].id # s.id
      BY <2>1, <2>2, PostedIds
    <3> QED BY <2>1, <2>3, <2>8, <3>4, <3>5, LoopStep DEF IInv
  <2> QED BY <2>4, <2>9, <2>10
<1> QED BY <1>3, <1>4, <1>5 DEF OnSendQueue

-----------------------------------------------------------------------------
(* Giving up a connection, and opening the next one *)

LEMMA SuspendStep ==
    ASSUME IInv, NEW t \in posted, SuspendWriteHandler(t)
    PROVE  [Transport!Next]_(Transport!vars)
<1>1. /\ t.kind = "suspend" /\ m_suspend_send' = TRUE /\ UNCHANGED <<wire, past, m_send_queue>>
      /\ Run(t) \/ RunAndPost(t, "reconnect")
  BY DEF SuspendWriteHandler, loopVars
<1>2. Sends(posted \ {t}) = Sends(posted)
  <2>1. \A s \in posted : s.id = t.id => s = t
    BY PostedIds
  <2>2. t.kind # "send"
    BY <1>1
  <2> QED BY <2>1, <2>2, SendsWithout, Zenon
<1>3. Sends(posted') = Sends(posted)
  <2> DEFINE new == [id |-> nextId, kind |-> "reconnect", text |-> NoText]
  <2>1. CASE Run(t)
    BY <1>2, <2>1 DEF Run
  <2>2. CASE RunAndPost(t, "reconnect")
    <3>1. posted' = (posted \ {t}) \union {new} /\ new.kind # "send"
      BY <2>2 DEF RunAndPost
    <3> HIDE DEF new
    <3> QED BY <1>2, <3>1, SendsWith
  <2> QED BY <1>1, <2>1, <2>2
<1>4. Offered' = Offered
  BY <1>1, <1>3 DEF Offered, Sends, Unsent
<1> QED BY <1>1, <1>4 DEF Transport!End, Transport!Next, Offered, Sends, Unsent

LEMMA ReconnectStep ==
    ASSUME IInv, NEW t \in posted, ReconnectHandler(t)
    PROVE  [Transport!Next]_(Transport!vars)
<1>1. /\ posted' = posted \ {t} /\ m_send_queue' = <<>> /\ wire' = <<>>
      /\ past' = past \union Ids(wire) /\ m_suspend_send' = m_suspend_send
  BY DEF ReconnectHandler, Run, QueueAfterReconnect
<1>2. m_suspend_send /\ wire \in Seq(Written)
  BY DEF ReconnectHandler, IInv, ReconnectInv, NoTask, TypeOK, LoopTypeOK
<1>3. Unsent(<<>>, <<>>) = {}
  BY DEF Unsent
<1>4. Offered' \subseteq Offered
  <2>1. Offered' = Sends(posted')
    BY <1>1, <1>3 DEF Offered, Sends, Unsent
  <2>2. Sends(posted') \subseteq Sends(posted)
    BY <1>1 DEF Sends
  <2> QED BY <2>1, <2>2 DEF Offered
<1>5. Transport!Close
  BY <1>1, <1>2, <1>4, TransportIds DEF Transport!Close, Offered, Sends, Unsent
<1> QED BY <1>5 DEF Transport!Next

\* The login and what is posted with it have ids of their own.
LEMMA HandshakeStep ==
    ASSUME IInv, OnHandshake
    PROVE  [Transport!Next]_(Transport!vars)
<1> DEFINE n == Cardinality(m_channels)
           pass == [id |-> nextId, text |-> Pass]
           nick == [id |-> nextId + 1, text |-> Nick]
<1>0. n \in Nat /\ nextId \in Nat
  BY ChannelCount, PostedIds
<1>1. /\ m_suspend_send /\ m_send_queue = <<>> /\ wire = <<>>
      /\ m_send_queue' = <<pass, nick>> /\ m_suspend_send' = FALSE /\ UNCHANGED <<wire, past>>
  BY DEF OnHandshake, IInv, IdleInv, loopVars
<1>2. PICK texts : posted' = posted \union
          {[id |-> nextId + 1 + i, kind |-> "send", text |-> texts[i]] : i \in 1..(2 + n)}
  BY DEF OnHandshake
<1> DEFINE new == {[id |-> nextId + 1 + i, kind |-> "send", text |-> texts[i]] : i \in 1..(2 + n)}
<1>3. Sends(posted') = Sends(posted) \union Sends(new)
  BY <1>2 DEF Sends
<1>4. \A m \in Sends(new) : m.id \in Nat /\ m.id >= nextId
  <2>1. \A t \in new : t.id \in Nat /\ t.id >= nextId
    <3> SUFFICES ASSUME NEW i \in 1..(2 + n)
                 PROVE  nextId + 1 + i \in Nat /\ nextId + 1 + i >= nextId
      OBVIOUS
    <3> HIDE DEF n
    <3> QED BY <1>0
  <2> QED BY <2>1 DEF Sends
<1> HIDE DEF new, n
<1>5. pass.id = nextId /\ nick.id = nextId + 1 /\ pass.text = Pass /\ nick.text = Nick
  OBVIOUS
<1> HIDE DEF pass, nick
<1>6. Unsent(m_send_queue, wire) = {} /\ Unsent(m_send_queue', wire') = {pass, nick}
  <2>1. Ids(wire) = {} /\ Unsent(m_send_queue, wire) = {}
    BY <1>1 DEF Ids, Unsent
  <2>2. \A x : x \in Unsent(<<pass, nick>>, wire) <=> x = pass \/ x = nick
    <3>1. Len(<<pass, nick>>) = 2 /\ <<pass, nick>>[1] = pass /\ <<pass, nick>>[2] = nick
      OBVIOUS
    <3>2. Unsent(<<pass, nick>>, wire) = {<<pass, nick>>[i] : i \in 1..2}
      BY <2>1, <3>1 DEF Unsent
    <3>3. 1..2 = {1, 2}
      OBVIOUS
    <3> QED BY <3>1, <3>2, <3>3
  <2>3. Unsent(<<pass, nick>>, wire) = {pass, nick}
    BY <2>2
  <2> QED BY <1>1, <2>1, <2>3
<1>7. Offered' = Offered \union {pass, nick} \union Sends(new)
  BY <1>3, <1>6 DEF Offered, Sends, Unsent
<1>8. \A m \in Offered' \ Offered : m.id \in Nat /\ m.id >= nextId
  BY <1>0, <1>4, <1>5, <1>7
<1>9. \A m \in Offered : m.id \in Nat /\ m.id < nextId
  <2>1. Offered = Sends(posted)
    BY <1>6 DEF Offered
  <2> QED BY <2>1, PostedIds DEF Sends
<1>10. \A id \in past : id < nextId
  BY DEF IInv, IdInv, HistoryIdInv
<1>11. \A m \in Offered' \ Offered : Transport!Fresh(m.id)
  <2> SUFFICES ASSUME NEW m \in Offered' \ Offered PROVE Transport!Fresh(m.id)
    OBVIOUS
  <2>1. m.id \in Nat /\ m.id >= nextId
    BY <1>8
  <2>2. m.id \notin {o.id : o \in Offered} /\ m.id \notin past
    BY <1>0, <1>9, <1>10, <2>1
  <2>3. Transport!SentIds = {}
    <3>1. Ids(wire) = {}
      BY <1>1 DEF Ids
    <3> QED BY <3>1, PostedIds, TransportIds
  <2> QED BY <2>2, <2>3 DEF Transport!Fresh, Offered, Sends, Unsent
<1>12. Transport!Accept
  BY <1>7, <1>11 DEF Transport!Accept, Offered, Sends, Unsent
<1>13. pass \in Offered' \ Offered /\ nick \in Offered' \ Offered
  BY <1>0, <1>5, <1>7, <1>9
<1>14. \A i \in DOMAIN <<Pass, Nick>> : \E m \in Offered' \ Offered : m.text = <<Pass, Nick>>[i]
  <2>1. \A i \in DOMAIN <<Pass, Nick>> : i = 1 \/ i = 2
    OBVIOUS
  <2>2. <<Pass, Nick>>[1] = Pass /\ <<Pass, Nick>>[2] = Nick
    OBVIOUS
  <2> QED BY <1>5, <1>13, <2>1, <2>2
<1>15. Transport!Open
  BY <1>1, <1>12, <1>14 DEF Transport!Open, Offered, Sends, Unsent
<1> QED BY <1>15 DEF Transport!Next

-----------------------------------------------------------------------------
(* Every step *)

LEMMA ConsumeStep ==
    ASSUME IInv, ConsumeLine
    PROVE  [Transport!Next]_(Transport!vars)
<1> USE DEF loopVars, sendVars, workVars
<1>1. CASE ConsumePing
  BY <1>1, PostedOffer DEF ConsumePing
<1>2. CASE ConsumeCommand
  BY <1>2, PostedOffer DEF ConsumeCommand
<1>3. CASE ConsumeReconnect
  <2> DEFINE new == [id |-> nextId, kind |-> "suspend", text |-> NoText]
  <2>1. posted' = posted \union {new} /\ new.kind # "send"
    BY <1>3 DEF ConsumeReconnect, Post
  <2> HIDE DEF new
  <2>2. Sends(posted') = Sends(posted)
    BY <2>1, SendsWith
  <2> QED BY <1>3, <2>2, NothingOffered DEF ConsumeReconnect
<1>4. CASE ConsumeQuery \/ ConsumeJoinPart \/ ConsumeShutdown \/ ConsumeThrow
  BY <1>4, NothingOffered
  DEF ConsumeQuery, ConsumeJoinPart, ConsumeShutdown, ConsumeThrow, Sends
<1> QED BY <1>1, <1>2, <1>3, <1>4 DEF ConsumeLine

LEMMA WaitStep ==
    ASSUME WaitHandler
    PROVE  [Transport!Next]_(Transport!vars)
<1> DEFINE new == [id |-> nextId, kind |-> "write", text |-> NoText]
<1>1. posted' = posted \union {new} /\ new.kind # "send"
  BY DEF WaitHandler, Post
<1> HIDE DEF new
<1>2. Sends(posted') = Sends(posted)
  BY <1>1, SendsWith
<1> QED BY <1>2, NothingOffered DEF WaitHandler, sendVars

LEMMA QuietStep ==
    ASSUME \/ OnResolve \/ OnConnect \/ ConnectFails \/ OnRead \/ OnReadError \/ FinishRead
           \/ QueryLost \/ StreamHandler \/ Tick \/ UNCHANGED vars
    PROVE  [Transport!Next]_(Transport!vars)
<1>1. UNCHANGED <<m_suspend_send, wire, past, m_send_queue, posted>>
  BY DEF OnResolve, OnConnect, ConnectFails, OnRead, OnReadError, FinishRead, QueryLost,
     StreamHandler, Tick, vars, loopVars, sendVars, workVars
<1>2. Sends(posted') = Sends(posted)
  BY <1>1 DEF Sends
<1> QED BY <1>1, <1>2, NothingOffered

LEMMA TransportStep ==
    ASSUME IInv, IInv', LastInv, FlightInv, [Next]_vars
    PROVE  [Transport!Next]_(Transport!vars)
<1>1. ASSUME NEW t \in posted, RunTask(t) PROVE [Transport!Next]_(Transport!vars)
  BY <1>1, PostedSendStep, SendHandlerStep, SuspendStep, ReconnectStep DEF RunTask
<1>2. CASE WaitHandler \/ OnSendQueue
  BY <1>2, WaitStep, OnSendQueueStep
<1>3. CASE OnHandshake
  BY <1>3, HandshakeStep
<1>4. CASE ConsumeLine
  BY <1>4, ConsumeStep
<1>5. CASE QueryReply
  BY <1>5, PostedOffer DEF QueryReply, loopVars, sendVars
<1>6. CASE \/ OnResolve \/ OnConnect \/ ConnectFails \/ OnRead \/ OnReadError \/ FinishRead
           \/ QueryLost \/ StreamHandler \/ Tick \/ UNCHANGED vars
  BY <1>6, QuietStep
<1> QED BY <1>1, <1>2, <1>3, <1>4, <1>5, <1>6 DEF Next, Connecting

\* The send side keeps the promises of Transmission: whatever the threads, the timer, the strands,
\* the errors and the reconnects do, what was posted is written once and in one session, the login
\* first, and is lost only while a session is ending.
THEOREM Implementation == Spec => ImplementsTransmission
<1>1. Init => Transport!Init
  <2> SUFFICES ASSUME Init PROVE Transport!Init
    OBVIOUS
  <2>1. m_suspend_send = TRUE /\ posted = {} /\ m_send_queue = <<>> /\ wire = <<>> /\ past = {}
    BY DEF Init
  <2>2. Offered = {}
    BY <2>1 DEF Offered, Sends, Unsent
  <2> QED BY <2>1, <2>2 DEF Transport!Init, Offered, Sends, Unsent
<1>2. IInv /\ IInv' /\ LastInv /\ FlightInv /\ [Next]_vars => [Transport!Next]_(Transport!vars)
  BY TransportStep
<1> QED
  BY <1>1, <1>2, Invariance, LastInvHolds, FlightInvHolds, PTL
  DEF Spec, ImplementsTransmission, Transport!Spec

==============================================================================
