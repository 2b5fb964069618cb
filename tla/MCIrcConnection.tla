-------------------------- MODULE MCIrcConnection --------------------------
(***************************************************************************)
(* IrcConnection with the fairness its scheduling justifies, and the       *)
(* properties that only the model checker is asked about.                  *)
(***************************************************************************)
EXTENDS IrcConnection

\* The io_context runs what is ready, in the order of its queue; every
\* asynchronous operation but a read of an open socket ends.
RunOldest == \E t \in posted : (\A s \in posted : t.id <= s.id) /\ RunTask(t)

Fairness ==
    /\ WF_vars(RunOldest)
    /\ WF_vars(WaitHandler)
    /\ WF_vars(OnSendQueue)
    /\ WF_vars(Connecting)
    /\ WF_vars(link = "closed" /\ OnReadError)
    /\ WF_vars(ConsumeLine \/ FinishRead)
    /\ WF_vars(QueryReply \/ QueryLost)
    /\ WF_vars(StreamHandler)
    /\ WF_vars(Tick)

FairSpec == Spec /\ Fairness

-----------------------------------------------------------------------------
\* A RECONNECT that was read ends in a new connection.
ReconnectServed == m_suspend_read ~> ~m_suspend_read

\* What is posted is written (or dropped by a reconnect): the loop never stalls.
SendQueueDrains ==
    (~NoTask("send") \/ m_send_queue # <<>>) ~>
        (m_suspend_send \/ (NoTask("send") /\ m_send_queue = <<>>))

\* The io_context has run out of work: run() returns in every thread and main
\* destroys the bot, whose destructor saves the config.
NoWork ==
    /\ stage \in {"up", "dead"} /\ link # "closing"
    /\ ~reading /\ ~consuming /\ ~timer
    /\ inflight = <<>> /\ posted = {} /\ queries = 0

\* A shutdown command ends the program, whatever else fails, unless async_shutdown itself
\* ends with an error: then stream_handler throws and the socket is left open.
ShutdownTerminates == (link = "closing") ~> (NoWork \/ link = "unclosed")

=============================================================================
