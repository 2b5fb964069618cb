---------------------------- MODULE Transmission ----------------------------
(***************************************************************************)
(* What the send side of SaivBot promises to whoever calls postSendIRC,    *)
(* whatever queue, timer, strands and threads it is made of                *)
(* (src/src/SaivBot.cpp: postSendIRC to onSendQueue, and reconnecting).    *)
(*                                                                         *)
(* A message that was offered is transmitted at most once, in one session. *)
(* A session starts with the login, in its order, and never transmits the  *)
(* same bytes twice in a row.  A message is lost only while the session is *)
(* ending: after RECONNECT, and until the next session has its login.      *)
(***************************************************************************)
EXTENDS Naturals, Sequences

CONSTANT Login  \* the texts that open a session, a sequence

VARIABLES
    ending,   \* there is no session, or it is being given up
    offered,  \* messages accepted and not yet transmitted: [id, text]
    sent,     \* what this session has transmitted: [id, text, pad]
    before    \* ids of what earlier sessions have transmitted

vars == <<ending, offered, sent, before>>

SentIds == {sent[i].id : i \in DOMAIN sent}
Fresh(id) == id \notin {m.id : m \in offered} \union SentIds \union before

Init == ending = TRUE /\ offered = {} /\ sent = <<>> /\ before = {}

\* New messages are accepted.
Accept ==
    /\ offered \subseteq offered'
    /\ \A m \in offered' \ offered : Fresh(m.id)

Offer == Accept /\ UNCHANGED <<ending, sent, before>>

\* A message is transmitted, with a suffix (pad) when it repeats the last one.
Transmit(m) ==
    /\ Len(sent) < Len(Login) => m.text = Login[Len(sent) + 1]
    /\ \E pad \in BOOLEAN :
         /\ sent # <<>> =>
              ~(m.text = sent[Len(sent)].text /\ pad = sent[Len(sent)].pad)
         /\ sent' = Append(sent, [id |-> m.id, text |-> m.text, pad |-> pad])
    /\ offered' = offered \ {m}
    /\ UNCHANGED <<ending, before>>

\* The server asks for a reconnect.
End == ending' = TRUE /\ UNCHANGED <<offered, sent, before>>

Drop ==
    /\ ending
    /\ offered' \subseteq offered
    /\ UNCHANGED <<ending, sent, before>>

\* The old connection is given up, with what was not transmitted on it.
Close ==
    /\ ending
    /\ offered' \subseteq offered
    /\ sent' = <<>>
    /\ before' = before \union SentIds
    /\ UNCHANGED ending

\* A new connection is ready: its login is offered, and whatever else is to open it.
Open ==
    /\ ending /\ sent = <<>>
    /\ ending' = FALSE
    /\ Accept
    /\ \A i \in DOMAIN Login : \E m \in offered' \ offered : m.text = Login[i]
    /\ UNCHANGED <<sent, before>>

Next == Offer \/ (\E m \in offered : Transmit(m)) \/ End \/ Drop \/ Close \/ Open

Spec == Init /\ [][Next]_vars

=============================================================================
