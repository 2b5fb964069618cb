--------------------------- MODULE MCMessagePath ---------------------------
(* The messages of the instance that TLC checks. *)
EXTENDS MessagePath

Message(from, command, params, body) ==
    [from |-> from, command |-> command, params |-> params, body |-> body]
Says(user, body) == Message(user, "PRIVMSG", <<"#c">>, body)

MCWords ==
    {"srv", "host", "damaged", "bot", "u1", "u2", "#c", "JOIN", "PART", "RECONNECT", "PING",
     "PRIVMSG", "hi", "find", "ping", "clip", "2"}

MCMessages ==
    {Message("bot", "JOIN", <<"#c">>, <<>>),
     Message("bot", "PART", <<"#c">>, <<>>),
     Message("bot", "JOIN", <<>>, <<"#c">>),
     Message("srv", "RECONNECT", <<>>, <<>>),
     Message("", "PING", <<>>, <<"srv">>),
     Says("u1", <<"hi">>),
     Says("u1", <<"bot", SP, "find">>),
     Says("u2", <<"bot", SP, "ping">>),
     Says("u2", <<"bot", SP, "clip", SP, "2">>)}

=============================================================================
