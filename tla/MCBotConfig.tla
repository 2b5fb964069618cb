---------------------------- MODULE MCBotConfig ----------------------------
(* The configs an administrator writes on the instance that TLC checks. *)
EXTENDS BotConfig

CONSTANTS u1, own, chan

Spelling(x, lower) == [name |-> x, lower |-> lower]
Config(modlist, whitelist, channels) ==
    [modlist |-> modlist, whitelist |-> whitelist, channels |-> channels]

\* One in lower case, and one with capitals in the whitelist and the channels.
MCEdits ==
    {Config({Spelling(u1, TRUE)}, {}, {Spelling(chan, TRUE)}),
     Config({Spelling(u1, TRUE)}, {Spelling(u1, FALSE)}, {Spelling(chan, FALSE)})}

=============================================================================
