---------------------------- MODULE ConfigStore ----------------------------
(***************************************************************************)
(* What Config.txt is to the bot and its administrator: a bot runs with    *)
(* what was stored last as a whole; it saves before it changes anything    *)
(* else, unless the save could not start, and then the next one makes up   *)
(* for it; the file is put at risk only for something to save or at the    *)
(* end of a run, and a save that does not complete leaves nothing to       *)
(* start from until the administrator writes the file again                *)
(* (src/src/SaivBot.cpp: loadConfig, saveConfig and who calls it).         *)
(***************************************************************************)
EXTENDS Naturals

CONSTANTS
    Names,    \* what the lists of a config hold
    Default,  \* the config the bot writes when there is none
    Edits     \* the configs the administrator writes

Nothing == [kind |-> "nothing"]  \* no file, or a bot that is not running
Broken == [kind |-> "broken"]
Whole(c) == [kind |-> "whole", config |-> c]
Ending(c) == [kind |-> "ending", config |-> c]

VARIABLES
    stored,   \* what is in the file
    running,  \* the config of the running bot, which may be about to end
    missed    \* names whose change the bot could not save and has gone on without

vars == <<stored, running, missed>>

Init == stored = Nothing /\ running = Nothing /\ missed = {}

\* a and b differ in one entry of the whitelist or of the channels, never in the modlist.
OneChange(a, b) ==
    \E list \in {"whitelist", "channels"}, n \in Names :
        b \in {[a EXCEPT ![list] = @ \union {n}], [a EXCEPT ![list] = @ \ {n}]}
\* What is stored is what the bot runs with, but for some names.
StoredBut(names) ==
    LET a == stored.config
        b == running.config
    IN  /\ stored.kind = "whole" /\ a.modlist = b.modlist
        /\ a.whitelist \ names = b.whitelist \ names /\ a.channels \ names = b.channels \ names
SomethingToSave == running.kind = "whole" /\ (missed # {} \/ ~StoredBut({}))

Edit ==
    /\ running = Nothing /\ stored' \in {Whole(c) : c \in Edits}
    /\ UNCHANGED <<running, missed>>
FirstRun ==
    /\ stored = Nothing /\ running = Nothing /\ stored' = Whole(Default)
    /\ missed' = {} /\ UNCHANGED running
Start ==
    /\ running = Nothing /\ stored.kind = "whole"
    /\ running' = stored /\ missed' = {} /\ UNCHANGED stored
Change ==
    /\ running' # running /\ running.kind = "whole" /\ running'.kind = "whole"
    /\ stored = Broken \/ StoredBut(missed)
    /\ OneChange(running.config, running'.config)
    /\ UNCHANGED <<stored, missed>>
Save == running.kind = "whole" /\ stored' = running /\ missed' = {} /\ UNCHANGED running
\* The save of the last change could not start.
Miss ==
    /\ missed' # missed /\ running.kind = "whole"
    /\ stored = Broken \/ (~StoredBut(missed) /\ StoredBut(missed'))
    /\ \E n \in Names : missed' = missed \union {n}
    /\ UNCHANGED <<stored, running>>
Break ==
    /\ stored' = Broken /\ UNCHANGED <<running, missed>>
    /\ stored = Nothing \/ running.kind = "ending" \/ SomethingToSave
Close ==
    /\ running.kind = "whole" /\ running' = Ending(running.config)
    /\ UNCHANGED <<stored, missed>>
\* The last save and the end of the program are one step.
SaveAndEnd ==
    /\ running.kind = "ending" /\ stored' = Whole(running.config)
    /\ running' = Nothing /\ missed' = {}
End == running' = Nothing /\ UNCHANGED <<stored, missed>>

Next ==
    \/ Edit \/ FirstRun \/ Start \/ Change \/ Save \/ Miss \/ Break
    \/ Close \/ SaveAndEnd \/ End

Spec == Init /\ [][Next]_vars

=============================================================================
