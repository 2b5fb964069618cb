------------------------------ MODULE IrcText ------------------------------
(***************************************************************************)
(* The text of an IRC connection: how a line is written, how parseBuffer   *)
(* cuts the stream into lines (src/src/SaivBot.cpp) and how IRCMessage     *)
(* reads a line (src/src/IRCMessage.cpp).                                  *)
(*                                                                         *)
(* A text is a sequence of tokens: the characters that the code looks for, *)
(* and words, which are everything between them.                           *)
(***************************************************************************)
EXTENDS Strings

CONSTANT Words  \* what stands between the characters

CR == "\r"
LF == "\n"
SP == " "
Characters == {CR, LF, SP, ":", "!", "@"}
Tokens == Characters \union Words
Text == Seq(Tokens)

\* No word looks like a character, and the words that this module writes are among them.
ASSUME WordsAssumption ==
    /\ Words \intersect Characters = {} /\ "" \notin Words
    /\ {"srv", "host", "damaged"} \subseteq Words

-----------------------------------------------------------------------------
(* Lines of the server *)

\* A message: who it comes from (a nick, the server "srv", or "" if it does not say), a command,
\* parameters and a body (words and spaces).
Source(from) ==
    CASE from = "" -> <<>>
      [] from = "srv" -> <<":", "srv", SP>>
      [] OTHER -> <<":", from, "!", from, "@", "host", SP>>
Render(m) ==
    LET params == [i \in 1..(2 * Len(m.params)) |-> IF i % 2 = 1 THEN SP ELSE m.params[i \div 2]]
        body == IF m.body = <<>> THEN <<>> ELSE <<SP, ":">> \o m.body
    IN  Source(m.from) \o <<m.command>> \o params \o body

\* What getNick, getUser, getCommand, getParams and getBody return for it.  The nick of the
\* server has the space behind it, and a command on its own is its own parameter.
Fields(m) ==
    [nick |-> CASE m.from = "" -> <<>> [] m.from = "srv" -> <<"srv", SP>> [] OTHER -> <<m.from>>,
     user |-> IF m.from \in {"", "srv"} THEN <<>> ELSE <<m.from>>,
     command |-> <<m.command>>,
     params |-> IF m.params = <<>> /\ m.body = <<>> THEN <<<<m.command>>>>
                ELSE [i \in DOMAIN m.params |-> <<m.params[i]>>],
     body |-> m.body]

-----------------------------------------------------------------------------
(* IRCMessage::parseImplementation *)

\* Behind the first space; all of it if there is none (npos + 1 is 0).
Behind(text) == From(text, FindFirstOf(text, {SP}) + 1)

NickAndUser(prefix) ==
    LET at == FindFirstOf(prefix, {"@"})
        ex == FindFirstOf(prefix, {"!"})
    IN  CASE at # 0 /\ ex # 0 -> <<Upto(prefix, ex), SubSeq(prefix, ex + 1, at - 1)>>
          [] at # 0 /\ ex = 0 -> <<Upto(prefix, at), <<>>>>
          [] OTHER -> <<prefix, <<>>>>

\* (The Bug operators of this module are used by no definition: each is a slip in the
\* definition after it.)
BugParams(text) == IF text # <<>> /\ FindFirstOf(text, {SP}) = 0 THEN <<text>> ELSE <<>>
Params(text) ==
    LET params[t \in Text] ==
            CASE t = <<>> \/ t[1] = ":" -> <<>>
              [] t # <<>> /\ t[1] # ":" /\ FindFirstOf(t, {SP}) = 0 -> <<t>>
              [] OTHER -> <<Upto(t, FindFirstOf(t, {SP}))>> \o params[Behind(t)]
    IN  params[text]

Body(text) ==
    LET body[t \in Text] ==
            CASE t = <<>> -> <<>>
              [] t # <<>> /\ t[1] = ":" -> Tail(t)
              [] OTHER -> IF FindFirstOf(t, {SP}) = 0 THEN <<>> ELSE body[Behind(t)]
    IN  body[text]

\* What comes before the parameters; an empty line has no first character to look at, and the
\* byte behind it is no colon.
Parse(line) ==
    LET prefixed == line # <<>> /\ line[1] = ":"
        space == FindFirstOf(line, {SP})
        \* substr(1, space) takes the space along
        prefix == SubSeq(line, 2, IF space = 0 THEN Len(line) ELSE space)
        names == IF prefixed THEN NickAndUser(prefix) ELSE <<<<>>, <<>>>>
        text == IF prefixed THEN Behind(line) ELSE line
        end == FindFirstOf(text, {SP})
        rest == Behind(text)
    IN  [nick |-> names[1], user |-> names[2],
         command |-> IF end = 0 THEN text ELSE Upto(text, end),
         params |-> Params(rest), body |-> Body(rest)]

-----------------------------------------------------------------------------
(* SaivBot::parseBuffer *)

BugErase(buffer, n) == IF n + 1 > Len(buffer) THEN <<>> ELSE From(buffer, n + 1)
\* The buffer without its first n characters and one more.  Of a word one character goes.
Erase(buffer, n) ==
    CASE n + 1 > Len(buffer) -> <<>>
      [] n + 1 <= Len(buffer) /\ buffer[n + 1] \in Characters -> From(buffer, n + 2)
      [] OTHER -> <<"damaged">> \o From(buffer, n + 2)

\* The lines of a buffer, what is left of it, and whether an erase went past its end.
Split(buffer) ==
    LET split[t \in Text] ==
            LET n == FindFirstOf(t, {CR, LF}) IN
            IF n = 0 THEN [lines |-> <<>>, rest |-> t, past |-> FALSE]
            ELSE LET next == split[Erase(t, n)]
                 IN  [lines |-> <<Upto(t, n)>> \o next.lines, rest |-> next.rest,
                      past |-> next.past \/ n + 1 > Len(t)]
    IN  split[buffer]

=============================================================================
