-------------------------- MODULE MessagePathProofs --------------------------
(***************************************************************************)
(* Proofs about MessagePath and IrcText, for any messages, reads,          *)
(* reconnections and capacity.                                             *)
(*                                                                         *)
(* The functions of IrcText are recursive over texts: the equation of each *)
(* comes from Recursion in TextLemmas.  Then:                              *)
(*   - a line that was rendered reads as the message it was (ReadsLine),   *)
(*     and parseBuffer cuts any stream of such lines into just these       *)
(*     (SplitStream);                                                      *)
(*   - StreamInv: what is kept, in the buffer and under way is the stream  *)
(*     of the messages due, unless a read has torn a line or a piece of    *)
(*     an old one is glued to it;                                          *)
(*   - FarInv: the texts that are kept are too long to be held inside an   *)
(*     object, so that moving one leaves its views valid;                  *)
(*   - ChannelsOK: the buffer of a channel holds the last messages of its  *)
(*     history;                                                            *)
(*   - OutputOK: what has still to be answered remembers who asked.        *)
(* The last four hold together (PathInv) and imply the properties of       *)
(* MessagePath.                                                            *)
(***************************************************************************)
EXTENDS MessagePath, TextLemmas

-----------------------------------------------------------------------------
(* Texts *)

LEMMA BehindType ==
    ASSUME NEW text \in Text
    PROVE  /\ Behind(text) \in Text
           /\ Len(Behind(text)) = Len(text) - FindFirstOf(text, {SP})
<1> DEFINE n == FindFirstOf(text, {SP})
<1>1. n \in 0..Len(text)
  BY FindsFirst DEF Text
<1> HIDE DEF n
<1>2. n + 1 \in 1..(Len(text) + 1)
  BY <1>1 DEF Text
<1>3. From(text, n + 1) \in Text /\ Len(From(text, n + 1)) = Len(text) - (n + 1) + 1
  BY <1>2, Slices DEF Text
<1>4. Behind(text) = From(text, n + 1)
  BY DEF Behind, n
<1>5. Len(text) - (n + 1) + 1 = Len(text) - n
  BY <1>1 DEF Text
<1> QED BY <1>3, <1>4, <1>5 DEF n

LEMMA EraseShortens ==
    ASSUME NEW text \in Text, NEW n \in 1..Len(text)
    PROVE  Erase(text, n) \in Text /\ Len(Erase(text, n)) < Len(text)
<1>1. CASE n + 1 > Len(text)
  BY <1>1 DEF Erase, Text
<1>2. CASE ~(n + 1 > Len(text))
  <2>1. n + 2 \in 1..(Len(text) + 1)
    BY <1>2 DEF Text
  <2> DEFINE r == From(text, n + 2)
  <2>2. r \in Text /\ Len(r) = Len(text) - (n + 2) + 1
    BY <2>1, Slices DEF Text
  <2>3. Erase(text, n) = r \/ Erase(text, n) = <<"damaged">> \o r
    BY <1>2 DEF Erase
  <2>4. "damaged" \in Tokens
    BY WordsAssumption DEF Tokens
  <2>5. Len(text) \in Nat /\ n + 2 <= Len(text) + 1
    BY <2>1 DEF Text
  <2> HIDE DEF r
  <2>6. Len(r) < Len(text) /\ Len(r) + 1 < Len(text) + 1 /\ Len(r) + 1 <= Len(text) - n
    BY <2>2, <2>5
  <2>7. <<"damaged">> \o r \in Text /\ Len(<<"damaged">> \o r) = 1 + Len(r)
    <3>1. <<"damaged">> \in Seq(Tokens) /\ Len(<<"damaged">>) = 1
      BY <2>4
    <3> QED BY <2>2, <3>1, ConcatProperties DEF Text
  <2>8. 1 + Len(r) < Len(text)
    BY <2>5, <2>6
  <2> QED BY <2>2, <2>3, <2>6, <2>7, <2>8
<1> QED BY <1>1, <1>2

-----------------------------------------------------------------------------
(* parseBuffer *)

Splits == [lines : Seq(Text), rest : Text, past : BOOLEAN]
LineEnd(text) == FindFirstOf(text, {CR, LF})

\* What Split is: the equation by which it calls itself.
LEMMA SplitEquation ==
    ASSUME NEW text \in Text
    PROVE  /\ Split(text) \in Splits
           /\ LineEnd(text) = 0 => Split(text) = [lines |-> <<>>, rest |-> text, past |-> FALSE]
           /\ LineEnd(text) # 0 =>
                LET next == Split(Erase(text, LineEnd(text)))
                IN  Split(text) = [lines |-> <<Upto(text, LineEnd(text))>> \o next.lines,
                                   rest |-> next.rest,
                                   past |-> next.past \/ LineEnd(text) + 1 > Len(text)]
<1> DEFINE split[t \in Text] ==
            LET n == FindFirstOf(t, {CR, LF}) IN
            IF n = 0 THEN [lines |-> <<>>, rest |-> t, past |-> FALSE]
            ELSE LET next == split[Erase(t, n)]
                 IN  [lines |-> <<Upto(t, n)>> \o next.lines, rest |-> next.rest,
                      past |-> next.past \/ n + 1 > Len(t)]
           stop == {t \in Text : LineEnd(t) = 0}
           size == [t \in Text |-> Len(t)]
           base == [t \in Text |-> [lines |-> <<>>, rest |-> t, past |-> FALSE]]
           next == [t \in Text |-> IF t \in stop THEN t ELSE Erase(t, LineEnd(t))]
           Line(t) == IF t \in stop THEN <<>> ELSE <<Upto(t, LineEnd(t))>>
           Step(t, v) == [lines |-> Line(t) \o v.lines, rest |-> v.rest,
                          past |-> v.past \/ LineEnd(t) + 1 > Len(t)]
           step == [p \in Text \X Splits |-> Step(p[1], p[2])]
<1>1. ASSUME NEW t \in Text, t \notin stop
      PROVE  /\ LineEnd(t) \in 1..Len(t)
             /\ Erase(t, LineEnd(t)) \in Text /\ Len(Erase(t, LineEnd(t))) < Len(t)
             /\ Upto(t, LineEnd(t)) \in Text
  <2>1. LineEnd(t) \in 1..Len(t)
    BY <1>1, FindsFirst DEF LineEnd, Text
  <2>2. LineEnd(t) \in 1..(Len(t) + 1)
    BY <2>1 DEF Text
  <2> QED BY <2>1, <2>2, EraseShortens, Slices DEF Text
<1>2. Recursive(Text, Splits, size, stop, base, next, step)
  <2>1. size \in [Text -> Nat] /\ stop \in SUBSET Text
    BY DEF Text
  <2>2. base \in [Text -> Splits]
    BY DEF Splits
  <2>3. next \in [Text -> Text] /\ \A t \in Text \ stop : size[next[t]] < size[t]
    <3> HIDE DEF stop
    <3> QED BY <1>1
  <2>4. ASSUME NEW t \in Text, NEW v \in Splits PROVE Step(t, v) \in Splits
    <3>1. Line(t) \in Seq(Text)
      <4> HIDE DEF stop
      <4> QED BY <1>1
    <3> HIDE DEF Line
    <3>2. Line(t) \o v.lines \in Seq(Text)
      BY <3>1 DEF Splits
    <3> QED BY <3>2 DEF Splits
  <2>5. step \in [Text \X Splits -> Splits]
    <3> HIDE DEF Step
    <3> QED BY <2>4
  <2> HIDE DEF stop, step
  <2> QED BY <2>1, <2>2, <2>3, <2>5 DEF Recursive
<1>3. PICK f \in [Text -> Splits] :
         \A t \in Text : f[t] = IF t \in stop THEN base[t] ELSE step[<<t, f[next[t]]>>]
  <2> HIDE DEF stop, size, base, next, step
  <2> QED BY <1>2, Recursion DEF Computable
<1>4. ASSUME NEW t \in Text
      PROVE  f[t] = LET n == FindFirstOf(t, {CR, LF}) IN
                    IF n = 0 THEN [lines |-> <<>>, rest |-> t, past |-> FALSE]
                    ELSE LET rest == f[Erase(t, n)]
                         IN  [lines |-> <<Upto(t, n)>> \o rest.lines, rest |-> rest.rest,
                              past |-> rest.past \/ n + 1 > Len(t)]
  <2>1. CASE t \in stop
    BY <1>3, <2>1 DEF LineEnd
  <2>2. CASE t \notin stop
    <3>1. f[t] = Step(t, f[next[t]]) /\ next[t] = Erase(t, LineEnd(t))
      <4>1. next[t] = Erase(t, LineEnd(t)) /\ next[t] \in Text /\ f[next[t]] \in Splits
        <5> HIDE DEF stop
        <5> QED BY <1>1, <2>2
      <4>2. f[t] = step[<<t, f[next[t]]>>]
        BY <1>3, <2>2
      <4> HIDE DEF next, Step
      <4> QED BY <4>1, <4>2
    <3> QED BY <2>2, <3>1 DEF LineEnd
  <2> QED BY <2>1, <2>2
<1>5. f = [t \in Text |->
            LET n == FindFirstOf(t, {CR, LF}) IN
            IF n = 0 THEN [lines |-> <<>>, rest |-> t, past |-> FALSE]
            ELSE LET rest == f[Erase(t, n)]
                 IN  [lines |-> <<Upto(t, n)>> \o rest.lines, rest |-> rest.rest,
                      past |-> rest.past \/ n + 1 > Len(t)]]
  BY <1>4, Zenon
<1>6. split = [t \in Text |->
            LET n == FindFirstOf(t, {CR, LF}) IN
            IF n = 0 THEN [lines |-> <<>>, rest |-> t, past |-> FALSE]
            ELSE LET rest == split[Erase(t, n)]
                 IN  [lines |-> <<Upto(t, n)>> \o rest.lines, rest |-> rest.rest,
                      past |-> rest.past \/ n + 1 > Len(t)]]
  BY <1>5, Zenon
<1>7. \A t \in Text : Split(t) = split[t]
  BY DEF Split
<1>8. ASSUME NEW t \in Text
      PROVE  /\ t \in stop => split[t] = base[t]
             /\ t \notin stop => split[t] = Step(t, split[next[t]])
  <2> HIDE DEF split
  <2> QED BY <1>6 DEF LineEnd
<1>9. \A t \in Text : split[t] \in Splits
  <2>1. Obeys(split, Text, Splits, stop, base, next, step)
    <3> HIDE DEF split, stop, base, Step
    <3> QED BY <1>1, <1>8 DEF Obeys
  <2> HIDE DEF split, stop, size, base, next, step
  <2> QED BY <1>2, <2>1, RecursionType
<1> QED
  <2>1. split[text] \in Splits /\ Split(text) = split[text]
    BY <1>7, <1>9
  <2>2. LineEnd(text) # 0 => Split(Erase(text, LineEnd(text))) = split[Erase(text, LineEnd(text))]
    BY <1>1, <1>7
  <2> HIDE DEF split
  <2> QED BY <1>8, <2>1, <2>2

-----------------------------------------------------------------------------
(* IRCMessage::parseImplementation *)

Space(text) == FindFirstOf(text, {SP})
\* The loops over parameters end here.
LastOne(text) == text = <<>> \/ text[1] = ":" \/ Space(text) = 0

LEMMA BehindShortens ==
    ASSUME NEW text \in Text, ~LastOne(text)
    PROVE  /\ Space(text) \in 1..Len(text)
           /\ Behind(text) \in Text /\ Len(Behind(text)) < Len(text)
           /\ Upto(text, Space(text)) \in Text
<1>1. Space(text) \in 1..Len(text)
  BY FindsFirst DEF LastOne, Space, Text
<1>2. Space(text) \in 1..(Len(text) + 1)
  BY <1>1 DEF Text
<1>3. Behind(text) \in Text /\ Len(Behind(text)) = Len(text) - Space(text)
  BY BehindType DEF Space
<1> QED BY <1>1, <1>2, <1>3, Slices DEF Text

\* What Params is: the equation by which it calls itself.
LEMMA ParamsEquation ==
    ASSUME NEW text \in Text
    PROVE  /\ Params(text) \in Seq(Text)
           /\ text = <<>> \/ text[1] = ":" => Params(text) = <<>>
           /\ text # <<>> /\ text[1] # ":" /\ Space(text) = 0 => Params(text) = <<text>>
           /\ ~LastOne(text) => Params(text) = <<Upto(text, Space(text))>> \o Params(Behind(text))
<1> DEFINE params[t \in Text] ==
            CASE t = <<>> \/ t[1] = ":" -> <<>>
              [] t # <<>> /\ t[1] # ":" /\ FindFirstOf(t, {SP}) = 0 -> <<t>>
              [] OTHER -> <<Upto(t, FindFirstOf(t, {SP}))>> \o params[Behind(t)]
           stop == {t \in Text : LastOne(t)}
           size == [t \in Text |-> Len(t)]
           Base(t) == IF t = <<>> \/ t[1] = ":" THEN <<>> ELSE <<t>>
           base == [t \in Text |-> Base(t)]
           next == [t \in Text |-> IF t \in stop THEN t ELSE Behind(t)]
           Step(t, v) == <<Upto(t, Space(t))>> \o v
           StepOf(t, v) == IF t \in stop THEN <<>> ELSE Step(t, v)
           step == [p \in Text \X Seq(Text) |-> StepOf(p[1], p[2])]
<1>1. ASSUME NEW t \in Text, t \notin stop
      PROVE  /\ Behind(t) \in Text /\ Len(Behind(t)) < Len(t)
             /\ Upto(t, Space(t)) \in Text
  BY <1>1, BehindShortens
<1>2. Recursive(Text, Seq(Text), size, stop, base, next, step)
  <2>1. size \in [Text -> Nat] /\ stop \in SUBSET Text
    BY DEF Text
  <2>2. base \in [Text -> Seq(Text)]
    <3>1. \A t \in Text : Base(t) \in Seq(Text)
      OBVIOUS
    <3> HIDE DEF Base
    <3> QED BY <3>1
  <2>3. next \in [Text -> Text] /\ \A t \in Text \ stop : size[next[t]] < size[t]
    <3> HIDE DEF stop
    <3> QED BY <1>1
  <2>4. ASSUME NEW t \in Text, NEW v \in Seq(Text) PROVE StepOf(t, v) \in Seq(Text)
    <3> HIDE DEF stop
    <3> QED BY <1>1
  <2>5. step \in [Text \X Seq(Text) -> Seq(Text)]
    <3> HIDE DEF StepOf
    <3> QED BY <2>4
  <2> HIDE DEF stop, step, base
  <2> QED BY <2>1, <2>2, <2>3, <2>5 DEF Recursive
<1>3. PICK f \in [Text -> Seq(Text)] :
         \A t \in Text : f[t] = IF t \in stop THEN base[t] ELSE step[<<t, f[next[t]]>>]
  <2> HIDE DEF stop, size, base, next, step
  <2> QED BY <1>2, Recursion DEF Computable
<1>4. ASSUME NEW t \in Text
      PROVE  f[t] = CASE t = <<>> \/ t[1] = ":" -> <<>>
                      [] t # <<>> /\ t[1] # ":" /\ FindFirstOf(t, {SP}) = 0 -> <<t>>
                      [] OTHER -> <<Upto(t, FindFirstOf(t, {SP}))>> \o f[Behind(t)]
  <2>1. CASE t \in stop
    BY <1>3, <2>1 DEF Space, LastOne
  <2>2. CASE t \notin stop
    <3>1. f[t] = Step(t, f[Behind(t)])
      <4>1. next[t] = Behind(t) /\ next[t] \in Text /\ f[next[t]] \in Seq(Text)
        <5> HIDE DEF stop
        <5> QED BY <1>1, <2>2
      <4>2. f[t] = step[<<t, f[next[t]]>>]
        BY <1>3, <2>2
      <4> HIDE DEF next, Step, stop
      <4> QED BY <4>1, <4>2, <2>2
    <3> QED BY <2>2, <3>1 DEF Space, LastOne
  <2> QED BY <2>1, <2>2
<1>5. f = [t \in Text |->
            CASE t = <<>> \/ t[1] = ":" -> <<>>
              [] t # <<>> /\ t[1] # ":" /\ FindFirstOf(t, {SP}) = 0 -> <<t>>
              [] OTHER -> <<Upto(t, FindFirstOf(t, {SP}))>> \o f[Behind(t)]]
  BY <1>4, Zenon
<1>6. params = [t \in Text |->
            CASE t = <<>> \/ t[1] = ":" -> <<>>
              [] t # <<>> /\ t[1] # ":" /\ FindFirstOf(t, {SP}) = 0 -> <<t>>
              [] OTHER -> <<Upto(t, FindFirstOf(t, {SP}))>> \o params[Behind(t)]]
  BY <1>5, Zenon
<1>7. \A t \in Text : Params(t) = params[t]
  BY DEF Params
<1>8. ASSUME NEW t \in Text
      PROVE  /\ t = <<>> \/ t[1] = ":" => params[t] = <<>>
             /\ t # <<>> /\ t[1] # ":" /\ Space(t) = 0 => params[t] = <<t>>
             /\ ~LastOne(t) => params[t] = Step(t, params[Behind(t)])
  <2> HIDE DEF params
  <2> QED BY <1>6 DEF Space, LastOne
<1>9. \A t \in Text : params[t] \in Seq(Text)
  <2>1. ASSUME NEW t \in Text
        PROVE  /\ t \in stop => params[t] = base[t]
               /\ t \notin stop => params[t] = Step(t, params[next[t]])
    <3> HIDE DEF params
    <3> QED BY <1>8 DEF LastOne
  <2>2. Obeys(params, Text, Seq(Text), stop, base, next, step)
    <3> HIDE DEF params, stop, base, Step
    <3> QED BY <1>1, <2>1 DEF Obeys
  <2> HIDE DEF params, stop, size, base, next, step
  <2> QED BY <1>2, <2>2, RecursionType
<1> QED
  <2>1. ~LastOne(text) => Params(Behind(text)) = params[Behind(text)]
    BY <1>1, <1>7
  <2> HIDE DEF params
  <2> QED BY <1>7, <1>8, <1>9, <2>1

\* What Body is: the equation by which it calls itself.
LEMMA BodyEquation ==
    ASSUME NEW text \in Text
    PROVE  /\ Body(text) \in Text
           /\ text = <<>> => Body(text) = <<>>
           /\ text # <<>> /\ text[1] = ":" => Body(text) = Tail(text)
           /\ text # <<>> /\ text[1] # ":" /\ Space(text) = 0 => Body(text) = <<>>
           /\ ~LastOne(text) => Body(text) = Body(Behind(text))
<1> DEFINE body[t \in Text] ==
            CASE t = <<>> -> <<>>
              [] t # <<>> /\ t[1] = ":" -> Tail(t)
              [] OTHER -> IF FindFirstOf(t, {SP}) = 0 THEN <<>> ELSE body[Behind(t)]
           stop == {t \in Text : LastOne(t)}
           size == [t \in Text |-> Len(t)]
           Base(t) == IF t # <<>> /\ t[1] = ":" THEN Tail(t) ELSE <<>>
           base == [t \in Text |-> Base(t)]
           next == [t \in Text |-> IF t \in stop THEN t ELSE Behind(t)]
           step == [p \in Text \X Text |-> p[2]]
<1>1. ASSUME NEW t \in Text, t \notin stop
      PROVE  Behind(t) \in Text /\ Len(Behind(t)) < Len(t)
  BY <1>1, BehindShortens
<1>2. Recursive(Text, Text, size, stop, base, next, step)
  <2>1. size \in [Text -> Nat] /\ stop \in SUBSET Text
    BY DEF Text
  <2>2. base \in [Text -> Text]
    <3>1. \A t \in Text : Base(t) \in Text
      BY DEF Text
    <3> HIDE DEF Base
    <3> QED BY <3>1
  <2>3. next \in [Text -> Text] /\ \A t \in Text \ stop : size[next[t]] < size[t]
    <3> HIDE DEF stop
    <3> QED BY <1>1
  <2>4. step \in [Text \X Text -> Text]
    OBVIOUS
  <2> HIDE DEF stop, step, base
  <2> QED BY <2>1, <2>2, <2>3, <2>4 DEF Recursive
<1>3. PICK f \in [Text -> Text] :
         \A t \in Text : f[t] = IF t \in stop THEN base[t] ELSE step[<<t, f[next[t]]>>]
  <2> HIDE DEF stop, size, base, next, step
  <2> QED BY <1>2, Recursion DEF Computable
<1>4. ASSUME NEW t \in Text
      PROVE  f[t] = CASE t = <<>> -> <<>>
                      [] t # <<>> /\ t[1] = ":" -> Tail(t)
                      [] OTHER -> IF FindFirstOf(t, {SP}) = 0 THEN <<>> ELSE f[Behind(t)]
  <2>1. CASE t \in stop
    BY <1>3, <2>1 DEF Space, LastOne
  <2>2. CASE t \notin stop
    <3>1. f[t] = f[Behind(t)]
      <4>1. next[t] = Behind(t) /\ next[t] \in Text /\ f[next[t]] \in Text
        <5> HIDE DEF stop
        <5> QED BY <1>1, <2>2
      <4>2. f[t] = step[<<t, f[next[t]]>>]
        BY <1>3, <2>2
      <4> HIDE DEF next, stop
      <4> QED BY <4>1, <4>2, <2>2
    <3> QED BY <2>2, <3>1 DEF Space, LastOne
  <2> QED BY <2>1, <2>2
<1>5. f = [t \in Text |->
            CASE t = <<>> -> <<>>
              [] t # <<>> /\ t[1] = ":" -> Tail(t)
              [] OTHER -> IF FindFirstOf(t, {SP}) = 0 THEN <<>> ELSE f[Behind(t)]]
  BY <1>4, Zenon
<1>6. body = [t \in Text |->
            CASE t = <<>> -> <<>>
              [] t # <<>> /\ t[1] = ":" -> Tail(t)
              [] OTHER -> IF FindFirstOf(t, {SP}) = 0 THEN <<>> ELSE body[Behind(t)]]
  BY <1>5, Zenon
<1>7. \A t \in Text : Body(t) = body[t]
  BY DEF Body
<1>8. ASSUME NEW t \in Text
      PROVE  /\ t = <<>> => body[t] = <<>>
             /\ t # <<>> /\ t[1] = ":" => body[t] = Tail(t)
             /\ t # <<>> /\ t[1] # ":" /\ Space(t) = 0 => body[t] = <<>>
             /\ ~LastOne(t) => body[t] = body[Behind(t)]
  <2> HIDE DEF body
  <2> QED BY <1>6 DEF Space, LastOne
<1>9. \A t \in Text : body[t] \in Text
  <2>1. ASSUME NEW t \in Text
        PROVE  /\ t \in stop => body[t] = base[t]
               /\ t \notin stop => body[t] = body[next[t]]
    <3> HIDE DEF body
    <3> QED BY <1>8 DEF LastOne
  <2>2. Obeys(body, Text, Text, stop, base, next, step)
    <3> HIDE DEF body, stop, base
    <3> QED BY <1>1, <2>1 DEF Obeys
  <2> HIDE DEF body, stop, size, base, next, step
  <2> QED BY <1>2, <2>2, RecursionType
<1> QED
  <2>1. ~LastOne(text) => Body(Behind(text)) = body[Behind(text)]
    BY <1>1, <1>7
  <2> HIDE DEF body
  <2> QED BY <1>7, <1>8, <1>9, <2>1

-----------------------------------------------------------------------------
(* What the server writes, the bot reads *)

Inner == Tokens \ {CR, LF}
Proper == [from : Words \union {""}, command : Words, params : Seq(Words), body : Seq(Inner)]

\* The parameters and the body of a line, and the same without the space before them.
Arguments(q, b) ==
    [i \in 1..(2 * Len(q)) |-> IF i % 2 = 1 THEN SP ELSE q[i \div 2]]
    \o (IF b = <<>> THEN <<>> ELSE <<SP, ":">> \o b)
Trimmed(q, b) == From(Arguments(q, b), 2)

LEMMA Vocabulary ==
    /\ \A w \in Words : w \in Tokens /\ w \in Inner /\ w \notin {CR, LF, SP, ":", "!", "@"} /\ w # ""
    /\ SP \in Inner /\ ":" \in Inner /\ "!" \in Inner /\ "@" \in Inner /\ "damaged" \in Inner
    /\ Inner \subseteq Tokens
    /\ CR \in Tokens /\ LF \in Tokens /\ "srv" \in Words /\ "host" \in Words
    /\ Inner \intersect {CR, LF} = {}
BY WordsAssumption DEF Tokens, Inner, Characters, CR, LF, SP

LEMMA Halves ==
    ASSUME NEW n \in Nat, NEW i \in 1..(2 * n)
    PROVE  /\ i % 2 # 1 => i \div 2 \in 1..n
           /\ (i + 2) % 2 = i % 2 /\ (i + 2) \div 2 = (i \div 2) + 1
OBVIOUS

LEMMA ArgumentsAre ==
    ASSUME NEW q \in Seq(Words), NEW b \in Seq(Inner)
    PROVE  /\ Arguments(q, b) \in Seq(Inner)
           /\ Len(Arguments(q, b)) = 2 * Len(q) + (IF b = <<>> THEN 0 ELSE 2 + Len(b))
           /\ \A i \in 1..(2 * Len(q)) :
                Arguments(q, b)[i] = IF i % 2 = 1 THEN SP ELSE q[i \div 2]
           /\ b # <<>> => \A i \in 1..(2 + Len(b)) :
                Arguments(q, b)[2 * Len(q) + i] =
                    IF i = 1 THEN SP ELSE IF i = 2 THEN ":" ELSE b[i - 2]
<1> DEFINE Item(i) == IF i % 2 = 1 THEN SP ELSE q[i \div 2]
           first == [i \in 1..(2 * Len(q)) |-> Item(i)]
           last == IF b = <<>> THEN <<>> ELSE <<SP, ":">> \o b
<1>1. first \in Seq(Inner) /\ Len(first) = 2 * Len(q) /\ \A i \in 1..(2 * Len(q)) : first[i] = Item(i)
  <2>1. ASSUME NEW i \in 1..(2 * Len(q)) PROVE Item(i) \in Inner
    <3>1. CASE i % 2 = 1
      BY <3>1, Vocabulary
    <3>2. CASE i % 2 # 1
      <4>1. i \div 2 \in 1..Len(q)
        BY <3>2, Halves
      <4>2. q[i \div 2] \in Words
        BY <4>1
      <4> QED BY <3>2, <4>2, Vocabulary
    <3> QED BY <3>1, <3>2
  <2> HIDE DEF Item
  <2> QED BY <2>1
<1>2. /\ last \in Seq(Inner) /\ Len(last) = IF b = <<>> THEN 0 ELSE 2 + Len(b)
      /\ b # <<>> => \A i \in 1..(2 + Len(b)) :
            last[i] = IF i = 1 THEN SP ELSE IF i = 2 THEN ":" ELSE b[i - 2]
  <2> DEFINE h == <<SP, ":">>
  <2>1. h \in Seq(Inner) /\ Len(h) = 2 /\ h[1] = SP /\ h[2] = ":"
    <3>1. SP \in Inner /\ ":" \in Inner
      BY Vocabulary
    <3> QED BY <3>1
  <2>2. last = IF b = <<>> THEN <<>> ELSE h \o b
    OBVIOUS
  <2> HIDE DEF h, last
  <2>3. /\ h \o b \in Seq(Inner) /\ Len(h \o b) = Len(h) + Len(b)
        /\ \A i \in 1..(Len(h) + Len(b)) :
             (h \o b)[i] = IF i <= Len(h) THEN h[i] ELSE b[i - Len(h)]
    BY <2>1, ConcatProperties
  <2>4. \A i \in 1..(2 + Len(b)) : i <= 2 => i = 1 \/ i = 2
    OBVIOUS
  <2> QED BY <2>1, <2>2, <2>3, <2>4
<1>3. Arguments(q, b) = first \o last
  BY DEF Arguments
<1> HIDE DEF first, last, Item
<1>4. /\ first \o last \in Seq(Inner) /\ Len(first \o last) = Len(first) + Len(last)
      /\ \A i \in 1..(Len(first) + Len(last)) :
            (first \o last)[i] = IF i <= Len(first) THEN first[i] ELSE last[i - Len(first)]
  BY <1>1, <1>2, ConcatProperties
<1>5. \A i \in 1..(2 * Len(q)) : Arguments(q, b)[i] = IF i % 2 = 1 THEN SP ELSE q[i \div 2]
  BY <1>1, <1>2, <1>3, <1>4 DEF Item
<1>6. ASSUME NEW i \in 1..Len(last) PROVE Arguments(q, b)[2 * Len(q) + i] = last[i]
  <2>1. /\ 2 * Len(q) + i \in 1..(Len(first) + Len(last)) /\ ~(2 * Len(q) + i <= Len(first))
        /\ (2 * Len(q) + i) - Len(first) = i
    BY <1>1, <1>2
  <2> QED BY <1>3, <1>4, <2>1
<1>7. Arguments(q, b) \in Seq(Inner) /\ Len(Arguments(q, b)) = 2 * Len(q) + Len(last)
  BY <1>1, <1>3, <1>4
<1> QED BY <1>2, <1>5, <1>6, <1>7

\* Without its first parameter.
LEMMA ArgumentsTail ==
    ASSUME NEW q \in Seq(Words), NEW b \in Seq(Inner), q # <<>>
    PROVE  From(Arguments(q, b), 3) = Arguments(Tail(q), b)
<1> DEFINE a == Arguments(q, b)
           c == Arguments(Tail(q), b)
           n == Len(q)
           k == IF b = <<>> THEN 0 ELSE 2 + Len(b)
<1>1. n \in Nat \ {0} /\ Tail(q) \in Seq(Words) /\ Len(Tail(q)) = n - 1 /\ k \in Nat
  OBVIOUS
<1>2. /\ a \in Seq(Inner) /\ Len(a) = 2 * n + k
      /\ \A i \in 1..(2 * n) : a[i] = IF i % 2 = 1 THEN SP ELSE q[i \div 2]
      /\ b # <<>> => \A i \in 1..k : a[2 * n + i] =
                        IF i = 1 THEN SP ELSE IF i = 2 THEN ":" ELSE b[i - 2]
  BY ArgumentsAre
<1>3. /\ c \in Seq(Inner) /\ Len(c) = 2 * (n - 1) + k
      /\ \A i \in 1..(2 * (n - 1)) : c[i] = IF i % 2 = 1 THEN SP ELSE Tail(q)[i \div 2]
      /\ b # <<>> => \A i \in 1..k : c[2 * (n - 1) + i] =
                        IF i = 1 THEN SP ELSE IF i = 2 THEN ":" ELSE b[i - 2]
  <2> DEFINE r == Tail(q)
  <2>1. r \in Seq(Words) /\ Len(r) = n - 1
    BY <1>1
  <2> HIDE DEF r, n
  <2>2. /\ c \in Seq(Inner) /\ Len(c) = 2 * Len(r) + (IF b = <<>> THEN 0 ELSE 2 + Len(b))
        /\ \A i \in 1..(2 * Len(r)) : c[i] = IF i % 2 = 1 THEN SP ELSE r[i \div 2]
        /\ b # <<>> => \A i \in 1..(2 + Len(b)) : c[2 * Len(r) + i] =
                          IF i = 1 THEN SP ELSE IF i = 2 THEN ":" ELSE b[i - 2]
    BY <2>1, ArgumentsAre DEF r
  <2> HIDE DEF c
  <2> QED BY <2>1, <2>2 DEF r
<1>4. \A i \in 1..(n - 1) : Tail(q)[i] = q[i + 1]
  OBVIOUS
<1>5. b = <<>> => k = 0
  OBVIOUS
<1> HIDE DEF a, c, n, k
<1>6. 3 \in 1..(Len(a) + 1)
  BY <1>1, <1>2
<1>7. /\ From(a, 3) \in Seq(Inner) /\ Len(From(a, 3)) = Len(a) - 3 + 1
      /\ \A i \in 1..(Len(a) - 3 + 1) : From(a, 3)[i] = a[2 + i]
  <2>1. /\ From(a, 3) \in Seq(Inner) /\ Len(From(a, 3)) = Len(a) - 3 + 1
        /\ \A i \in 1..(Len(a) - 3 + 1) : From(a, 3)[i] = a[3 - 1 + i]
    BY <1>2, <1>6, Slices
  <2>2. \A i \in 1..(Len(a) - 3 + 1) : 3 - 1 + i = 2 + i
    OBVIOUS
  <2> QED BY <2>1, <2>2
<1>8. Len(From(a, 3)) = Len(c)
  BY <1>1, <1>2, <1>3, <1>7
<1>9. ASSUME NEW i \in 1..Len(c) PROVE c[i] = a[2 + i]
  <2>1. CASE i <= 2 * (n - 1)
    <3>1. i \in 1..(2 * (n - 1)) /\ 2 + i \in 1..(2 * n) /\ n - 1 \in Nat
      BY <1>1, <2>1
    <3>2. /\ i % 2 # 1 => i \div 2 \in 1..(n - 1)
          /\ (2 + i) % 2 = i % 2 /\ (2 + i) \div 2 = (i \div 2) + 1
      BY <3>1, Halves
    <3>3. CASE i % 2 = 1
      BY <1>2, <1>3, <3>1, <3>2, <3>3
    <3>4. CASE i % 2 # 1
      <4>1. c[i] = q[(i \div 2) + 1]
        BY <1>3, <1>4, <3>1, <3>2, <3>4
      <4>2. a[2 + i] = q[(2 + i) \div 2]
        BY <1>2, <3>1, <3>2, <3>4
      <4> QED BY <3>2, <3>4, <4>1, <4>2
    <3> QED BY <3>3, <3>4
  <2>2. CASE ~(i <= 2 * (n - 1))
    <3> DEFINE j == i - 2 * (n - 1)
    <3>1. j \in 1..k /\ i = 2 * (n - 1) + j /\ 2 + i = 2 * n + j /\ b # <<>>
      BY <1>1, <1>3, <1>5, <2>2
    <3> HIDE DEF j
    <3> QED BY <1>2, <1>3, <3>1
  <2> QED BY <2>1, <2>2
<1>10. \A i \in 1..Len(c) : From(a, 3)[i] = c[i]
  <2>1. Len(a) - 3 + 1 = Len(c)
    BY <1>7, <1>8
  <2> QED BY <2>1, <1>7, <1>9
<1>11. From(a, 3) = c
  BY <1>3, <1>7, <1>8, <1>10, SeqEqual
<1> QED BY <1>11 DEF a, c

LEMMA TrimmedIs ==
    ASSUME NEW q \in Seq(Words), NEW b \in Seq(Inner), q # <<>> \/ b # <<>>
    PROVE  /\ Trimmed(q, b) \in Text /\ Trimmed(q, b) # <<>>
           /\ q = <<>> => Trimmed(q, b)[1] = ":" /\ Tail(Trimmed(q, b)) = b
           /\ q # <<>> =>
                /\ Trimmed(q, b)[1] # ":"
                /\ Len(q) = 1 /\ b = <<>> =>
                     Trimmed(q, b) = <<q[1]>> /\ Space(Trimmed(q, b)) = 0
                /\ Len(q) # 1 \/ b # <<>> =>
                     /\ Space(Trimmed(q, b)) = 2
                     /\ Upto(Trimmed(q, b), 2) = <<q[1]>>
                     /\ Behind(Trimmed(q, b)) = Trimmed(Tail(q), b)
<1> DEFINE a == Arguments(q, b)
           t == Trimmed(q, b)
           n == Len(q)
           k == IF b = <<>> THEN 0 ELSE 2 + Len(b)
<1>1. /\ a \in Seq(Inner) /\ Len(a) = 2 * n + k
      /\ \A i \in 1..(2 * n) : a[i] = IF i % 2 = 1 THEN SP ELSE q[i \div 2]
      /\ b # <<>> => \A i \in 1..k : a[2 * n + i] =
                        IF i = 1 THEN SP ELSE IF i = 2 THEN ":" ELSE b[i - 2]
  BY ArgumentsAre
<1>2. n \in Nat /\ k \in Nat /\ (q # <<>> <=> n # 0) /\ (b # <<>> => k >= 3) /\ (b = <<>> => k = 0)
  OBVIOUS
<1>3. t = From(a, 2)
  BY DEF Trimmed
<1>4. Inner \subseteq Tokens
  BY Vocabulary
<1> HIDE DEF a, k, n, t
<1>5. Len(a) >= 2 /\ 2 \in 1..(Len(a) + 1)
  BY <1>1, <1>2
<1>6. /\ t \in Seq(Inner) /\ Len(t) = Len(a) - 1
      /\ \A i \in 1..(Len(a) - 1) : t[i] = a[i + 1]
  <2>1. /\ t \in Seq(Inner) /\ Len(t) = Len(a) - 2 + 1
        /\ \A i \in 1..(Len(a) - 2 + 1) : t[i] = a[2 - 1 + i]
    BY <1>1, <1>3, <1>5, Slices
  <2>2. Len(a) - 2 + 1 = Len(a) - 1 /\ \A i \in 1..(Len(a) - 1) : 2 - 1 + i = i + 1
    BY <1>1
  <2> QED BY <2>1, <2>2
<1>7. t \in Text /\ t # <<>>
  BY <1>4, <1>5, <1>6 DEF Text
<1>8. CASE q = <<>>
  <2>1. n = 0 /\ b # <<>> /\ Len(a) = 2 + Len(b) /\ k = 2 + Len(b)
    BY <1>1, <1>2, <1>8 DEF k
  <2>2. \A i \in 1..(2 + Len(b)) : a[i] = IF i = 1 THEN SP ELSE IF i = 2 THEN ":" ELSE b[i - 2]
    <3>1. \A i \in 1..k : 2 * n + i = i
      BY <2>1
    <3> QED BY <1>1, <2>1, <3>1
  <2>3. t[1] = ":" /\ Len(t) = 1 + Len(b) /\ \A i \in 1..Len(b) : t[i + 1] = b[i]
    BY <1>6, <2>1, <2>2
  <2>4. Tail(t) \in Seq(Inner) /\ Len(Tail(t)) = Len(b) /\ \A i \in 1..Len(b) : Tail(t)[i] = t[i + 1]
    BY <1>6, <1>7, <2>3, HeadTailProperties
  <2>5. Tail(t) = b
    BY <2>3, <2>4, SeqEqual
  <2> QED BY <1>7, <1>8, <2>3, <2>5 DEF t
<1>9. CASE q # <<>>
  <2>1. q[1] \in Words /\ q[1] # ":" /\ q[1] # SP
    <3>1. q[1] \in Words
      BY <1>9
    <3> QED BY <3>1, Vocabulary
  <2>2. a[2] = q[1] /\ t[1] = q[1]
    <3>1. 2 \in 1..(2 * n) /\ 2 % 2 # 1 /\ 2 \div 2 = 1 /\ 1 \in 1..(Len(a) - 1)
      BY <1>2, <1>5, <1>9
    <3>2. a[2] = IF 2 % 2 = 1 THEN SP ELSE q[2 \div 2]
      BY <1>1, <3>1
    <3>3. t[1] = a[1 + 1]
      BY <1>6, <3>1
    <3> QED BY <3>1, <3>2, <3>3
  <2>3. ASSUME n = 1, b = <<>> PROVE t = <<q[1]>> /\ Space(t) = 0
    <3>1. Len(t) = 1
      BY <1>1, <1>2, <1>6, <2>3
    <3>2. t = <<q[1]>>
      BY <1>6, <2>2, <3>1
    <3>3. \A i \in 1..Len(t) : t[i] \notin {SP}
      BY <2>1, <2>2, <3>1
    <3> QED BY <1>6, <3>2, <3>3, FindsNothing DEF Space
  <2>4. ASSUME n # 1 \/ b # <<>>
        PROVE  /\ Space(t) = 2 /\ Upto(t, 2) = <<q[1]>>
               /\ Behind(t) = Trimmed(Tail(q), b)
    <3>1. a[3] = SP /\ Len(a) >= 4
      <4>1. CASE n # 1
        <5>1. 3 \in 1..(2 * n) /\ 3 % 2 = 1
          BY <1>2, <1>9, <4>1
        <5> QED BY <1>1, <1>2, <1>9, <4>1, <5>1
      <4>2. CASE n = 1
        <5>1. k >= 3 /\ 1 \in 1..k /\ 2 * n + 1 = 3 /\ b # <<>>
          BY <1>2, <2>4, <4>2
        <5>2. a[2 * n + 1] = SP
          BY <1>1, <5>1
        <5>3. Len(a) >= 4
          BY <1>1, <1>2, <4>2, <5>1
        <5> QED BY <5>1, <5>2, <5>3
      <4> QED BY <4>1, <4>2
    <3>2. t[2] = SP /\ Len(t) >= 3
      BY <1>6, <3>1
    <3>3. 2 \in 1..Len(t) /\ t[2] \in {SP} /\ \A i \in 1..(2 - 1) : t[i] \notin {SP}
      BY <2>1, <2>2, <3>2
    <3>4. Space(t) = 2
      BY <1>6, <3>3, FindsAt DEF Space
    <3>5. Upto(t, 2) = <<q[1]>>
      <4>1. 2 \in 1..(Len(t) + 1)
        BY <3>2
      <4>2. Upto(t, 2) \in Seq(Inner) /\ Len(Upto(t, 2)) = 2 - 1
            /\ \A i \in 1..(2 - 1) : Upto(t, 2)[i] = t[i]
        <5> DEFINE z == 2
        <5>1. t \in Seq(Inner) /\ z \in 1..(Len(t) + 1)
          BY <1>6, <4>1
        <5> HIDE DEF z
        <5>2. Upto(t, z) \in Seq(Inner) /\ Len(Upto(t, z)) = z - 1
              /\ \A i \in 1..(z - 1) : Upto(t, z)[i] = t[i]
          BY <5>1, Slices
        <5> QED BY <5>2 DEF z
      <4> QED BY <2>2, <4>2
    <3>6. Behind(t) = From(t, 3)
      BY <3>4 DEF Behind, Space
    <3>7. From(t, 3) = From(a, 4)
      <4>1. 3 \in 1..(Len(a) - 2 + 2) /\ 2 + 3 - 1 = 4
        BY <3>1
      <4> QED BY <1>1, <1>3, <1>5, <4>1, SliceOfSlice
    <3>8. From(Arguments(Tail(q), b), 2) = From(a, 4)
      <4>1. From(a, 3) = Arguments(Tail(q), b)
        BY <1>9, ArgumentsTail DEF a
      <4>2. 3 \in 1..(Len(a) + 1) /\ 2 \in 1..(Len(a) - 3 + 2) /\ 3 + 2 - 1 = 4
        BY <3>1
      <4> QED BY <1>1, <4>1, <4>2, SliceOfSlice
    <3> QED BY <3>4, <3>5, <3>6, <3>7, <3>8 DEF Trimmed
  <2> QED BY <1>7, <1>9, <2>1, <2>2, <2>3, <2>4 DEF t, n
<1> QED BY <1>8, <1>9

\* What was written as parameters and body is read as parameters and body.
LEMMA ReadsArguments ==
    ASSUME NEW b \in Seq(Inner)
    PROVE  \A q \in Seq(Words) : q # <<>> \/ b # <<>> =>
              /\ Params(Trimmed(q, b)) = [i \in 1..Len(q) |-> <<q[i]>>]
              /\ Body(Trimmed(q, b)) = b
<1> DEFINE Reads(q) == /\ Params(Trimmed(q, b)) = [i \in 1..Len(q) |-> <<q[i]>>]
                       /\ Body(Trimmed(q, b)) = b
           Right == {n \in Nat : \A q \in Seq(Words) :
                        Len(q) = n /\ (q # <<>> \/ b # <<>>) => Reads(q)}
<1>1. 0 \in Right
  <2> SUFFICES ASSUME NEW q \in Seq(Words), Len(q) = 0, b # <<>> PROVE Reads(q)
    OBVIOUS
  <2> DEFINE t == Trimmed(q, b)
  <2>1. q = <<>>
    OBVIOUS
  <2>2. t \in Text /\ t # <<>> /\ t[1] = ":" /\ Tail(t) = b
    BY <2>1, TrimmedIs
  <2> HIDE DEF t
  <2>3. Params(t) = <<>> /\ Body(t) = b
    BY <2>2, ParamsEquation, BodyEquation
  <2>4. [i \in 1..Len(q) |-> <<q[i]>>] = <<>>
    BY <2>1
  <2> QED BY <2>3, <2>4 DEF t
<1>2. ASSUME NEW n \in Nat, n \in Right PROVE n + 1 \in Right
  <2> SUFFICES ASSUME NEW q \in Seq(Words), Len(q) = n + 1 PROVE Reads(q)
    OBVIOUS
  <2> DEFINE t == Trimmed(q, b)
             r == Tail(q)
             u == Trimmed(r, b)
  <2>1. q # <<>> /\ r \in Seq(Words) /\ Len(r) = n /\ \A i \in 1..n : r[i] = q[i + 1]
    OBVIOUS
  <2>2. /\ t \in Text /\ t # <<>> /\ t[1] # ":"
        /\ Len(q) = 1 /\ b = <<>> => t = <<q[1]>> /\ Space(t) = 0
        /\ Len(q) # 1 \/ b # <<>> => Space(t) = 2 /\ Upto(t, 2) = <<q[1]>> /\ Behind(t) = u
    BY <2>1, TrimmedIs
  <2> HIDE DEF t, u
  <2>3. CASE Len(q) = 1 /\ b = <<>>
    <3>1. Params(t) = <<t>> /\ Body(t) = <<>>
      BY <2>2, <2>3, ParamsEquation, BodyEquation
    <3>2. [i \in 1..Len(q) |-> <<q[i]>>] = <<t>>
      <4> DEFINE Item(i) == <<q[i]>>
                 all == [i \in 1..Len(q) |-> Item(i)]
      <4>1. \A i \in 1..Len(q) : Item(i) \in Seq(Words)
        OBVIOUS
      <4>2. Item(1) = t
        BY <2>2, <2>3
      <4> HIDE DEF Item
      <4>3. all \in Seq(Seq(Words)) /\ Len(all) = 1 /\ all[1] = Item(1)
        <5>1. Len(q) = 1
          BY <2>3, Zenon
        <5>2. all \in Seq(Seq(Words)) /\ Len(all) = Len(q) /\ \A i \in 1..Len(q) : all[i] = Item(i)
          BY <4>1
        <5> HIDE DEF all
        <5> QED BY <5>1, <5>2
      <4> HIDE DEF all
      <4>4. <<Item(1)>> \in Seq(Seq(Words))
        BY <2>3, <4>1
      <4>5. all = <<Item(1)>>
        BY <4>3, <4>4, SeqEqual
      <4> QED BY <4>2, <4>5 DEF all, Item
    <3> QED BY <2>3, <3>1, <3>2 DEF t
  <2>4. CASE ~(Len(q) = 1 /\ b = <<>>)
    <3>1. r # <<>> \/ b # <<>>
      <4>1. CASE b = <<>>
        <5>1. n # 0
          BY <2>4, <4>1
        <5> HIDE DEF r
        <5> QED BY <2>1, <5>1
      <4> QED BY <4>1
    <3>2. Params(u) = [i \in 1..n |-> <<r[i]>>] /\ Body(u) = b
      BY <1>2, <2>1, <3>1 DEF u
    <3>3. ~LastOne(t)
      BY <2>2, <2>4 DEF LastOne
    <3>4. Params(t) = <<Upto(t, 2)>> \o Params(u) /\ Body(t) = Body(u)
      BY <2>2, <2>4, <3>3, ParamsEquation, BodyEquation
    <3>5. Params(t) = <<<<q[1]>>>> \o [i \in 1..n |-> <<r[i]>>]
      BY <2>2, <2>4, <3>2, <3>4
    <3>6. <<<<q[1]>>>> \o [i \in 1..n |-> <<r[i]>>] = [i \in 1..Len(q) |-> <<q[i]>>]
      <4> DEFINE one == <<<<q[1]>>>>
                 more == [i \in 1..n |-> <<r[i]>>]
                 all == [i \in 1..Len(q) |-> <<q[i]>>]
      <4>1. one \in Seq(Seq(Words)) /\ Len(one) = 1 /\ one[1] = <<q[1]>>
        BY <2>1
      <4>2. more \in Seq(Seq(Words)) /\ Len(more) = n /\ \A i \in 1..n : more[i] = <<q[i + 1]>>
        BY <2>1
      <4>3. all \in Seq(Seq(Words)) /\ Len(all) = n + 1 /\ \A i \in 1..(n + 1) : all[i] = <<q[i]>>
        <5>1. \A i \in 1..Len(q) : q[i] \in Words
          OBVIOUS
        <5> QED BY <5>1
      <4> HIDE DEF one, more, all
      <4>4. /\ one \o more \in Seq(Seq(Words)) /\ Len(one \o more) = Len(one) + Len(more)
            /\ \A i \in 1..(Len(one) + Len(more)) :
                 (one \o more)[i] = IF i <= Len(one) THEN one[i] ELSE more[i - Len(one)]
        BY <4>1, <4>2, ConcatProperties
      <4>5. ASSUME NEW i \in 1..(n + 1) PROVE (one \o more)[i] = all[i]
        <5>1. CASE i = 1
          <6>1. 1 \in 1..(Len(one) + Len(more)) /\ 1 <= Len(one) /\ 1 \in 1..(n + 1)
            BY <4>1, <4>2
          <6>2. (one \o more)[1] = one[1]
            BY <4>4, <6>1
          <6> QED BY <4>1, <4>3, <5>1, <6>1, <6>2
        <5>2. CASE i # 1
          <6>1. i - 1 \in 1..n /\ (i - 1) + 1 = i /\ ~(i <= Len(one))
            BY <4>1, <5>2
          <6>2. (one \o more)[i] = more[i - 1]
            BY <4>1, <4>2, <4>4, <6>1
          <6> QED BY <4>2, <4>3, <6>1, <6>2
        <5> QED BY <5>1, <5>2
      <4>6. Len(one \o more) = Len(all)
        BY <4>1, <4>2, <4>3, <4>4
      <4> QED BY <4>3, <4>4, <4>5, <4>6, SeqEqual
    <3> QED BY <3>2, <3>4, <3>5, <3>6 DEF t
  <2> QED BY <2>3, <2>4
<1>3. \A n \in Nat : n \in Right
  <2> HIDE DEF Right
  <2> QED BY <1>1, <1>2, SetInduction
<1>4. \A q \in Seq(Words) : Len(q) \in Nat
  OBVIOUS
<1> QED BY <1>3, <1>4

Directive(m) == <<m.command>> \o Arguments(m.params, m.body)

LEMMA ReadsDirective ==
    ASSUME NEW m \in Proper
    PROVE  /\ Directive(m) \in Seq(Inner) /\ Directive(m) # <<>> /\ Directive(m)[1] # ":"
           /\ (IF Space(Directive(m)) = 0 THEN Directive(m)
                 ELSE Upto(Directive(m), Space(Directive(m)))) = <<m.command>>
           /\ Params(Behind(Directive(m))) = Fields(m).params
           /\ Body(Behind(Directive(m))) = m.body
<1> DEFINE q == m.params
           b == m.body
           a == Arguments(q, b)
           c == <<m.command>>
           t == Directive(m)
<1>1. q \in Seq(Words) /\ b \in Seq(Inner) /\ m.command \in Words
  BY DEF Proper
<1>2. m.command \in Inner /\ m.command # SP /\ m.command # ":" /\ Inner \subseteq Tokens
  BY <1>1, Vocabulary
<1>3. c \in Seq(Inner) /\ Len(c) = 1 /\ c[1] = m.command
  BY <1>2
<1>4. a \in Seq(Inner)
  BY <1>1, ArgumentsAre
<1>5. t = c \o a
  BY DEF Directive
<1>6. Fields(m).params = IF q = <<>> /\ b = <<>> THEN <<c>> ELSE [i \in 1..Len(q) |-> <<q[i]>>]
  <2>1. DOMAIN m.params = 1..Len(m.params)
    BY <1>1
  <2> QED BY <2>1 DEF Fields
<1> HIDE DEF c, a, t
<1>7. /\ t \in Seq(Inner) /\ Len(t) = Len(c) + Len(a)
      /\ \A i \in 1..(Len(c) + Len(a)) : t[i] = IF i <= Len(c) THEN c[i] ELSE a[i - Len(c)]
  BY <1>3, <1>4, <1>5, ConcatProperties
<1>8. t # <<>> /\ t[1] = m.command /\ t \in Text
  <2>1. 1 \in 1..(Len(c) + Len(a)) /\ 1 <= Len(c)
    BY <1>3, <1>4
  <2>2. t[1] = m.command
    BY <1>3, <1>7, <2>1
  <2> QED BY <1>2, <1>3, <1>4, <1>7, <2>2 DEF Text
<1>9. CASE q = <<>> /\ b = <<>>
  <2>1. a = <<>>
    <3>1. Len(a) = 0
      <4>1. Len(a) = 2 * Len(q) + (IF b = <<>> THEN 0 ELSE 2 + Len(b))
        BY <1>1, ArgumentsAre DEF a
      <4> HIDE DEF q, b
      <4> QED BY <1>9, <4>1
    <3> QED BY <1>4, <3>1
  <2>2. t = c
    BY <1>3, <1>5, <2>1, ConcatEmptySeq
  <2>3. \A i \in 1..Len(t) : t[i] \notin {SP}
    <3>1. Len(t) = 1 /\ t[1] = m.command
      BY <1>3, <2>2
    <3> QED BY <1>2, <3>1
  <2>4. Space(t) = 0
    BY <1>7, <2>3, FindsNothing DEF Space
  <2>5. Behind(t) = t
    <3>1. Behind(t) = From(t, 1)
      BY <2>4 DEF Behind, Space
    <3> QED BY <1>7, <3>1, SubSeqFull DEF From
  <2>6. Params(t) = <<t>> /\ Body(t) = <<>>
    BY <1>2, <1>8, <2>4, ParamsEquation, BodyEquation
  <2> QED BY <1>2, <1>6, <1>7, <1>8, <1>9, <2>2, <2>4, <2>5, <2>6 DEF t, c
<1>10. CASE ~(q = <<>> /\ b = <<>>)
  <2>1. Len(a) >= 2 /\ a[1] = SP
    <3>1. /\ Len(a) = 2 * Len(q) + (IF b = <<>> THEN 0 ELSE 2 + Len(b))
          /\ \A i \in 1..(2 * Len(q)) : a[i] = IF i % 2 = 1 THEN SP ELSE q[i \div 2]
          /\ b # <<>> => \A i \in 1..(2 + Len(b)) :
                a[2 * Len(q) + i] = IF i = 1 THEN SP ELSE IF i = 2 THEN ":" ELSE b[i - 2]
      BY <1>1, ArgumentsAre DEF a
    <3> HIDE DEF q, b
    <3>2. CASE q = <<>>
      <4>1. Len(q) = 0 /\ b # <<>> /\ 1 \in 1..(2 + Len(b)) /\ 2 * Len(q) + 1 = 1
        BY <1>1, <1>10, <3>2
      <4>2. a[2 * Len(q) + 1] = SP
        BY <3>1, <4>1
      <4>3. Len(b) \in Nat
        BY <1>1
      <4> QED BY <3>1, <4>1, <4>2, <4>3
    <3>3. CASE q # <<>>
      <4>1. Len(q) \in Nat /\ Len(q) >= 1 /\ Len(b) \in Nat
        BY <1>1, <3>3
      <4>2. 1 \in 1..(2 * Len(q)) /\ 1 % 2 = 1
        BY <4>1
      <4>3. a[1] = SP
        BY <3>1, <4>2
      <4> DEFINE k == IF b = <<>> THEN 0 ELSE 2 + Len(b)
      <4>4. k \in Nat /\ Len(a) = 2 * Len(q) + k
        BY <3>1, <4>1
      <4> HIDE DEF k
      <4> QED BY <4>1, <4>3, <4>4
    <3> QED BY <3>2, <3>3
  <2>2. t[2] = SP /\ Len(t) >= 3
    <3>1. 2 \in 1..(Len(c) + Len(a)) /\ ~(2 <= Len(c)) /\ 2 - Len(c) = 1
      BY <1>3, <1>4, <2>1
    <3>2. t[2] = a[1]
      BY <1>7, <3>1
    <3> QED BY <1>3, <1>4, <1>7, <2>1, <3>2
  <2>3. 2 \in 1..Len(t) /\ t[2] \in {SP} /\ \A i \in 1..(2 - 1) : t[i] \notin {SP}
    BY <1>2, <1>8, <2>2
  <2>4. Space(t) = 2
    BY <1>7, <2>3, FindsAt DEF Space
  <2>5. Upto(t, 2) = c
    <3>1. Len(c) + 1 = 2
      BY <1>3
    <3> QED BY <1>3, <1>4, <1>5, <3>1, UptoConcat
  <2>6. Behind(t) = Trimmed(q, b)
    <3>1. Behind(t) = From(t, 3)
      BY <2>4 DEF Behind, Space
    <3>2. From(t, 2) = a
      <4>1. Len(c) + 1 = 2
        BY <1>3
      <4> QED BY <1>3, <1>4, <1>5, <4>1, FromConcat
    <3>3. From(From(t, 2), 2) = From(t, 3)
      <4>1. 2 \in 1..(Len(t) + 1) /\ 2 \in 1..(Len(t) - 2 + 2) /\ 2 + 2 - 1 = 3
        BY <1>7, <2>2
      <4> QED BY <1>7, <4>1, SliceOfSlice
    <3> QED BY <3>1, <3>2, <3>3 DEF Trimmed, a
  <2>7. Params(Behind(t)) = [i \in 1..Len(q) |-> <<q[i]>>] /\ Body(Behind(t)) = b
    BY <1>1, <1>10, <2>6, ReadsArguments
  <2> HIDE DEF q, b
  <2>8. Fields(m).params = Params(Behind(t))
    BY <1>6, <1>10, <2>7
  <2> QED BY <1>2, <1>7, <1>8, <2>4, <2>5, <2>7, <2>8 DEF t, c, q, b
<1> QED BY <1>9, <1>10

LEMMA ArgumentParts ==
    ASSUME NEW q \in Seq(Words), NEW b \in Seq(Inner)
    PROVE  /\ [i \in 1..(2 * Len(q)) |-> IF i % 2 = 1 THEN SP ELSE q[i \div 2]] \in Seq(Inner)
           /\ (IF b = <<>> THEN <<>> ELSE <<SP, ":">> \o b) \in Seq(Inner)
<1> DEFINE Item(i) == IF i % 2 = 1 THEN SP ELSE q[i \div 2]
<1>1. ASSUME NEW i \in 1..(2 * Len(q)) PROVE Item(i) \in Inner
  <2>1. CASE i % 2 = 1
    BY <2>1, Vocabulary
  <2>2. CASE i % 2 # 1
    <3>1. i \div 2 \in 1..Len(q)
      BY <2>2, Halves
    <3>2. q[i \div 2] \in Words
      BY <3>1
    <3> QED BY <2>2, <3>2, Vocabulary
  <2> QED BY <2>1, <2>2
<1>2. [i \in 1..(2 * Len(q)) |-> Item(i)] \in Seq(Inner)
  <2> HIDE DEF Item
  <2> QED BY <1>1
<1>3. <<SP, ":">> \in Seq(Inner)
  <2>1. SP \in Inner /\ ":" \in Inner
    BY Vocabulary
  <2> QED BY <2>1
<1>4. <<SP, ":">> \o b \in Seq(Inner)
  BY <1>3, ConcatProperties
<1> QED BY <1>2, <1>4

LEMMA SourceIs ==
    ASSUME NEW m \in Proper
    PROVE  /\ Source(m.from) \in Seq(Inner)
           /\ Render(m) = Source(m.from) \o Directive(m)
<1> DEFINE S == Source(m.from)
           c == <<m.command>>
           p == [i \in 1..(2 * Len(m.params)) |-> IF i % 2 = 1 THEN SP ELSE m.params[i \div 2]]
           b == IF m.body = <<>> THEN <<>> ELSE <<SP, ":">> \o m.body
<1>1. m.from \in Words \union {""} /\ m.command \in Words /\ m.params \in Seq(Words) /\ m.body \in Seq(Inner)
  BY DEF Proper
<1>2. S \in Seq(Inner)
  <2>1. CASE m.from = ""
    <3>1. S = <<>>
      BY <2>1 DEF Source
    <3> QED BY <3>1
  <2>2. CASE m.from = "srv"
    <3>1. ":" \in Inner /\ "srv" \in Inner /\ SP \in Inner
      BY Vocabulary
    <3>2. S = <<":", "srv", SP>>
      BY <2>2 DEF Source
    <3> QED BY <3>1, <3>2
  <2>3. CASE m.from \notin {"", "srv"}
    <3>1. /\ ":" \in Inner /\ "!" \in Inner /\ "@" \in Inner /\ "host" \in Inner /\ SP \in Inner
          /\ m.from \in Inner
      BY <1>1, <2>3, Vocabulary
    <3>2. S = <<":", m.from, "!", m.from, "@", "host", SP>>
      BY <2>3 DEF Source
    <3> QED BY <3>1, <3>2
  <2> QED BY <2>1, <2>2, <2>3
<1>3. c \in Seq(Inner)
  <2>1. m.command \in Inner
    BY <1>1, Vocabulary
  <2> QED BY <2>1
<1>4. p \in Seq(Inner) /\ b \in Seq(Inner)
  <2> DEFINE q == m.params
             t == m.body
  <2>1. q \in Seq(Words) /\ t \in Seq(Inner)
    BY <1>1
  <2> HIDE DEF q, t
  <2>2. /\ [i \in 1..(2 * Len(q)) |-> IF i % 2 = 1 THEN SP ELSE q[i \div 2]] \in Seq(Inner)
        /\ (IF t = <<>> THEN <<>> ELSE <<SP, ":">> \o t) \in Seq(Inner)
    BY <2>1, ArgumentParts
  <2> QED BY <2>2 DEF q, t
<1>5. b \in Seq(Inner)
  BY <1>4
<1>6. Render(m) = ((S \o c) \o p) \o b
  BY DEF Render
<1>7. Directive(m) = c \o (p \o b)
  BY DEF Directive, Arguments
<1> HIDE DEF S, c, p, b
<1>8. ((S \o c) \o p) \o b = S \o (c \o (p \o b))
  <2> DEFINE sc == S \o c
             pb == p \o b
  <2>1. sc \in Seq(Inner) /\ pb \in Seq(Inner)
    BY <1>2, <1>3, <1>4, <1>5, ConcatProperties
  <2>2. S \o (c \o pb) = sc \o pb
    <3> HIDE DEF pb
    <3> QED BY SMTT(30), <2>1, <1>2, <1>3, ConcatAssociative
  <2>3. (sc \o p) \o b = sc \o pb
    <3> HIDE DEF sc
    <3> QED BY <2>1, <1>4, <1>5, ConcatAssociative
  <2> QED BY <2>2, <2>3
<1> QED BY <1>2, <1>6, <1>7, <1>8 DEF S

\* The prefix of a user: its nick and its user name.
LEMMA ReadsUser ==
    ASSUME NEW f \in Words
    PROVE  NickAndUser(<<f, "!", f, "@", "host", SP>>) = <<<<f>>, <<f>>>>
<1> DEFINE p == <<f, "!", f, "@", "host", SP>>
<1>1. f \in Inner /\ f # "!" /\ f # "@" /\ "!" \in Inner /\ "@" \in Inner /\ "host" \in Inner /\ SP \in Inner
  BY Vocabulary
<1>2. /\ p \in Seq(Inner) /\ Len(p) = 6
      /\ p[1] = f /\ p[2] = "!" /\ p[3] = f /\ p[4] = "@"
  BY <1>1
<1> HIDE DEF p
<1>3. FindFirstOf(p, {"@"}) = 4
  <2>1. 4 \in 1..Len(p) /\ p[4] \in {"@"}
    BY <1>2
  <2>2. \A i \in 1..(4 - 1) : p[i] \notin {"@"}
    <3>1. \A i \in 1..(4 - 1) : i = 1 \/ i = 2 \/ i = 3
      OBVIOUS
    <3> QED BY <1>1, <1>2, <3>1
  <2> QED BY <1>2, <2>1, <2>2, FindsAt
<1>4. FindFirstOf(p, {"!"}) = 2
  <2>1. 2 \in 1..Len(p) /\ p[2] \in {"!"}
    BY <1>2
  <2>2. \A i \in 1..(2 - 1) : p[i] \notin {"!"}
    BY <1>1, <1>2
  <2> QED BY <1>2, <2>1, <2>2, FindsAt
<1>5. Upto(p, 2) = <<f>>
  <2>1. 2 \in 1..(Len(p) + 1)
    BY <1>2
  <2>2. Upto(p, 2) \in Seq(Inner) /\ Len(Upto(p, 2)) = 2 - 1
        /\ \A i \in 1..(2 - 1) : Upto(p, 2)[i] = p[i]
    BY <1>2, <2>1, Slices
  <2> QED BY <1>2, <2>2
<1>6. SubSeq(p, 2 + 1, 4 - 1) = <<f>>
  <2>1. \A i \in 3..3 : p[i] \in Inner
    <3>1. \A i \in 3..3 : i = 3
      OBVIOUS
    <3> QED BY <1>1, <1>2, <3>1
  <2>2. SubSeq(p, 3, 3) \in Seq(Inner) /\ Len(SubSeq(p, 3, 3)) = 1 /\ SubSeq(p, 3, 3)[1] = p[3]
    <3>1. /\ SubSeq(p, 3, 3) \in Seq(Inner) /\ Len(SubSeq(p, 3, 3)) = IF 3 <= 3 THEN 3 - 3 + 1 ELSE 0
          /\ \A i \in 1..(3 - 3 + 1) : SubSeq(p, 3, 3)[i] = p[3 + i - 1]
      BY <2>1, SubSeqProperties
    <3>2. 1 \in 1..(3 - 3 + 1) /\ 3 + 1 - 1 = 3
      OBVIOUS
    <3>3. SubSeq(p, 3, 3)[1] = p[3 + 1 - 1]
      BY <3>1, <3>2
    <3> QED BY <3>1, <3>2, <3>3
  <2> DEFINE u == SubSeq(p, 3, 3)
  <2> HIDE DEF u
  <2>3. u \in Seq(Inner) /\ Len(u) = 1 /\ u[1] = f
    BY <1>2, <2>2 DEF u
  <2>4. u = <<f>>
    BY <2>3
  <2> QED BY <2>4 DEF u
<1>7. NickAndUser(p) = <<Upto(p, 2), SubSeq(p, 2 + 1, 4 - 1)>>
  <2>1. FindFirstOf(p, {"@"}) # 0 /\ FindFirstOf(p, {"!"}) # 0
    BY <1>3, <1>4
  <2>2. NickAndUser(p) = <<Upto(p, FindFirstOf(p, {"!"})),
                           SubSeq(p, FindFirstOf(p, {"!"}) + 1, FindFirstOf(p, {"@"}) - 1)>>
    BY <2>1 DEF NickAndUser
  <2> QED BY <1>3, <1>4, <2>2
<1> QED BY <1>5, <1>6, <1>7 DEF p

\* The prefix of the server.
LEMMA ReadsServer ==
    NickAndUser(<<"srv", SP>>) = <<<<"srv", SP>>, <<>>>>
<1> DEFINE p == <<"srv", SP>>
<1>1. "srv" \in Inner /\ "srv" # "@" /\ SP # "@" /\ SP \in Inner
  BY Vocabulary DEF SP
<1>2. p \in Seq(Inner) /\ Len(p) = 2 /\ p[1] = "srv" /\ p[2] = SP
  BY <1>1
<1> HIDE DEF p
<1>3. \A i \in 1..Len(p) : p[i] \notin {"@"}
  <2>1. \A i \in 1..Len(p) : i = 1 \/ i = 2
    BY <1>2
  <2> QED BY <1>1, <1>2, <2>1
<1>4. FindFirstOf(p, {"@"}) = 0
  BY <1>2, <1>3, FindsNothing
<1> QED BY <1>4 DEF NickAndUser, p

\* A line of the server without spaces in its prefix: what stands behind them.
LEMMA BehindPrefix ==
    ASSUME NEW p \in Seq(Inner), NEW t \in Seq(Inner), p # <<>>, p[Len(p)] = SP,
           \A i \in 1..(Len(p) - 1) : p[i] # SP
    PROVE  /\ FindFirstOf(p \o t, {SP}) = Len(p)
           /\ Behind(p \o t) = t
           /\ (p \o t)[1] = p[1] /\ p \o t # <<>>
           /\ SubSeq(p \o t, 2, Len(p)) = Tail(p)
<1> DEFINE l == p \o t
           n == Len(p)
<1>1. /\ l \in Seq(Inner) /\ Len(l) = Len(p) + Len(t)
      /\ \A i \in 1..(Len(p) + Len(t)) : l[i] = IF i <= Len(p) THEN p[i] ELSE t[i - Len(p)]
  BY ConcatProperties
<1>2. n \in Nat /\ n >= 1
  OBVIOUS
<1> HIDE DEF l
<1>3. \A i \in 1..n : l[i] = p[i]
  BY <1>1
<1>4. n \in 1..Len(l) /\ l[n] \in {SP} /\ \A i \in 1..(n - 1) : l[i] \notin {SP}
  BY <1>1, <1>2, <1>3
<1>5. FindFirstOf(l, {SP}) = n
  <2> HIDE DEF n
  <2> QED BY <1>1, <1>4, FindsAt
<1>6. Behind(l) = t
  <2>1. Behind(l) = From(l, n + 1)
    BY <1>5 DEF Behind
  <2> QED BY <2>1, FromConcat DEF l
<1>7. SubSeq(l, 2, n) = Tail(p)
  <2> DEFINE u == SubSeq(l, 2, n)
             r == Tail(p)
  <2>1. \A i \in 2..n : l[i] \in Inner
    BY <1>1, <1>2
  <2>2. /\ u \in Seq(Inner) /\ Len(u) = IF 2 <= n THEN n - 2 + 1 ELSE 0
        /\ \A i \in 1..(n - 2 + 1) : u[i] = l[2 + i - 1]
    <3>1. n \in Int
      BY <1>2
    <3> HIDE DEF n
    <3> QED BY <2>1, <3>1, SubSeqProperties
  <2>3. r \in Seq(Inner) /\ Len(r) = n - 1 /\ \A i \in 1..(n - 1) : r[i] = p[i + 1]
    OBVIOUS
  <2> HIDE DEF u, r, n
  <2>4. Len(u) = Len(r)
    BY <1>2, <2>2, <2>3
  <2>5. ASSUME NEW i \in 1..(n - 1) PROVE u[i] = r[i]
    <3>1. i \in 1..(n - 2 + 1) /\ 2 + i - 1 = i + 1 /\ i + 1 \in 1..n
      BY <1>2
    <3> QED BY <1>3, <2>2, <2>3, <3>1
  <2>6. u = r
    BY <2>2, <2>3, <2>4, <2>5, SeqEqual
  <2> QED BY <2>6 DEF u, r, n
<1>8. l[1] = p[1] /\ l # <<>>
  BY <1>1, <1>2, <1>3
<1> QED BY <1>5, <1>6, <1>7, <1>8 DEF l

IsPrefixOf(p, m) ==
    /\ p \in Seq(Inner) /\ p # <<>> /\ p[1] = ":" /\ p[Len(p)] = SP
    /\ \A i \in 1..(Len(p) - 1) : p[i] # SP
    /\ Source(m.from) = p /\ NickAndUser(Tail(p)) = <<Fields(m).nick, Fields(m).user>>

\* What parseImplementation reads in a line of the server is what the server wrote: its nick, user,
\* command, parameters and body, whatever their number and length.
THEOREM ReadsLine ==
    ASSUME NEW m \in Proper
    PROVE  Parse(Render(m)) = Fields(m) /\ Render(m) \in Seq(Inner) /\ Render(m) # <<>>
<1> DEFINE t == Directive(m)
           f == m.from
           l == Render(m)
<1>1. /\ t \in Seq(Inner) /\ t # <<>> /\ t[1] # ":"
      /\ (IF Space(t) = 0 THEN t ELSE Upto(t, Space(t))) = <<m.command>>
      /\ Params(Behind(t)) = Fields(m).params
      /\ Body(Behind(t)) = m.body
  BY ReadsDirective
<1>2. l = Source(f) \o t /\ Source(f) \in Seq(Inner) /\ f \in Words \union {""}
  BY SourceIs DEF Proper
<1> HIDE DEF t
<1>3. ASSUME NEW names, NEW text, text = t,
             Parse(l) = [nick |-> names[1], user |-> names[2],
                         command |-> IF Space(text) = 0 THEN text ELSE Upto(text, Space(text)),
                         params |-> Params(Behind(text)), body |-> Body(Behind(text))],
             names[1] = Fields(m).nick, names[2] = Fields(m).user
      PROVE  Parse(l) = Fields(m)
  <2>1. Fields(m) = [nick |-> Fields(m).nick, user |-> Fields(m).user, command |-> <<m.command>>,
                     params |-> Fields(m).params, body |-> m.body]
    BY DEF Fields
  <2> QED BY <1>1, <1>3, <2>1
<1>4. ASSUME f = "" PROVE Parse(l) = Fields(m)
  <2>1. l = t
    <3>1. Source(f) = <<>>
      BY <1>4 DEF Source
    <3> QED BY <1>1, <1>2, <3>1, ConcatEmptySeq
  <2>2. Fields(m).nick = <<>> /\ Fields(m).user = <<>>
    BY <1>4 DEF Fields
  <2> DEFINE names == <<<<>>, <<>>>>
  <2>3. Parse(l) = [nick |-> names[1], user |-> names[2],
                    command |-> IF Space(t) = 0 THEN t ELSE Upto(t, Space(t)),
                    params |-> Params(Behind(t)), body |-> Body(Behind(t))]
    <3>1. ~(t # <<>> /\ t[1] = ":")
      BY <1>1
    <3> HIDE DEF l
    <3> QED BY <2>1, <3>1 DEF Parse, Space
  <2>4. Parse(l) = Fields(m)
    <3>1. names[1] = Fields(m).nick /\ names[2] = Fields(m).user
      BY <2>2
    <3> HIDE DEF names, l
    <3> QED BY <1>3, <2>3, <3>1
  <2> QED BY <1>1, <2>1, <2>4
<1>5. ASSUME NEW p, IsPrefixOf(p, m)
      PROVE  Parse(l) = Fields(m)
  <2>0. /\ p \in Seq(Inner) /\ p # <<>> /\ p[1] = ":" /\ p[Len(p)] = SP
        /\ \A i \in 1..(Len(p) - 1) : p[i] # SP
        /\ Source(f) = p /\ NickAndUser(Tail(p)) = <<Fields(m).nick, Fields(m).user>>
    BY <1>5 DEF IsPrefixOf
  <2>1. /\ FindFirstOf(l, {SP}) = Len(p) /\ Behind(l) = t
        /\ l[1] = ":" /\ l # <<>>
        /\ SubSeq(l, 2, Len(p)) = Tail(p)
    <3>1. l = p \o t
      BY <1>2, <2>0
    <3> HIDE DEF l
    <3> QED BY <1>1, <2>0, <3>1, BehindPrefix
  <2> DEFINE names == NickAndUser(Tail(p))
  <2>2. Len(p) # 0
    BY <2>0
  <2>3. Parse(l) = [nick |-> names[1], user |-> names[2],
                    command |-> IF Space(t) = 0 THEN t ELSE Upto(t, Space(t)),
                    params |-> Params(Behind(t)), body |-> Body(Behind(t))]
    <3> HIDE DEF l
    <3> QED BY <2>1, <2>2 DEF Parse, Space
  <2>4. names[1] = Fields(m).nick /\ names[2] = Fields(m).user
    BY <2>0
  <2> HIDE DEF names, l
  <2> QED BY <1>3, <2>3, <2>4
<1>6. ASSUME f = "srv" PROVE Parse(l) = Fields(m)
  <2> DEFINE p == <<":", "srv", SP>>
  <2>1. ":" \in Inner /\ "srv" \in Inner /\ SP \in Inner /\ ":" # SP /\ "srv" # SP
    BY Vocabulary DEF SP
  <2>2. p \in Seq(Inner) /\ Len(p) = 3 /\ p[1] = ":" /\ p[2] = "srv" /\ p[3] = SP /\ p # <<>>
    BY <2>1
  <2>3. \A i \in 1..(Len(p) - 1) : p[i] # SP
    <3>1. \A i \in 1..(3 - 1) : i = 1 \/ i = 2
      OBVIOUS
    <3> HIDE DEF p
    <3> QED BY <2>1, <2>2, <3>1
  <2>4. Source(f) = p
    BY <1>6 DEF Source
  <2>5. Tail(p) = <<"srv", SP>>
    OBVIOUS
  <2>6. Fields(m).nick = <<"srv", SP>> /\ Fields(m).user = <<>>
    BY <1>6 DEF Fields
  <2>7. NickAndUser(Tail(p)) = <<Fields(m).nick, Fields(m).user>>
    BY <2>5, <2>6, ReadsServer
  <2>8. p[Len(p)] = SP
    BY <2>2
  <2> HIDE DEF p, l
  <2>9. IsPrefixOf(p, m)
    BY <2>2, <2>3, <2>4, <2>7, <2>8 DEF IsPrefixOf
  <2> QED BY <1>5, <2>9
<1>7. ASSUME f \notin {"", "srv"} PROVE Parse(l) = Fields(m)
  <2> DEFINE p == <<":", f, "!", f, "@", "host", SP>>
  <2>1. f \in Words
    BY <1>2, <1>7
  <2>2. /\ ":" \in Inner /\ f \in Inner /\ "!" \in Inner /\ "@" \in Inner /\ "host" \in Inner /\ SP \in Inner
        /\ ":" # SP /\ f # SP /\ "!" # SP /\ "@" # SP /\ "host" # SP
    BY <2>1, Vocabulary DEF SP
  <2>3. /\ p \in Seq(Inner) /\ Len(p) = 7 /\ p[1] = ":" /\ p[2] = f /\ p[3] = "!" /\ p[4] = f
        /\ p[5] = "@" /\ p[6] = "host" /\ p[7] = SP /\ p # <<>>
    BY <2>2
  <2>4. \A i \in 1..(Len(p) - 1) : p[i] # SP
    <3>1. \A i \in 1..(7 - 1) : i = 1 \/ i = 2 \/ i = 3 \/ i = 4 \/ i = 5 \/ i = 6
      OBVIOUS
    <3> HIDE DEF p
    <3> QED BY <2>2, <2>3, <3>1
  <2>5. Source(f) = p
    BY <1>7 DEF Source
  <2>6. Tail(p) = <<f, "!", f, "@", "host", SP>>
    OBVIOUS
  <2>7. Fields(m).nick = <<f>> /\ Fields(m).user = <<f>>
    BY <1>7 DEF Fields
  <2>8. NickAndUser(Tail(p)) = <<Fields(m).nick, Fields(m).user>>
    BY <2>1, <2>6, <2>7, ReadsUser
  <2>9. p[Len(p)] = SP
    BY <2>3
  <2> HIDE DEF p, l
  <2>10. IsPrefixOf(p, m)
    BY <2>3, <2>4, <2>5, <2>8, <2>9 DEF IsPrefixOf
  <2> QED BY <1>5, <2>10
<1>8. Parse(l) = Fields(m)
  BY <1>4, <1>6, <1>7
<1>9. l \in Seq(Inner) /\ l # <<>>
  <2>1. l \in Seq(Inner) /\ Len(l) = Len(Source(f)) + Len(t)
    <3> DEFINE p == Source(f)
    <3>1. p \in Seq(Inner) /\ t \in Seq(Inner) /\ l = p \o t
      BY <1>1, <1>2
    <3> HIDE DEF l, t, p
    <3>2. p \o t \in Seq(Inner) /\ Len(p \o t) = Len(p) + Len(t)
      BY <3>1, ConcatProperties
    <3>3. l \in Seq(Inner) /\ Len(l) = Len(p) + Len(t)
      BY <3>1, <3>2
    <3> QED BY <3>3 DEF p
  <2>2. t \in Seq(Inner) /\ t # <<>> /\ Source(f) \in Seq(Inner)
    BY <1>1, <1>2
  <2>3. Len(t) \in Nat /\ Len(t) # 0 /\ Len(Source(f)) \in Nat
    BY <2>2
  <2>4. Len(l) # 0
    BY <2>1, <2>3
  <2>5. l # <<>>
    BY <2>4
  <2> QED BY <2>1, <2>5
<1> QED BY <1>8, <1>9

-----------------------------------------------------------------------------
(* The stream of a connection *)

\* What the server sends for a sequence of messages.
Sent(m) == Render(m) \o <<CR, LF>>
Stream(q) ==
    LET stream[s \in Seq(Proper)] == IF s = <<>> THEN <<>> ELSE Sent(s[1]) \o stream[Tail(s)]
    IN  stream[q]

LEMMA SentType ==
    ASSUME NEW m \in Proper
    PROVE  /\ Sent(m) \in Text /\ Len(Sent(m)) = Len(Render(m)) + 2
           /\ Render(m) \in Text
           /\ \A i \in 1..Len(Render(m)) : Sent(m)[i] = Render(m)[i] /\ Render(m)[i] \in Inner
           /\ Sent(m)[Len(Render(m)) + 1] = CR /\ Sent(m)[Len(Render(m)) + 2] = LF
<1> DEFINE l == Render(m)
           e == <<CR, LF>>
<1>1. l \in Seq(Inner)
  BY ReadsLine
<1>2. l \in Seq(Tokens) /\ e \in Seq(Tokens) /\ Len(e) = 2 /\ e[1] = CR /\ e[2] = LF
  <2>1. Inner \subseteq Tokens /\ CR \in Tokens /\ LF \in Tokens
    BY Vocabulary
  <2>2. l \in Seq(Tokens)
    <3> HIDE DEF l
    <3> QED BY <1>1, <2>1, SeqMonotonic
  <2>3. e \in Seq(Tokens) /\ Len(e) = 2 /\ e[1] = CR /\ e[2] = LF
    BY <2>1
  <2> QED BY <2>2, <2>3
<1>3. Sent(m) = l \o e
  BY DEF Sent
<1> HIDE DEF l, e
<1>4. /\ l \o e \in Seq(Tokens) /\ Len(l \o e) = Len(l) + Len(e)
      /\ \A i \in 1..(Len(l) + Len(e)) : (l \o e)[i] = IF i <= Len(l) THEN l[i] ELSE e[i - Len(l)]
  BY <1>2, ConcatProperties
<1>5. Len(l) \in Nat /\ \A i \in 1..Len(l) : l[i] \in Inner
  BY <1>1
<1>6. (Len(l) + 1) - Len(l) = 1 /\ (Len(l) + 2) - Len(l) = 2
  BY <1>5
<1>7. (l \o e)[Len(l) + 1] = CR /\ (l \o e)[Len(l) + 2] = LF
  BY <1>2, <1>4, <1>5, <1>6
<1>8. \A i \in 1..Len(l) : (l \o e)[i] = l[i]
  BY <1>2, <1>4, <1>5
<1> QED BY <1>2, <1>3, <1>4, <1>5, <1>7, <1>8 DEF l, Text

LEMMA StreamEquation ==
    ASSUME NEW q \in Seq(Proper)
    PROVE  /\ Stream(q) \in Text
           /\ q = <<>> => Stream(q) = <<>>
           /\ q # <<>> => Stream(q) = Sent(q[1]) \o Stream(Tail(q))
<1> DEFINE S == Seq(Proper)
           stream[s \in Seq(Proper)] == IF s = <<>> THEN <<>> ELSE Sent(s[1]) \o stream[Tail(s)]
           stop == {<<>>}
           size == [s \in S |-> Len(s)]
           base == [s \in S |-> <<>>]
           next == [s \in S |-> IF s = <<>> THEN s ELSE Tail(s)]
           Step(s, v) == IF s = <<>> THEN v ELSE Sent(s[1]) \o v
           step == [p \in S \X Text |-> Step(p[1], p[2])]
<1>1. ASSUME NEW s \in S, s # <<>>
      PROVE  Tail(s) \in S /\ Len(Tail(s)) < Len(s) /\ s[1] \in Proper
  BY <1>1
<1>2. Recursive(S, Text, size, stop, base, next, step)
  <2>1. size \in [S -> Nat] /\ stop \in SUBSET S /\ base \in [S -> Text]
    BY DEF Text
  <2>2. next \in [S -> S] /\ \A s \in S \ stop : size[next[s]] < size[s]
    <3>1. \A s \in S : s # <<>> => Tail(s) \in S /\ Len(Tail(s)) < Len(s)
      BY <1>1
    <3> HIDE DEF S
    <3> QED BY <3>1
  <2>3. ASSUME NEW s \in S, NEW v \in Text PROVE Step(s, v) \in Text
    <3>1. CASE s = <<>>
      BY <3>1
    <3>2. CASE s # <<>>
      <4>1. Sent(s[1]) \in Text
        BY <1>1, <3>2, SentType
      <4> QED BY <3>2, <4>1, ConcatProperties DEF Text
    <3> QED BY <3>1, <3>2
  <2>4. step \in [S \X Text -> Text]
    <3> HIDE DEF Step, S
    <3> QED BY <2>3
  <2> HIDE DEF stop, step, S
  <2> QED BY <2>1, <2>2, <2>4 DEF Recursive
<1>3. PICK f \in [S -> Text] :
         \A s \in S : f[s] = IF s \in stop THEN base[s] ELSE step[<<s, f[next[s]]>>]
  <2> HIDE DEF stop, size, base, next, step, S
  <2> QED BY <1>2, Recursion DEF Computable
<1>4. ASSUME NEW s \in S
      PROVE  f[s] = IF s = <<>> THEN <<>> ELSE Sent(s[1]) \o f[Tail(s)]
  <2>1. CASE s = <<>>
    BY <1>3, <2>1
  <2>2. CASE s # <<>>
    <3>1. next[s] = Tail(s) /\ Tail(s) \in S /\ f[next[s]] \in Text
      BY <1>1, <1>3, <2>2
    <3>2. f[s] = step[<<s, f[next[s]]>>]
      BY <1>3, <2>2
    <3>3. step[<<s, f[next[s]]>>] = Step(s, f[next[s]])
      <4> HIDE DEF Step, next, S
      <4> QED BY <3>1
    <3> QED BY <2>2, <3>1, <3>2, <3>3
  <2> QED BY <2>1, <2>2
<1>5. f = [s \in Seq(Proper) |-> IF s = <<>> THEN <<>> ELSE Sent(s[1]) \o f[Tail(s)]]
  BY <1>4, Zenon
<1>6. stream = [s \in Seq(Proper) |-> IF s = <<>> THEN <<>> ELSE Sent(s[1]) \o stream[Tail(s)]]
  BY <1>5, Zenon
<1>7. \A s \in S : Stream(s) = stream[s]
  BY DEF Stream
<1>8. ASSUME NEW s \in S
      PROVE  stream[s] = IF s = <<>> THEN <<>> ELSE Sent(s[1]) \o stream[Tail(s)]
  <2> HIDE DEF stream
  <2> QED BY <1>6
<1>9. \A s \in S : stream[s] \in Text
  <2>1. ASSUME NEW s \in S
        PROVE  /\ s \in stop => stream[s] = base[s]
               /\ s \notin stop => stream[s] = Step(s, stream[next[s]]) /\ next[s] \in S
    <3> HIDE DEF stream
    <3> QED BY <1>1, <1>8
  <2>2. Obeys(stream, S, Text, stop, base, next, step)
    <3> HIDE DEF stream, stop, base, Step, S, next
    <3> QED BY <2>1 DEF Obeys
  <2> HIDE DEF stream, stop, size, base, next, step, S
  <2> QED BY <1>2, <2>2, RecursionType
<1> QED
  <2>1. q # <<>> => Stream(Tail(q)) = stream[Tail(q)]
    BY <1>1, <1>7
  <2> HIDE DEF stream
  <2> QED BY <1>7, <1>8, <1>9, <2>1

LEMMA StreamAppend ==
    ASSUME NEW m \in Proper
    PROVE  \A q \in Seq(Proper) : Stream(Append(q, m)) = Stream(q) \o Sent(m)
<1> DEFINE Right == {n \in Nat : \A q \in Seq(Proper) :
                        Len(q) = n => Stream(Append(q, m)) = Stream(q) \o Sent(m)}
<1>1. Sent(m) \in Text
  BY SentType
<1>2. 0 \in Right
  <2> SUFFICES ASSUME NEW q \in Seq(Proper), Len(q) = 0
               PROVE  Stream(Append(q, m)) = Stream(q) \o Sent(m)
    OBVIOUS
  <2>1. q = <<>>
    OBVIOUS
  <2>2. <<m>> \in Seq(Proper) /\ <<m>> # <<>> /\ <<m>>[1] = m /\ Tail(<<m>>) = <<>>
    OBVIOUS
  <2>3. Append(q, m) = <<m>>
    BY <2>1
  <2>4. Stream(<<m>>) = Sent(m) \o Stream(<<>>)
    BY <2>2, StreamEquation
  <2>5. Stream(<<>>) = <<>>
    BY <2>1, StreamEquation
  <2> QED BY <1>1, <2>1, <2>3, <2>4, <2>5, ConcatEmptySeq DEF Text
<1>3. ASSUME NEW n \in Nat, n \in Right PROVE n + 1 \in Right
  <2> SUFFICES ASSUME NEW q \in Seq(Proper), Len(q) = n + 1
               PROVE  Stream(Append(q, m)) = Stream(q) \o Sent(m)
    OBVIOUS
  <2> DEFINE r == Tail(q)
             a == Append(q, m)
  <2>1. q # <<>> /\ r \in Seq(Proper) /\ Len(r) = n /\ q[1] \in Proper
    OBVIOUS
  <2>2. a \in Seq(Proper) /\ a # <<>> /\ a[1] = q[1]
    BY <2>1
  <2>3. Tail(a) = Append(r, m)
    BY <2>1, HeadTailAppend
  <2>4. Stream(a) = Sent(q[1]) \o Stream(Append(r, m))
    <3> HIDE DEF a, r
    <3> QED BY <2>2, <2>3, StreamEquation
  <2>5. Stream(Append(r, m)) = Stream(r) \o Sent(m)
    BY <1>3, <2>1
  <2>6. Stream(q) = Sent(q[1]) \o Stream(r)
    BY <2>1, StreamEquation
  <2>7. Stream(r) \in Text /\ Sent(q[1]) \in Text
    BY <2>1, StreamEquation, SentType
  <2>8. Sent(q[1]) \o (Stream(r) \o Sent(m)) = (Sent(q[1]) \o Stream(r)) \o Sent(m)
    <3> HIDE DEF r
    <3> QED BY SMTT(30), <1>1, <2>7, ConcatAssociative DEF Text
  <2> HIDE DEF r
  <2> QED BY <2>4, <2>5, <2>6, <2>8
<1>4. \A n \in Nat : n \in Right
  <2> HIDE DEF Right
  <2> QED BY <1>2, <1>3, SetInduction
<1>5. \A q \in Seq(Proper) : Len(q) \in Nat
  OBVIOUS
<1> QED BY <1>4, <1>5

LEMMA TextJoins == \A a, b \in Text : a \o b \in Text
BY ConcatProperties DEF Text

LEMMA TextGroups == \A a, b, c \in Text : a \o (b \o c) = (a \o b) \o c
<1> TAKE a, b, c \in Text
<1>1. a \in Seq(Tokens) /\ b \in Seq(Tokens) /\ c \in Seq(Tokens)
  BY DEF Text
<1> QED BY SMTT(30), <1>1, Regroup

\* Where the first line of a stream ends.
LEMMA FirstLine ==
    ASSUME NEW piece \in Seq(Inner), NEW q \in Seq(Proper)
    PROVE  /\ piece \o Stream(q) \in Text
           /\ q = <<>> => \A i \in 1..Len(piece \o Stream(q)) : (piece \o Stream(q))[i] \in Inner
           /\ q # <<>> =>
                LET n == Len(piece \o Render(q[1])) + 1
                    s == piece \o Stream(q)
                IN  /\ piece \o Render(q[1]) \in Text
                    /\ n + 1 \in 1..Len(s) /\ s[n] = CR /\ s[n + 1] = LF
                    /\ \A i \in 1..(n - 1) : s[i] \in Inner
                    /\ Upto(s, n) = piece \o Render(q[1])
                    /\ From(s, n + 2) = Stream(Tail(q))
<1>1. piece \in Seq(Tokens)
  BY Vocabulary, SeqMonotonic
<1>2. Stream(q) \in Seq(Tokens)
  BY StreamEquation DEF Text
<1>3. piece \o Stream(q) \in Text
  BY <1>1, <1>2, ConcatProperties DEF Text
<1>4. ASSUME q = <<>> PROVE \A i \in 1..Len(piece \o Stream(q)) : (piece \o Stream(q))[i] \in Inner
  <2>1. Stream(q) = <<>>
    BY <1>4, StreamEquation
  <2>2. piece \o Stream(q) = piece
    BY <2>1, <1>1, ConcatEmptySeq
  <2> QED BY <2>2
<1>5. ASSUME q # <<>>
      PROVE  LET n == Len(piece \o Render(q[1])) + 1
                 s == piece \o Stream(q)
             IN  /\ piece \o Render(q[1]) \in Text
                 /\ n + 1 \in 1..Len(s) /\ s[n] = CR /\ s[n + 1] = LF
                 /\ \A i \in 1..(n - 1) : s[i] \in Inner
                 /\ Upto(s, n) = piece \o Render(q[1])
                 /\ From(s, n + 2) = Stream(Tail(q))
  <2> DEFINE l == Render(q[1])
             e == <<CR, LF>>
             h == piece \o l
             g == Stream(Tail(q))
             s == piece \o Stream(q)
  <2>1. q[1] \in Proper /\ Tail(q) \in Seq(Proper)
    BY <1>5
  <2>2. l \in Seq(Inner)
    BY <2>1, ReadsLine
  <2>3. e \in Seq(Tokens) /\ Len(e) = 2 /\ e[1] = CR /\ e[2] = LF
    <3>1. CR \in Tokens /\ LF \in Tokens
      BY Vocabulary
    <3> QED BY <3>1
  <2>4. g \in Seq(Tokens)
    BY <2>1, StreamEquation DEF Text
  <2>5. Stream(q) = (l \o e) \o g
    BY <1>5, StreamEquation DEF Sent
  <2> HIDE DEF l, e, g
  <2>6. h \in Seq(Inner) /\ l \in Seq(Tokens)
    <3>1. h \in Seq(Inner)
      BY <2>2, ConcatProperties
    <3>2. l \in Seq(Tokens)
      BY <2>2, Vocabulary, SeqMonotonic
    <3> QED BY <3>1, <3>2
  <2>7. s = (h \o e) \o g
    <3>1. l \o e \in Seq(Tokens)
      BY <2>3, <2>6, ConcatProperties
    <3>2. \A a, b, c \in Seq(Tokens) : a \o (b \o c) = (a \o b) \o c
      <4> TAKE a, b, c \in Seq(Tokens)
      <4> QED BY SMTT(30), Regroup
    <3>3. piece \o ((l \o e) \o g) = (piece \o (l \o e)) \o g
      BY <1>1, <2>4, <3>1, <3>2, Zenon
    <3>4. piece \o (l \o e) = (piece \o l) \o e
      BY <1>1, <2>3, <2>6, <3>2, Zenon
    <3> QED BY <2>5, <3>3, <3>4
  <2>8. h \in Seq(Tokens)
    <3> HIDE DEF h
    <3> QED BY <2>6, Vocabulary, SeqMonotonic
  <2> HIDE DEF h, s
  <2>9. /\ h \o e \in Seq(Tokens) /\ Len(h \o e) = Len(h) + Len(e)
        /\ \A i \in 1..(Len(h) + Len(e)) : (h \o e)[i] = IF i <= Len(h) THEN h[i] ELSE e[i - Len(h)]
    BY <2>3, <2>8, ConcatProperties
  <2> DEFINE he == h \o e
  <2>10. /\ he \o g \in Seq(Tokens) /\ Len(he \o g) = Len(he) + Len(g)
         /\ \A i \in 1..(Len(he) + Len(g)) : (he \o g)[i] = IF i <= Len(he) THEN he[i] ELSE g[i - Len(he)]
    <3> HIDE DEF he
    <3>1. he \in Seq(Tokens)
      BY <2>9 DEF he
    <3> QED BY <2>4, <3>1, ConcatProperties
  <2>11. he \in Seq(Tokens) /\ Len(he) = Len(h) + 2 /\ Len(h) \in Nat /\ Len(g) \in Nat
    BY <2>3, <2>4, <2>8, <2>9
  <2>12. s = he \o g
    BY <2>7
  <2>13. he[Len(h) + 1] = CR /\ he[Len(h) + 2] = LF
    <3>1. /\ Len(h) + 1 \in 1..(Len(h) + Len(e)) /\ Len(h) + 2 \in 1..(Len(h) + Len(e))
          /\ ~(Len(h) + 1 <= Len(h)) /\ ~(Len(h) + 2 <= Len(h))
          /\ (Len(h) + 1) - Len(h) = 1 /\ (Len(h) + 2) - Len(h) = 2
      BY <2>3, <2>11
    <3> QED BY <2>3, <2>9, <3>1
  <2>14. \A i \in 1..Len(h) : he[i] = h[i] /\ h[i] \in Inner
    BY <2>3, <2>6, <2>9, <2>11
  <2> HIDE DEF he
  <2>15. \A i \in 1..(Len(h) + 2) : s[i] = he[i]
    BY <2>10, <2>11, <2>12
  <2>16. s \in Seq(Tokens) /\ Len(s) = Len(h) + 2 + Len(g)
    BY <2>10, <2>11, <2>12
  <2>17. From(s, Len(h) + 3) = g
    <3>1. From(he \o g, Len(he) + 1) = g
      BY <2>4, <2>11, FromConcat
    <3>2. Len(he) + 1 = Len(h) + 3
      BY <2>11
    <3> QED BY <2>12, <3>1, <3>2
  <2>18. Upto(s, Len(h) + 1) = h
    <3>1. e \o g \in Seq(Tokens) /\ s = h \o (e \o g)
      BY SMTT(30), <2>3, <2>4, <2>7, <2>8, Regroup
    <3> QED BY <2>8, <3>1, UptoConcat
  <2>19. /\ (Len(h) + 1) + 1 \in 1..Len(s) /\ (Len(h) + 1) + 1 = Len(h) + 2
         /\ (Len(h) + 1) + 2 = Len(h) + 3 /\ (Len(h) + 1) - 1 = Len(h)
         /\ Len(h) + 1 \in 1..(Len(h) + 2) /\ Len(h) + 2 \in 1..(Len(h) + 2)
         /\ \A i \in 1..Len(h) : i \in 1..(Len(h) + 2)
    BY <2>11, <2>16
  <2>20. /\ h \in Text /\ s[Len(h) + 1] = CR /\ s[Len(h) + 2] = LF
         /\ \A i \in 1..Len(h) : s[i] \in Inner
    BY <2>8, <2>13, <2>14, <2>15, <2>19 DEF Text
  <2>21. /\ (Len(h) + 1) + 1 \in 1..Len(s) /\ s[Len(h) + 1] = CR /\ s[(Len(h) + 1) + 1] = LF
         /\ \A i \in 1..((Len(h) + 1) - 1) : s[i] \in Inner
         /\ Upto(s, Len(h) + 1) = h /\ From(s, (Len(h) + 1) + 2) = g
    BY <2>17, <2>18, <2>19, <2>20
  <2> QED BY <2>20, <2>21 DEF h, s, g, l
<1> QED BY <1>3, <1>4, <1>5

LEMMA InnerText ==
    ASSUME NEW t \in Text, \A i \in 1..Len(t) : t[i] \notin {CR, LF}
    PROVE  t \in Seq(Inner)
<1>1. \A i \in 1..Len(t) : t[i] \in Inner
  BY DEF Text, Inner
<1>2. Len(t) \in Nat /\ t = [i \in 1..Len(t) |-> t[i]]
  BY DEF Text
<1>3. [i \in 1..Len(t) |-> t[i]] \in Seq(Inner)
  BY <1>1, <1>2
<1> QED BY <1>2, <1>3

LEMMA SplitParts ==
    ASSUME NEW t \in Text, LineEnd(t) # 0
    PROVE  /\ Split(t).lines = <<Upto(t, LineEnd(t))>> \o Split(Erase(t, LineEnd(t))).lines
           /\ Split(t).rest = Split(Erase(t, LineEnd(t))).rest
           /\ Split(t).past <=> Split(Erase(t, LineEnd(t))).past \/ LineEnd(t) + 1 > Len(t)
<1> DEFINE next == Split(Erase(t, LineEnd(t)))
           u == Upto(t, LineEnd(t))
           past == next.past \/ LineEnd(t) + 1 > Len(t)
<1>1. Split(t) = [lines |-> <<u>> \o next.lines, rest |-> next.rest, past |-> past]
  BY SplitEquation
<1> HIDE DEF next, u, past
<1>2. /\ Split(t).lines = <<u>> \o next.lines /\ Split(t).rest = next.rest
      /\ Split(t).past = past
  BY <1>1
<1>3. Split(t).past <=> next.past \/ LineEnd(t) + 1 > Len(t)
  BY <1>2, Zenon DEF past
<1> QED BY <1>2, <1>3 DEF next, u

\* What parseBuffer makes of text t, when r is still under way and both together are a piece of
\* a line and the messages q: the first lines of these, unless it erases past its end.
Cuts(t, r, piece, q) ==
    LET lines == Split(t).lines
        rest == Split(t).rest
    IN  /\ Len(lines) <= Len(q) /\ rest \in Seq(Inner)
        /\ rest \o r = (IF lines = <<>> THEN piece ELSE <<>>) \o Stream(From(q, Len(lines) + 1))
        /\ \A i \in 1..Len(lines) :
             lines[i] = IF i = 1 THEN piece \o Render(q[1]) ELSE Render(q[i])

\* Unless it erases past the end, parseBuffer cuts a piece of an old line and a stream of lines that
\* ends anywhere into just the lines that were sent, the piece before the first of them.
THEOREM SplitStream ==
    ASSUME NEW r \in Text
    PROVE  \A q \in Seq(Proper), piece \in Seq(Inner), t \in Text :
               t \o r = piece \o Stream(q) => Split(t).past \/ Cuts(t, r, piece, q)
<1> DEFINE Right == {n \in Nat : \A q \in Seq(Proper), piece \in Seq(Inner), t \in Text :
                        Len(q) = n /\ t \o r = piece \o Stream(q)
                            => Split(t).past \/ Cuts(t, r, piece, q)}
<1>1. ASSUME NEW q \in Seq(Proper), NEW piece \in Seq(Inner), NEW t \in Text,
             t \o r = piece \o Stream(q), LineEnd(t) = 0
      PROVE  Cuts(t, r, piece, q)
  <2>1. Split(t) = [lines |-> <<>>, rest |-> t, past |-> FALSE]
    BY <1>1, SplitEquation
  <2>2. t \in Seq(Inner)
    <3>1. \A i \in 1..Len(t) : t[i] \notin {CR, LF}
      BY <1>1, FindsFirst DEF LineEnd, Text
    <3> QED BY <3>1, InnerText
  <2>3. From(q, Len(<<>>) + 1) = q
    <3>1. From(q, 1) = q
      BY FromFirst
    <3>2. Len(<<>>) + 1 = 1
      OBVIOUS
    <3> QED BY <3>1, <3>2
  <2>4. Len(<<>>) <= Len(q) /\ 1..Len(<<>>) = {}
    OBVIOUS
  <2> QED BY <1>1, <2>1, <2>2, <2>3, <2>4 DEF Cuts
<1>2. ASSUME NEW q \in Seq(Proper), NEW piece \in Seq(Inner), NEW t \in Text,
             t \o r = piece \o Stream(q), LineEnd(t) # 0
      PROVE  /\ q # <<>> /\ Tail(q) \in Seq(Proper)
             /\ Upto(t, LineEnd(t)) = piece \o Render(q[1])
             /\ ~Split(t).past =>
                  /\ Erase(t, LineEnd(t)) \in Text
                  /\ Erase(t, LineEnd(t)) \o r = <<>> \o Stream(Tail(q))
  <2> DEFINE s == t \o r
             n == LineEnd(t)
             N == Len(piece \o Render(q[1])) + 1
  <2>1. n \in 1..Len(t) /\ t[n] \in {CR, LF} /\ \A i \in 1..(n - 1) : t[i] \notin {CR, LF}
    <3>1. t \in Seq(Tokens) /\ n = FindFirstOf(t, {CR, LF})
      BY DEF Text, LineEnd
    <3>2. n # 0
      BY <1>2
    <3> HIDE DEF n
    <3> QED BY <3>1, <3>2, FindsFirst
  <2>2. s \in Text /\ \A i \in 1..Len(t) : s[i] = t[i] /\ i \in 1..Len(s)
    <3>1. /\ s \in Seq(Tokens) /\ Len(s) = Len(t) + Len(r)
          /\ \A i \in 1..(Len(t) + Len(r)) : s[i] = IF i <= Len(t) THEN t[i] ELSE r[i - Len(t)]
      BY ConcatProperties DEF Text
    <3>2. Len(t) \in Nat /\ Len(r) \in Nat
      BY DEF Text
    <3> HIDE DEF s
    <3> QED BY <3>1, <3>2 DEF Text
  <2>3. s = piece \o Stream(q)
    BY <1>2
  <2> HIDE DEF s
  <2>4. q # <<>>
    <3>1. q = <<>> => \A i \in 1..Len(s) : s[i] \in Inner
      BY <2>3, FirstLine
    <3>2. s[n] \notin Inner /\ n \in 1..Len(s)
      BY <2>1, <2>2 DEF Inner
    <3> QED BY <3>1, <3>2
  <2>5. /\ N + 1 \in 1..Len(s) /\ s[N] = CR /\ s[N + 1] = LF
        /\ \A i \in 1..(N - 1) : s[i] \in Inner
        /\ Upto(s, N) = piece \o Render(q[1])
        /\ From(s, N + 2) = Stream(Tail(q))
    BY <2>3, <2>4, FirstLine
  <2>6. N \in Nat \ {0}
    <3>1. piece \o Render(q[1]) \in Text
      BY <2>4, FirstLine
    <3> QED BY <3>1 DEF Text
  <2> HIDE DEF n, N
  <2>7. n = N
    <3>1. n \in Nat
      BY <2>1
    <3>2. CASE n < N
      <4>1. n \in 1..(N - 1)
        BY <2>1, <2>6, <3>2
      <4>2. s[n] \in Inner /\ s[n] \in {CR, LF}
        BY <2>1, <2>2, <2>5, <4>1
      <4> QED BY <4>2 DEF Inner
    <3>3. CASE N < n
      <4>1. N \in 1..(n - 1) /\ N \in 1..Len(t)
        BY <2>1, <2>6, <3>3
      <4> QED BY <2>1, <2>2, <2>5, <4>1
    <3> QED BY <2>6, <3>1, <3>2, <3>3
  <2>8. Upto(t, n) = piece \o Render(q[1])
    <3>1. n \in 1..(Len(t) + 1)
      BY <2>1 DEF Text
    <3>2. Upto(s, n) = Upto(t, n)
      BY <3>1, PartsOfConcat DEF Text, s
    <3> QED BY <2>5, <2>7, <3>2
  <2>9. ASSUME ~Split(t).past
        PROVE  Erase(t, n) \in Text /\ Erase(t, n) \o r = <<>> \o Stream(Tail(q))
    <3>1. ~(n + 1 > Len(t))
      BY <1>2, <2>9, SplitParts DEF n
    <3>2. n + 1 \in 1..Len(t) /\ n + 2 \in 1..(Len(t) + 1)
      BY <2>1, <3>1 DEF Text
    <3>3. t[n + 1] = LF
      BY <2>2, <2>5, <2>7, <3>2
    <3>4. Erase(t, n) = From(t, n + 2)
      <4>1. t[n + 1] \in Characters /\ n + 1 <= Len(t)
        BY <3>2, <3>3 DEF Characters
      <4> QED BY <3>1, <4>1 DEF Erase
    <3>5. From(s, n + 2) = From(t, n + 2) \o r /\ From(t, n + 2) \in Text
      BY <3>2, PartsOfConcat, Slices DEF Text, s
    <3>6. From(t, n + 2) \o r = Stream(Tail(q))
      BY <2>5, <2>7, <3>5
    <3>7. <<>> \o Stream(Tail(q)) = Stream(Tail(q))
      <4>1. Tail(q) \in Seq(Proper)
        BY <2>4
      <4>2. Stream(Tail(q)) \in Text
        BY <4>1, StreamEquation
      <4> QED BY <4>2, ConcatEmptySeq DEF Text
    <3> QED BY <3>4, <3>5, <3>6, <3>7
  <2>10. Tail(q) \in Seq(Proper)
    BY <2>4
  <2> QED BY <2>4, <2>8, <2>9, <2>10 DEF n
<1>3. ASSUME NEW q \in Seq(Proper), q # <<>>, NEW piece \in Seq(Inner), NEW t \in Text,
             LineEnd(t) # 0, Upto(t, LineEnd(t)) = piece \o Render(q[1]),
             Cuts(Erase(t, LineEnd(t)), r, <<>>, Tail(q)), Erase(t, LineEnd(t)) \in Text
      PROVE  Cuts(t, r, piece, q)
  <2> DEFINE next == Split(Erase(t, LineEnd(t)))
             more == next.lines
             h == piece \o Render(q[1])
             lines == <<h>> \o more
             w == Tail(q)
  <2>1. Split(t).lines = lines /\ Split(t).rest = next.rest
    BY <1>3, SplitParts
  <2>2. h \in Text
    BY <1>3, FirstLine
  <2>3. more \in Seq(Text)
    BY <1>3, SplitEquation DEF Splits
  <2>4. /\ Len(more) <= Len(w) /\ next.rest \in Seq(Inner)
        /\ next.rest \o r = (IF more = <<>> THEN <<>> ELSE <<>>) \o Stream(From(w, Len(more) + 1))
        /\ \A i \in 1..Len(more) : more[i] = IF i = 1 THEN <<>> \o Render(w[1]) ELSE Render(w[i])
    BY <1>3 DEF Cuts
  <2> HIDE DEF h, next
  <2>5. w \in Seq(Proper) /\ Len(w) = Len(q) - 1 /\ Len(q) \in Nat \ {0}
        /\ \A i \in 1..(Len(q) - 1) : w[i] = q[i + 1]
    BY <1>3
  <2>6. Len(more) \in Nat
    BY <2>3
  <2>7. /\ lines \in Seq(Text) /\ Len(lines) = Len(more) + 1
        /\ lines[1] = h /\ \A i \in 1..Len(more) : lines[i + 1] = more[i]
    <3> DEFINE one == <<h>>
    <3>1. one \in Seq(Text) /\ Len(one) = 1 /\ one[1] = h
      BY <2>2
    <3> HIDE DEF one, more
    <3>2. /\ one \o more \in Seq(Text) /\ Len(one \o more) = Len(one) + Len(more)
          /\ \A i \in 1..(Len(one) + Len(more)) :
               (one \o more)[i] = IF i <= Len(one) THEN one[i] ELSE more[i - Len(one)]
      BY <2>3, <3>1, ConcatProperties
    <3>3. (one \o more)[1] = h
      <4>1. 1 \in 1..(Len(one) + Len(more)) /\ 1 <= Len(one)
        BY <2>6, <3>1
      <4> QED BY <3>1, <3>2, <4>1
    <3>4. ASSUME NEW i \in 1..Len(more) PROVE (one \o more)[i + 1] = more[i]
      <4>1. i + 1 \in 1..(Len(one) + Len(more)) /\ ~(i + 1 <= Len(one)) /\ (i + 1) - Len(one) = i
        BY <2>6, <3>1
      <4> QED BY <3>2, <4>1
    <3>5. Len(one \o more) = Len(more) + 1
      BY <2>6, <3>1, <3>2
    <3>6. lines = one \o more
      BY DEF one, more
    <3> HIDE DEF lines
    <3> QED BY <3>2, <3>3, <3>4, <3>5, <3>6
  <2> HIDE DEF lines, more, w
  <2>8. Len(lines) <= Len(q) /\ lines # <<>>
    <3>1. Len(lines) # 0 /\ Len(lines) <= Len(q)
      BY <2>4, <2>5, <2>6, <2>7
    <3> QED BY <3>1
  <2>9. From(w, Len(more) + 1) = From(q, Len(lines) + 1)
    <3>1. w = From(q, 2)
      BY <1>3, TailIsFrom DEF w
    <3>2. /\ 2 \in 1..(Len(q) + 1) /\ Len(more) + 1 \in 1..(Len(q) - 2 + 2)
          /\ 2 + (Len(more) + 1) - 1 = Len(lines) + 1
      BY <2>4, <2>5, <2>6, <2>7
    <3>3. From(From(q, 2), Len(more) + 1) = From(q, 2 + (Len(more) + 1) - 1)
      BY <3>2, SliceOfSlice
    <3> QED BY <3>1, <3>2, <3>3
  <2>10. next.rest \o r = <<>> \o Stream(From(q, Len(lines) + 1))
    BY <2>4, <2>9
  <2>11. ASSUME NEW i \in 1..Len(lines)
         PROVE  lines[i] = IF i = 1 THEN piece \o Render(q[1]) ELSE Render(q[i])
    <3>1. CASE i = 1
      BY <2>7, <3>1 DEF h
    <3>2. CASE i # 1
      <4>1. i - 1 \in 1..Len(more) /\ (i - 1) + 1 = i /\ i - 1 \in 1..(Len(q) - 1)
        BY <2>4, <2>5, <2>6, <2>7, <3>2
      <4>2. lines[i] = more[i - 1] /\ w[i - 1] = q[i]
        BY <2>5, <2>7, <4>1
      <4>3. <<>> \o Render(w[1]) = Render(w[1])
        <5>1. w[1] \in Proper
          BY <2>5, <4>1
        <5>2. Render(w[1]) \in Text
          BY <5>1, SentType
        <5> QED BY <5>2, ConcatEmptySeq DEF Text
      <4>4. more[i - 1] = Render(w[i - 1])
        BY <2>4, <4>1, <4>3
      <4> QED BY <3>2, <4>2, <4>4
    <3> QED BY <3>1, <3>2
  <2> QED BY <2>1, <2>4, <2>8, <2>10, <2>11 DEF Cuts
<1>4. ASSUME NEW q \in Seq(Proper), NEW piece \in Seq(Inner), NEW t \in Text,
             t \o r = piece \o Stream(q), LineEnd(t) # 0, ~Split(t).past
      PROVE  ~Split(Erase(t, LineEnd(t))).past
  BY <1>4, SplitParts
<1>5. 0 \in Right
  <2> SUFFICES ASSUME NEW q \in Seq(Proper), NEW piece \in Seq(Inner), NEW t \in Text,
                      Len(q) = 0, t \o r = piece \o Stream(q)
               PROVE  Cuts(t, r, piece, q)
    OBVIOUS
  <2>1. q = <<>>
    OBVIOUS
  <2>2. LineEnd(t) = 0
    BY <1>2, <2>1
  <2> QED BY <1>1, <2>2
<1>6. ASSUME NEW n \in Nat, n \in Right PROVE n + 1 \in Right
  <2> SUFFICES ASSUME NEW q \in Seq(Proper), NEW piece \in Seq(Inner), NEW t \in Text,
                      Len(q) = n + 1, t \o r = piece \o Stream(q)
               PROVE  Split(t).past \/ Cuts(t, r, piece, q)
    <3>1. n + 1 \in Nat
      OBVIOUS
    <3> QED BY <3>1, Zenon
  <2>1. CASE LineEnd(t) = 0
    BY <1>1, <2>1
  <2>2. CASE LineEnd(t) # 0 /\ ~Split(t).past
    <3>1. /\ q # <<>> /\ Tail(q) \in Seq(Proper)
          /\ Upto(t, LineEnd(t)) = piece \o Render(q[1])
          /\ Erase(t, LineEnd(t)) \in Text
          /\ Erase(t, LineEnd(t)) \o r = <<>> \o Stream(Tail(q))
      BY <1>2, <2>2
    <3>2. ~Split(Erase(t, LineEnd(t))).past
      BY <1>4, <2>2
    <3>3. Len(Tail(q)) = n /\ <<>> \in Seq(Inner)
      BY <3>1
    <3>4. Cuts(Erase(t, LineEnd(t)), r, <<>>, Tail(q))
      BY <1>6, <3>1, <3>2, <3>3
    <3>5. Cuts(t, r, piece, q)
      BY <1>3, <2>2, <3>1, <3>4
    <3> QED BY <3>5
  <2> QED BY <2>1, <2>2
<1>7. \A n \in Nat : n \in Right
  <2> HIDE DEF Right
  <2> QED BY <1>5, <1>6, SetInduction
<1>8. \A q \in Seq(Proper) : Len(q) \in Nat
  OBVIOUS
<1> QED BY <1>7, <1>8

-----------------------------------------------------------------------------
(* The messages of a connection and the lines read *)

Readable == {Parse(l) : l \in Text}
Objects == [fields : Readable, size : Nat, own : BOOLEAN]

\* How m_buffer, the network, m_msg_pre_buffer and the messages that are due fit together: behind
\* a piece of an old line come the lines of the messages that are not in m_msg_pre_buffer yet.
Streams(buffer, net, queue, q, spoilt) ==
    /\ buffer \in Seq(Inner) /\ Len(queue) <= Len(q)
    /\ \E piece \in Seq(Inner) :
         /\ buffer \o net = piece \o Stream(From(q, Len(queue) + 1))
         /\ queue # <<>> \/ ~spoilt => piece = <<>>
    /\ \A i \in 1..Len(queue) : (i = 1 /\ spoilt) \/ queue[i].fields = Fields(q[i])

LEMMA ProperMessages == Messages \subseteq Proper
<1> SUFFICES ASSUME NEW m \in Messages PROVE m \in Proper
  OBVIOUS
<1>1. m \in [from : Words \union {""}, command : Words, params : Seq(Words),
             body : Seq(Tokens \ {CR, LF})]
  BY MessagesAssumption
<1> QED BY <1>1 DEF Proper, Inner

LEMMA InnerIsText ==
    ASSUME NEW t \in Seq(Inner)
    PROVE  t \in Seq(Tokens) /\ t \in Text
BY Vocabulary, SeqMonotonic DEF Text

LEMMA NewObject ==
    ASSUME NEW l \in Text
    PROVE  New(l) \in Objects /\ New(l).fields = Parse(l) /\ New(l).size = Len(l) /\ New(l).own = TRUE
<1>1. Parse(l) \in Readable /\ Len(l) \in Nat
  BY DEF Readable, Text
<1> QED BY <1>1 DEF New, Objects

\* ServerSends.
LEMMA SendsStream ==
    ASSUME NEW buffer, NEW net \in Text, NEW queue \in Seq(Objects), NEW q \in Seq(Proper),
           NEW spoilt, NEW m \in Proper, Streams(buffer, net, queue, q, spoilt)
    PROVE  Streams(buffer, net \o Render(m) \o <<CR, LF>>, queue, Append(q, m), spoilt)
<1> DEFINE a == Append(q, m)
           n == Len(queue)
           s == Stream(From(q, n + 1))
<1>1. /\ buffer \in Seq(Inner) /\ n <= Len(q)
      /\ \A i \in 1..n : (i = 1 /\ spoilt) \/ queue[i].fields = Fields(q[i])
  BY DEF Streams
<1>2. PICK piece \in Seq(Inner) :
         buffer \o net = piece \o s /\ (queue # <<>> \/ ~spoilt => piece = <<>>)
  BY DEF Streams
<1>3. n \in Nat /\ Len(q) \in Nat
  OBVIOUS
<1>4. /\ a \in Seq(Proper) /\ Len(a) = Len(q) + 1 /\ \A i \in 1..Len(q) : a[i] = q[i]
      /\ a[Len(q) + 1] = m
  OBVIOUS
<1>5. From(a, n + 1) = Append(From(q, n + 1), m) /\ From(q, n + 1) \in Seq(Proper)
  <2>1. <<m>> \in Seq(Proper) /\ n + 1 \in 1..(Len(q) + 1)
    BY <1>1, <1>3
  <2>2. From(q \o <<m>>, n + 1) = From(q, n + 1) \o <<m>> /\ From(q, n + 1) \in Seq(Proper)
    BY <2>1, PartsOfConcat, Slices
  <2>3. a = q \o <<m>> /\ Append(From(q, n + 1), m) = From(q, n + 1) \o <<m>>
    BY <2>2, AppendIsConcat
  <2> QED BY <2>2, <2>3
<1>6. Stream(From(a, n + 1)) = s \o Sent(m) /\ s \in Text /\ Sent(m) \in Text
  BY <1>5, StreamAppend, StreamEquation, SentType
<1>7. net \o Render(m) \o <<CR, LF>> = net \o Sent(m)
  <2> DEFINE e == <<CR, LF>>
             l == Render(m)
  <2>1. e \in Seq(Tokens) /\ l \in Seq(Tokens)
    <3>1. CR \in Tokens /\ LF \in Tokens
      BY Vocabulary
    <3> QED BY <3>1, SentType DEF Text
  <2> HIDE DEF e, l
  <2>2. (net \o l) \o e = net \o (l \o e)
    BY <2>1, Regroup DEF Text
  <2> QED BY <2>2 DEF Sent, e, l
<1>8. buffer \o (net \o Sent(m)) = piece \o (s \o Sent(m))
  <2>1. buffer \in Text /\ piece \in Text
    BY <1>1, InnerIsText
  <2> HIDE DEF s
  <2>2. /\ (buffer \o net) \o Sent(m) = buffer \o (net \o Sent(m))
        /\ (piece \o s) \o Sent(m) = piece \o (s \o Sent(m))
    <3>1. net \in Text
      OBVIOUS
    <3>2. buffer \o (net \o Sent(m)) = (buffer \o net) \o Sent(m)
      BY SMTT(30), <1>6, <2>1, <3>1, TextGroups, Zenon
    <3>3. piece \o (s \o Sent(m)) = (piece \o s) \o Sent(m)
      BY <1>6, <2>1, TextGroups, Zenon
    <3> QED BY <3>2, <3>3
  <2> QED BY <1>2, <2>2
<1>9. \A i \in 1..n : (i = 1 /\ spoilt) \/ queue[i].fields = Fields(a[i])
  <2> TAKE i \in 1..n
  <2>1. i \in 1..Len(q)
    BY <1>1, <1>3
  <2> QED BY <1>1, <1>4, <2>1
<1>10. n <= Len(a)
  BY <1>1, <1>3, <1>4
<1> HIDE DEF a, n, s
<1>11. buffer \o (net \o Render(m) \o <<CR, LF>>) = piece \o Stream(From(a, n + 1))
  BY <1>6, <1>7, <1>8
<1> QED BY <1>1, <1>2, <1>9, <1>10, <1>11 DEF Streams, a, n

\* Read: all of m_buffer and k characters of the network.
LEMMA ReadsStream ==
    ASSUME NEW buffer, NEW net \in Text, NEW q \in Seq(Proper), NEW spoilt,
           Streams(buffer, net, <<>>, q, spoilt), NEW k \in 1..Len(net),
           ~Split(buffer \o SubSeq(net, 1, k)).past
    PROVE  LET split == Split(buffer \o SubSeq(net, 1, k))
           IN  Streams(split.rest, From(net, k + 1), [i \in DOMAIN split.lines |-> New(split.lines[i])],
                       q, spoilt)
<1> DEFINE x == SubSeq(net, 1, k)
           r == From(net, k + 1)
           t == buffer \o x
           lines == Split(t).lines
           queue == [i \in DOMAIN lines |-> New(lines[i])]
<1>1. buffer \in Seq(Inner) /\ From(q, Len(<<>>) + 1) = q
  <2>1. Len(<<>>) + 1 = 1 /\ From(q, 1) = q
    BY FromFirst
  <2> QED BY <2>1 DEF Streams
<1>2. PICK piece \in Seq(Inner) : buffer \o net = piece \o Stream(q) /\ (~spoilt => piece = <<>>)
  BY <1>1 DEF Streams
<1>3. x \in Seq(Tokens) /\ r \in Seq(Tokens) /\ x \o r = net
  BY CutAnywhere DEF Text
<1> HIDE DEF x, r
<1>4. t \in Text /\ r \in Text /\ t \o r = piece \o Stream(q)
  <2>1. buffer \in Text /\ x \in Text /\ r \in Text
    BY <1>1, <1>3, InnerIsText DEF Text
  <2>2. t \in Text
    BY <2>1, TextJoins, Zenon
  <2>3. buffer \o (x \o r) = (buffer \o x) \o r
    BY <2>1, TextGroups, Zenon
  <2> QED BY <1>2, <1>3, <2>1, <2>2, <2>3
<1>5. ~Split(t).past
  BY DEF x
<1> HIDE DEF t
<1>6. Cuts(t, r, piece, q)
  BY <1>4, <1>5, SplitStream
<1>7. lines \in Seq(Text) /\ Split(t).rest \in Text
  BY <1>4, SplitEquation DEF Splits
<1>8. /\ Len(lines) <= Len(q) /\ Split(t).rest \in Seq(Inner)
      /\ Split(t).rest \o r
             = (IF lines = <<>> THEN piece ELSE <<>>) \o Stream(From(q, Len(lines) + 1))
      /\ \A i \in 1..Len(lines) :
           lines[i] = IF i = 1 THEN piece \o Render(q[1]) ELSE Render(q[i])
  BY <1>6 DEF Cuts
<1> HIDE DEF lines
<1>9. /\ DOMAIN lines = 1..Len(lines) /\ Len(lines) \in Nat
      /\ queue \in Seq(Objects) /\ Len(queue) = Len(lines)
      /\ \A i \in 1..Len(lines) : queue[i] = New(lines[i])
  <2>1. DOMAIN lines = 1..Len(lines) /\ Len(lines) \in Nat
    BY <1>7
  <2>2. ASSUME NEW i \in 1..Len(lines) PROVE New(lines[i]) \in Objects
    <3>1. lines[i] \in Text
      BY <1>7
    <3> QED BY <3>1, NewObject
  <2> QED BY <2>1, <2>2
<1> HIDE DEF queue
<1>10. queue = <<>> <=> lines = <<>>
  <2>1. queue = <<>> <=> Len(queue) = 0
    BY <1>9
  <2>2. lines = <<>> <=> Len(lines) = 0
    BY <1>7
  <2> QED BY <1>9, <2>1, <2>2
<1>11. ASSUME NEW i \in 1..Len(queue)
       PROVE  (i = 1 /\ spoilt) \/ queue[i].fields = Fields(q[i])
  <2>1. i \in 1..Len(lines) /\ i \in 1..Len(q)
    BY <1>8, <1>9
  <2>2. q[i] \in Proper /\ q[1] \in Proper
    <3>1. 1 \in 1..Len(q)
      BY <2>1
    <3> QED BY <2>1, <3>1
  <2>3. CASE lines[i] = Render(q[i])
    <3>1. Render(q[i]) \in Text /\ Parse(Render(q[i])) = Fields(q[i])
      BY <2>2, SentType, ReadsLine
    <3>2. New(lines[i]).fields = Parse(lines[i])
      BY <2>3, <3>1, NewObject
    <3> QED BY <1>9, <2>1, <2>3, <3>1, <3>2
  <2>4. CASE i = 1 /\ ~spoilt
    <3>1. lines[i] = <<>> \o Render(q[1])
      BY <1>2, <1>8, <2>1, <2>4
    <3>2. <<>> \o Render(q[1]) = Render(q[1])
      <4>1. Render(q[1]) \in Text
        BY <2>2, SentType
      <4> QED BY <4>1, ConcatEmptySeq DEF Text
    <3> QED BY <2>3, <2>4, <3>1, <3>2
  <2>5. CASE i # 1
    BY <1>8, <2>1, <2>3, <2>5
  <2> QED BY <2>4, <2>5
<1> DEFINE rest == Split(t).rest
           left == IF lines = <<>> THEN piece ELSE <<>>
<1>12. /\ left \in Seq(Inner) /\ rest \o r = left \o Stream(From(q, Len(queue) + 1))
       /\ queue # <<>> \/ ~spoilt => left = <<>>
  <2>1. left \in Seq(Inner)
    OBVIOUS
  <2>2. queue # <<>> \/ ~spoilt => left = <<>>
    BY <1>2, <1>10
  <2> QED BY <1>8, <1>9, <2>1, <2>2
<1>13. rest \in Seq(Inner) /\ Len(queue) <= Len(q)
  BY <1>8, <1>9
<1> HIDE DEF rest, left
<1>14. Streams(rest, r, queue, q, spoilt)
  BY <1>11, <1>12, <1>13 DEF Streams
<1> QED BY <1>14 DEF rest, r, queue, lines, t, x

\* Consume: the first line goes, and the message it was.
LEMMA PopsStream ==
    ASSUME NEW buffer, NEW net \in Text, NEW queue \in Seq(Objects), NEW q \in Seq(Proper),
           NEW spoilt, Streams(buffer, net, queue, q, spoilt), queue # <<>>
    PROVE  Streams(buffer, net, Tail(queue), IF q = <<>> THEN q ELSE Tail(q), FALSE)
<1> DEFINE n == Len(queue)
           v == Tail(queue)
           w == Tail(q)
<1>1. /\ buffer \in Seq(Inner) /\ n <= Len(q)
      /\ buffer \o net = <<>> \o Stream(From(q, n + 1))
      /\ \A i \in 1..n : (i = 1 /\ spoilt) \/ queue[i].fields = Fields(q[i])
  BY DEF Streams
<1>2. n \in Nat \ {0} /\ Len(q) \in Nat
  OBVIOUS
<1>3. q # <<>>
  BY <1>1, <1>2
<1>4. v \in Seq(Objects) /\ Len(v) = n - 1 /\ \A i \in 1..(n - 1) : v[i] = queue[i + 1]
  OBVIOUS
<1>5. w \in Seq(Proper) /\ Len(w) = Len(q) - 1 /\ \A i \in 1..(Len(q) - 1) : w[i] = q[i + 1]
  BY <1>3
<1>6. From(w, Len(v) + 1) = From(q, n + 1)
  <2>1. w = From(q, 2)
    BY <1>3, TailIsFrom
  <2> HIDE DEF v, w, n
  <2>2. /\ 2 \in 1..(Len(q) + 1) /\ Len(v) + 1 \in 1..(Len(q) - 2 + 2)
        /\ 2 + (Len(v) + 1) - 1 = n + 1
    BY <1>1, <1>2, <1>4
  <2>3. From(From(q, 2), Len(v) + 1) = From(q, 2 + (Len(v) + 1) - 1)
    BY <2>2, SliceOfSlice
  <2> QED BY <2>1, <2>2, <2>3
<1> HIDE DEF n, v, w
<1>7. \A i \in 1..Len(v) : v[i].fields = Fields(w[i])
  <2> TAKE i \in 1..Len(v)
  <2>1. i \in 1..(n - 1) /\ i \in 1..(Len(q) - 1) /\ i + 1 \in 1..n /\ i + 1 # 1
    BY <1>1, <1>2, <1>4
  <2> QED BY <1>1, <1>4, <1>5, <2>1
<1>8. Len(v) <= Len(w)
  BY <1>1, <1>2, <1>4, <1>5
<1>9. Streams(buffer, net, v, w, FALSE)
  <2>1. <<>> \in Seq(Inner) /\ buffer \o net = <<>> \o Stream(From(w, Len(v) + 1))
    BY <1>1, <1>6
  <2> QED BY <1>1, <1>7, <1>8, <2>1 DEF Streams
<1> QED BY <1>3, <1>9 DEF v, w

\* Reconnect: what is left in m_buffer spoils the first line of the new connection.
LEMMA ReconnectsStream ==
    ASSUME NEW buffer \in Seq(Inner)
    PROVE  Streams(buffer, <<>>, <<>>, <<>>, buffer # <<>>)
<1>1. From(<<>>, Len(<<>>) + 1) = <<>>
  BY DEF From
<1>2. <<>> \in Seq(Proper) /\ <<>> \in Seq(Inner)
  OBVIOUS
<1>3. Stream(<<>>) = <<>>
  BY <1>2, StreamEquation
<1>4. buffer \o <<>> = buffer \o Stream(From(<<>>, Len(<<>>) + 1))
  BY <1>1, <1>3
<1>5. Len(<<>>) <= Len(<<>>) /\ 1..Len(<<>>) = {}
  OBVIOUS
<1> QED BY <1>4, <1>5 DEF Streams

\* The inductive invariant of the input.
ReadOK ==
    /\ running \in BOOLEAN /\ m_suspend_read \in BOOLEAN /\ torn \in BOOLEAN /\ glued \in BOOLEAN
    /\ network \in Text /\ m_buffer \in Text /\ m_msg_pre_buffer \in Seq(Objects)
    /\ due \in Seq(Messages) /\ Len(due) <= MaxUnread
    /\ sent \in 0..MaxMessages /\ cuts \in 0..MaxCuts
StreamOK == ~torn => Streams(m_buffer, network, m_msg_pre_buffer, due, glued)
StreamInv == ReadOK /\ StreamOK

LEMMA DueIsProper ==
    ASSUME NEW q \in Seq(Messages)
    PROVE  q \in Seq(Proper)
BY ProperMessages, SeqMonotonic

LEMMA StreamInit == Init => StreamInv
<1> SUFFICES ASSUME Init PROVE StreamInv
  OBVIOUS
<1> USE DEF Init
<1>1. ReadOK
  <2>1. 0 \in 0..MaxMessages /\ 0 \in 0..MaxCuts /\ 0 <= MaxUnread
    BY PathAssumption
  <2>2. <<>> \in Text /\ <<>> \in Seq(Objects) /\ <<>> \in Seq(Messages) /\ Len(<<>>) = 0
    BY DEF Text
  <2> QED BY <2>1, <2>2 DEF ReadOK
<1>2. StreamOK
  <2>1. <<>> \in Seq(Inner)
    OBVIOUS
  <2>2. Streams(<<>>, <<>>, <<>>, <<>>, <<>> # <<>>)
    BY <2>1, ReconnectsStream
  <2> QED BY <2>2 DEF StreamOK
<1> QED BY <1>1, <1>2 DEF StreamInv

LEMMA ServerSendsKeeps ==
    ASSUME StreamInv, NEW m \in Messages, ServerSends(m)
    PROVE  StreamInv'
<1> USE DEF StreamInv
<1>1. m \in Proper /\ due \in Seq(Proper)
  BY ProperMessages, DueIsProper DEF ReadOK
<1>2. ReadOK'
  <2>1. network \o Render(m) \o <<CR, LF>> \in Text
    <3>1. network \o Render(m) \in Text
      BY <1>1, SentType, TextJoins DEF ReadOK
    <3>2. <<CR, LF>> \in Text
      <4>1. CR \in Tokens /\ LF \in Tokens
        BY Vocabulary
      <4> QED BY <4>1 DEF Text
    <3> QED BY <3>1, <3>2, TextJoins, Zenon
  <2>2. Append(due, m) \in Seq(Messages) /\ Len(Append(due, m)) <= MaxUnread
    BY PathAssumption DEF ReadOK, ServerSends
  <2>3. sent + 1 \in 0..MaxMessages
    BY PathAssumption DEF ReadOK, ServerSends
  <2> QED BY <2>1, <2>2, <2>3 DEF ReadOK, ServerSends
<1>3. StreamOK'
  <2> SUFFICES ASSUME ~torn'
               PROVE  Streams(m_buffer, network, m_msg_pre_buffer, due, glued)'
    BY DEF StreamOK
  <2>1. Streams(m_buffer, network, m_msg_pre_buffer, due, glued)
    BY DEF StreamOK, ServerSends
  <2>2. network \in Text /\ m_msg_pre_buffer \in Seq(Objects)
    BY DEF ReadOK
  <2>3. Streams(m_buffer, network \o Render(m) \o <<CR, LF>>, m_msg_pre_buffer, Append(due, m), glued)
    BY <1>1, <2>1, <2>2, SendsStream
  <2>4. /\ network' = network \o Render(m) \o <<CR, LF>> /\ due' = Append(due, m)
        /\ m_buffer' = m_buffer /\ m_msg_pre_buffer' = m_msg_pre_buffer /\ glued' = glued
    BY DEF ServerSends
  <2> QED BY <2>3, <2>4
<1> QED BY <1>2, <1>3

\* The lines that Read(k) makes.
LEMMA ReadMakes ==
    ASSUME ReadOK, NEW k \in 1..Len(network), Read(k)
    PROVE  LET t == m_buffer \o SubSeq(network, 1, k)
               split == Split(t)
               r == From(network, k + 1)
           IN  /\ t \in Text /\ split \in Splits /\ r \in Text /\ t \o r = m_buffer \o network
               /\ network' = r /\ m_buffer' = split.rest
               /\ m_msg_pre_buffer' = [i \in DOMAIN split.lines |-> New(split.lines[i])]
               /\ m_msg_pre_buffer' \in Seq(Objects)
               /\ Len(m_msg_pre_buffer') = Len(split.lines)
               /\ \A i \in 1..Len(split.lines) :
                    split.lines[i] \in Text /\ m_msg_pre_buffer'[i] = New(split.lines[i])
               /\ torn' = (torn \/ split.past)
<1> DEFINE x == SubSeq(network, 1, k)
           r == From(network, k + 1)
           t == m_buffer \o x
           split == Split(t)
           lines == split.lines
           queue == [i \in DOMAIN lines |-> New(lines[i])]
<1>1. x \in Text /\ r \in Text /\ x \o r = network
  BY CutAnywhere DEF ReadOK, Text
<1> HIDE DEF x, r
<1>2. t \in Text /\ t \o r = m_buffer \o network
  <2>1. m_buffer \in Text
    BY DEF ReadOK
  <2>2. t \in Text
    BY <1>1, <2>1, TextJoins, Zenon
  <2>3. m_buffer \o (x \o r) = (m_buffer \o x) \o r
    BY <1>1, <2>1, TextGroups, Zenon
  <2> QED BY <1>1, <2>2, <2>3
<1>3. /\ network' = r /\ m_buffer' = split.rest /\ m_msg_pre_buffer' = queue
      /\ torn' = (torn \/ split.past)
  BY DEF Read, r, x
<1> HIDE DEF t
<1>4. split \in Splits
  BY <1>2, SplitEquation
<1> HIDE DEF split
<1>5. lines \in Seq(Text)
  BY <1>4 DEF Splits
<1> HIDE DEF lines
<1>6. /\ queue \in Seq(Objects) /\ Len(queue) = Len(lines)
      /\ \A i \in 1..Len(lines) : lines[i] \in Text /\ queue[i] = New(lines[i])
  <2>1. DOMAIN lines = 1..Len(lines) /\ Len(lines) \in Nat
    BY <1>5
  <2>2. ASSUME NEW i \in 1..Len(lines) PROVE lines[i] \in Text /\ New(lines[i]) \in Objects
    <3>1. lines[i] \in Text
      BY <1>5
    <3> QED BY <3>1, NewObject
  <2> QED BY <2>1, <2>2
<1> HIDE DEF queue
<1>7. /\ t \in Text /\ split \in Splits /\ r \in Text /\ t \o r = m_buffer \o network
      /\ network' = r /\ m_buffer' = split.rest
      /\ m_msg_pre_buffer' = queue
      /\ m_msg_pre_buffer' \in Seq(Objects)
      /\ Len(m_msg_pre_buffer') = Len(lines)
      /\ \A i \in 1..Len(lines) : lines[i] \in Text /\ m_msg_pre_buffer'[i] = New(lines[i])
      /\ torn' = (torn \/ split.past)
  BY <1>1, <1>2, <1>3, <1>4, <1>6
<1> QED BY <1>7 DEF queue, lines, split, t, x, r

LEMMA ReadKeeps ==
    ASSUME StreamInv, NEW k \in 1..Len(network), Read(k)
    PROVE  StreamInv'
<1> USE DEF StreamInv
<1> DEFINE t == m_buffer \o SubSeq(network, 1, k)
           split == Split(t)
           r == From(network, k + 1)
           queue == [i \in DOMAIN split.lines |-> New(split.lines[i])]
<1>1. /\ split \in Splits /\ r \in Text
      /\ network' = r /\ m_buffer' = split.rest
      /\ m_msg_pre_buffer' = queue
      /\ m_msg_pre_buffer' \in Seq(Objects)
      /\ torn' = (torn \/ split.past)
  BY ReadMakes
<1>2. ReadOK'
  <2>1. cuts' \in 0..MaxCuts
    <3>1. cuts' = cuts \/ (cuts < MaxCuts /\ cuts' = cuts + 1)
      BY DEF Read
    <3> QED BY <3>1, PathAssumption DEF ReadOK
  <2>2. running' \in BOOLEAN
    BY DEF Read
  <2>3. m_buffer' \in Text /\ network' \in Text /\ torn' \in BOOLEAN
    <3> HIDE DEF split, r, queue
    <3>1. split.rest \in Text /\ split.past \in BOOLEAN
      BY <1>1 DEF Splits
    <3> QED BY <1>1, <3>1
  <2>4. UNCHANGED <<due, sent, m_suspend_read, glued>>
    BY DEF Read
  <2> HIDE DEF queue
  <2> QED BY <1>1, <2>1, <2>2, <2>3, <2>4 DEF ReadOK
<1>3. StreamOK'
  <2> SUFFICES ASSUME ~torn'
               PROVE  Streams(m_buffer, network, m_msg_pre_buffer, due, glued)'
    BY DEF StreamOK
  <2>1. ~torn /\ ~split.past
    BY <1>1
  <2>2. m_msg_pre_buffer = <<>> /\ due' = due /\ glued' = glued
    BY DEF Read
  <2>3. Streams(m_buffer, network, <<>>, due, glued)
    BY <2>1, <2>2 DEF StreamOK
  <2>4. network \in Text /\ due \in Seq(Proper)
    BY DueIsProper DEF ReadOK
  <2>5. Streams(split.rest, r, queue, due, glued)
    BY <2>1, <2>3, <2>4, ReadsStream
  <2> HIDE DEF split, r, queue
  <2> QED BY <1>1, <2>2, <2>5
<1> QED BY <1>2, <1>3

LEMMA ReconnectKeeps ==
    ASSUME StreamInv, Reconnect
    PROVE  StreamInv'
<1> USE DEF StreamInv
<1>1. ReadOK'
  <2>1. <<>> \in Text /\ <<>> \in Seq(Messages) /\ Len(<<>>) <= MaxUnread
    BY PathAssumption DEF Text
  <2>2. glued' \in BOOLEAN
    BY DEF Reconnect
  <2> QED BY <2>1, <2>2 DEF ReadOK, Reconnect
<1>2. StreamOK'
  <2> SUFFICES ASSUME ~torn'
               PROVE  Streams(m_buffer, network, m_msg_pre_buffer, due, glued)'
    BY DEF StreamOK
  <2>1. Streams(m_buffer, network, m_msg_pre_buffer, due, glued)
    BY DEF StreamOK, Reconnect
  <2>2. m_buffer \in Seq(Inner)
    BY <2>1 DEF Streams
  <2>3. Streams(m_buffer, <<>>, <<>>, <<>>, m_buffer # <<>>)
    BY <2>2, ReconnectsStream
  <2> QED BY <2>3 DEF Reconnect
<1> QED BY <1>1, <1>2

LEMMA ConsumeKeeps ==
    ASSUME StreamInv, Consume
    PROVE  StreamInv'
<1> USE DEF StreamInv
<1>1. /\ m_msg_pre_buffer # <<>> /\ m_msg_pre_buffer' = Tail(m_msg_pre_buffer)
      /\ due' = (IF due = <<>> THEN due ELSE Tail(due)) /\ glued' = FALSE
      /\ UNCHANGED <<network, sent, cuts, m_buffer, torn>>
  BY DEF Consume, PopFront
<1>2. running' \in BOOLEAN /\ m_suspend_read' \in BOOLEAN
  <2>1. running \in BOOLEAN /\ m_suspend_read \in BOOLEAN
    BY DEF ReadOK
  <2>2. CASE ConsumePrivmsg
    BY <2>1, <2>2 DEF ConsumePrivmsg
  <2>3. CASE ConsumeBadPrivmsg
    BY <2>1, <2>3 DEF ConsumeBadPrivmsg, OutOfBounds
  <2>4. CASE ConsumeBadOwnLine
    BY <2>1, <2>4 DEF ConsumeBadOwnLine, OutOfBounds
  <2>5. CASE ConsumeOther
    BY <2>1, <2>5 DEF ConsumeOther
  <2> QED BY <2>2, <2>3, <2>4, <2>5 DEF Consume
<1>3. ReadOK'
  <2>1. m_msg_pre_buffer' \in Seq(Objects)
    BY <1>1 DEF ReadOK
  <2>2. due' \in Seq(Messages) /\ Len(due') <= MaxUnread
    <3>1. CASE due = <<>>
      BY <1>1, <3>1 DEF ReadOK
    <3>2. CASE due # <<>>
      <4>1. due' = Tail(due) /\ due \in Seq(Messages) /\ Len(due) <= MaxUnread
        BY <1>1, <3>2 DEF ReadOK
      <4>2. Tail(due) \in Seq(Messages) /\ Len(Tail(due)) = Len(due) - 1 /\ Len(due) \in Nat
        BY <3>2, <4>1
      <4> QED BY <4>1, <4>2, PathAssumption
    <3> QED BY <3>1, <3>2
  <2> QED BY <1>1, <1>2, <2>1, <2>2 DEF ReadOK
<1>4. StreamOK'
  <2> SUFFICES ASSUME ~torn'
               PROVE  Streams(m_buffer, network, m_msg_pre_buffer, due, glued)'
    BY DEF StreamOK
  <2>1. Streams(m_buffer, network, m_msg_pre_buffer, due, glued)
    BY <1>1 DEF StreamOK
  <2>2. network \in Text /\ m_msg_pre_buffer \in Seq(Objects) /\ due \in Seq(Proper)
    BY DueIsProper DEF ReadOK
  <2>3. Streams(m_buffer, network, Tail(m_msg_pre_buffer), IF due = <<>> THEN due ELSE Tail(due), FALSE)
    BY <1>1, <2>1, <2>2, PopsStream
  <2> QED BY <1>1, <2>3
<1> QED BY <1>3, <1>4

LEMMA StreamNext == StreamInv /\ [Next]_vars => StreamInv'
<1> SUFFICES ASSUME StreamInv, [Next]_vars PROVE StreamInv'
  OBVIOUS
<1>1. CASE UNCHANGED <<running, m_suspend_read, torn, glued, network, m_buffer, m_msg_pre_buffer,
                       due, sent, cuts>>
  BY <1>1 DEF StreamInv, StreamOK, ReadOK
<1>2. CASE Next
  <2>1. CASE \E m \in Messages : ServerSends(m)
    BY <2>1, ServerSendsKeeps
  <2>2. CASE \E k \in 1..Len(network) : Read(k)
    BY <2>2, ReadKeeps
  <2>3. CASE Reconnect
    BY <2>3, ReconnectKeeps
  <2>4. CASE Consume
    BY <2>4, ConsumeKeeps
  <2>5. CASE \E j \in jobs : Answer(j)
    <3>1. PICK j \in jobs : Answer(j)
      BY <2>5
    <3> QED BY <1>1, <3>1 DEF Answer, input
  <2> QED BY <1>2, <2>1, <2>2, <2>3, <2>4, <2>5 DEF Next
<1>3. CASE UNCHANGED vars
  BY <1>1, <1>3 DEF vars, input
<1> QED BY <1>2, <1>3

\* The invariant of the stream: what is kept, in the buffer and under way is what is due.
THEOREM StreamHolds == Spec => []StreamInv
BY StreamInit, StreamNext, PTL DEF Spec

\* However the reads cut the stream, each message is read once, in order and as it was sent:
\* the line at i of m_msg_pre_buffer is the message due[i].  (parseBuffer, onRead and
\* IRCMessage; for all messages, all reads and any number of reconnections.)
THEOREM MessagesReadAsSent == Spec => []MessagesIntact
<1>1. StreamInv => MessagesIntact
  <2> SUFFICES ASSUME StreamInv, ~torn, NEW i \in DOMAIN m_msg_pre_buffer
               PROVE  \/ i = 1 /\ glued
                      \/ i \in DOMAIN due /\ m_msg_pre_buffer[i].fields = Fields(due[i])
    BY DEF MessagesIntact
  <2>1. Streams(m_buffer, network, m_msg_pre_buffer, due, glued)
    BY DEF StreamInv, StreamOK
  <2>2. m_msg_pre_buffer \in Seq(Objects) /\ due \in Seq(Messages)
    BY DEF StreamInv, ReadOK
  <2>3. i \in 1..Len(m_msg_pre_buffer) /\ Len(m_msg_pre_buffer) <= Len(due)
    BY <2>1, <2>2 DEF Streams
  <2>4. i \in DOMAIN due
    BY <2>2, <2>3
  <2> QED BY <2>1, <2>3, <2>4 DEF Streams
<1> QED BY <1>1, StreamHolds, PTL

\* Only a read that ends between CR and LF, or a piece of an old line, takes the bot out of the
\* bounds of a buffer; or a PRIVMSG, a JOIN or a PART that the server has sent without a channel.
\* (parseBuffer's erase, and getParams()[0] of a PRIVMSG and of the bot's own JOIN and PART.)
THEOREM OutOfBoundsOnlyTorn == Spec => BoundsKept
<1>1. StreamInv /\ [Next]_vars => 
         [running /\ ~running' =>
            torn' \/ glued \/ (due # <<>> /\ NamesNoChannel(due[1]))]_vars
  <2> SUFFICES ASSUME StreamInv, Next, running, ~running', ~torn', ~glued,
                      due # <<>> => ~NamesNoChannel(due[1])
               PROVE  FALSE
    OBVIOUS
  <2>1. CASE \E m \in Messages : ServerSends(m)
    BY <2>1 DEF ServerSends
  <2>2. CASE \E k \in 1..Len(network) : Read(k)
    <3>1. PICK k \in 1..Len(network) : Read(k)
      BY <2>2
    <3> DEFINE past == Split(m_buffer \o SubSeq(network, 1, k)).past
    <3>2. running' \in (IF past THEN BOOLEAN ELSE {TRUE}) /\ torn' = (torn \/ past)
      BY <3>1 DEF Read
    <3> HIDE DEF past
    <3> QED BY <3>2
  <2>3. CASE Reconnect
    BY <2>3 DEF Reconnect
  <2>4. CASE Consume
    <3>1. CASE ConsumePrivmsg
      BY <3>1 DEF ConsumePrivmsg
    <3>2. CASE ConsumeOther
      BY <3>2 DEF ConsumeOther
    <3>3. CASE ConsumeBadPrivmsg \/ ConsumeBadOwnLine
      <4> DEFINE o == m_msg_pre_buffer[1]
                 m == due[1]
      <4>1. /\ o.fields.command \in {<<"PRIVMSG">>, <<"JOIN">>, <<"PART">>}
            /\ o.fields.params = <<>>
        BY <3>3 DEF ConsumeBadPrivmsg, ConsumeBadOwnLine, OwnLine, Field, irc_msg
      <4>2. m_msg_pre_buffer # <<>> /\ torn' = torn
        BY <2>4 DEF Consume, PopFront
      <4>3. Streams(m_buffer, network, m_msg_pre_buffer, due, glued)
        BY <4>2 DEF StreamInv, StreamOK
      <4>4. m_msg_pre_buffer \in Seq(Objects) /\ due \in Seq(Messages)
        BY DEF StreamInv, ReadOK
      <4>5. 1 \in 1..Len(m_msg_pre_buffer) /\ 1 \in 1..Len(due)
        BY <4>2, <4>3, <4>4 DEF Streams
      <4>6. o.fields = Fields(m)
        BY <4>3, <4>5 DEF Streams
      <4>7. m \in Messages /\ due # <<>>
        BY <4>4, <4>5
      <4> HIDE DEF o, m
      <4>8. <<m.command>> \in {<<"PRIVMSG">>, <<"JOIN">>, <<"PART">>} /\ Fields(m).params = <<>>
        <5>1. Fields(m).command = <<m.command>>
          BY DEF Fields
        <5> QED BY <4>1, <4>6, <5>1
      <4>9. m.command \in {"PRIVMSG", "JOIN", "PART"}
        BY <4>8
      <4>10. m.params # <<>>
        BY <4>7, <4>9 DEF NamesNoChannel, m
      <4>11. m.params \in Seq(Words)
        BY <4>7, MessagesAssumption
      <4>12. Fields(m).params = [i \in DOMAIN m.params |-> <<m.params[i]>>]
        BY <4>10 DEF Fields
      <4>13. DOMAIN Fields(m).params = 1..Len(m.params) /\ Len(m.params) # 0 /\ Len(m.params) \in Nat
        BY <4>10, <4>11, <4>12
      <4>14. DOMAIN <<>> = {} /\ 1 \in 1..Len(m.params)
        BY <4>13
      <4> QED BY <4>8, <4>13, <4>14
    <3> QED BY <2>4, <3>1, <3>2, <3>3 DEF Consume
  <2>5. CASE \E j \in jobs : Answer(j)
    BY <2>5 DEF Answer
  <2> QED BY <2>1, <2>2, <2>3, <2>4, <2>5 DEF Next
<1> QED BY <1>1, StreamHolds, PTL DEF Spec, BoundsKept

-----------------------------------------------------------------------------
(* Messages that are held inside the object *)

\* A PRIVMSG has a prefix before it that is longer than what is held inside, even behind an erase
\* that took one character too much.
Far(s) ==
    \A i \in 1..Len(s) : s[i] = "PRIVMSG" =>
        /\ i > Inline
        /\ \A j \in 1..(i - 1) : i - Inline - 1 <= j => s[j] \in Inner
FarLine(l) == \A i \in 1..Len(l) : l[i] = "PRIVMSG" => i > Inline

Shifts(u, s, d) ==
    \A j \in 1..Len(u) : (j + d \in 1..Len(s) /\ u[j] = s[j + d]) \/ u[j] = "damaged"

LEMMA ShiftedIsFar ==
    ASSUME NEW s \in Text, NEW u \in Text, NEW n \in 1..Len(s), Far(s), s[n] \notin Inner,
           NEW d \in {n, n + 1}, Shifts(u, s, d)
    PROVE  Far(u)
<1>1. Len(u) \in Nat /\ Len(s) \in Nat /\ Inline \in Nat /\ n \in Nat /\ d \in Nat
  BY PathAssumption DEF Text
<1> SUFFICES ASSUME NEW i \in 1..Len(u), u[i] = "PRIVMSG"
             PROVE  /\ i > Inline
                    /\ \A j \in 1..(i - 1) : i - Inline - 1 <= j => u[j] \in Inner
  BY DEF Far
<1>2. i + d \in 1..Len(s) /\ s[i + d] = "PRIVMSG"
  <2>1. u[i] # "damaged"
    OBVIOUS
  <2> QED BY <2>1 DEF Shifts
<1>3. \A j \in 1..(i + d - 1) : i + d - Inline - 1 <= j => s[j] \in Inner
  <2> DEFINE k == i + d
  <2>1. k \in 1..Len(s) /\ s[k] = "PRIVMSG"
    BY <1>2
  <2> HIDE DEF k
  <2>2. \A j \in 1..(k - 1) : k - Inline - 1 <= j => s[j] \in Inner
    BY <2>1 DEF Far
  <2>3. k - 1 = i + d - 1 /\ k - Inline - 1 = i + d - Inline - 1
    BY <1>1 DEF k
  <2> QED BY <2>2, <2>3
<1>4. n \in 1..(i + d - 1)
  BY <1>1
<1>5. n < i + d - Inline - 1
  BY <1>1, <1>3, <1>4
<1>6. i > Inline
  BY <1>1, <1>5
<1>7. ASSUME NEW j \in 1..(i - 1), i - Inline - 1 <= j PROVE u[j] \in Inner
  <2>1. j \in 1..Len(u)
    BY <1>1
  <2>2. CASE u[j] = "damaged"
    BY <2>2, Vocabulary
  <2>3. CASE u[j] = s[j + d]
    <3>1. j + d \in 1..(i + d - 1) /\ i + d - Inline - 1 <= j + d
      BY <1>1, <1>7
    <3> QED BY <1>3, <2>3, <3>1
  <2> QED BY <2>1, <2>2, <2>3 DEF Shifts
<1> QED BY <1>6, <1>7

LEMMA EraseShifts ==
    ASSUME NEW t \in Text, NEW r \in Text, NEW n \in 1..Len(t)
    PROVE  \E d \in {n, n + 1} : Shifts(Erase(t, n) \o r, t \o r, d)
<1> DEFINE s == t \o r
<1>1. /\ s \in Seq(Tokens) /\ Len(s) = Len(t) + Len(r)
      /\ \A i \in 1..(Len(t) + Len(r)) : s[i] = IF i <= Len(t) THEN t[i] ELSE r[i - Len(t)]
  BY ConcatProperties DEF Text
<1>2. Len(t) \in Nat /\ Len(r) \in Nat /\ n \in Nat
  BY DEF Text
<1> HIDE DEF s
<1>3. CASE n + 1 > Len(t)
  <2>1. Erase(t, n) \o r = r
    <3>1. Erase(t, n) = <<>>
      BY <1>3 DEF Erase
    <3> QED BY <3>1, ConcatEmptySeq DEF Text
  <2>2. ASSUME NEW j \in 1..Len(r) PROVE j + n \in 1..Len(s) /\ r[j] = s[j + n]
    <3>1. /\ j + n \in 1..(Len(t) + Len(r)) /\ ~(j + n <= Len(t))
          /\ (j + n) - Len(t) = j
      BY <1>2, <1>3
    <3> QED BY <1>1, <3>1
  <2>3. Shifts(r, s, n)
    BY <2>2 DEF Shifts
  <2> QED BY <2>1, <2>3 DEF s
<1>4. CASE ~(n + 1 > Len(t))
  <2> DEFINE f == From(s, n + 2)
             g == From(t, n + 2)
  <2>1. n + 2 \in 1..(Len(t) + 1) /\ n + 2 \in 1..(Len(s) + 1)
    BY <1>1, <1>2, <1>4
  <2>2. f = g \o r /\ g \in Text
    BY <2>1, PartsOfConcat, Slices DEF Text, s
  <2>3. /\ f \in Text /\ Len(f) = Len(s) - (n + 2) + 1
        /\ \A i \in 1..(Len(s) - (n + 2) + 1) : f[i] = s[n + 2 - 1 + i]
    <3> DEFINE k == n + 2
    <3>1. k \in 1..(Len(s) + 1)
      BY <2>1
    <3> HIDE DEF k
    <3>2. /\ From(s, k) \in Seq(Tokens) /\ Len(From(s, k)) = Len(s) - k + 1
          /\ \A i \in 1..(Len(s) - k + 1) : From(s, k)[i] = s[k - 1 + i]
      BY <1>1, <3>1, Slices
    <3> QED BY <3>2 DEF k, Text
  <2> HIDE DEF f, g
  <2>4. ASSUME NEW j \in 1..Len(f) PROVE j + (n + 1) \in 1..Len(s) /\ f[j] = s[j + (n + 1)]
    <3>1. /\ j \in 1..(Len(s) - (n + 2) + 1) /\ n + 2 - 1 + j = j + (n + 1)
          /\ j + (n + 1) \in 1..Len(s)
      BY <1>1, <1>2, <2>3
    <3> QED BY <2>3, <3>1
  <2>5. CASE t[n + 1] \in Characters
    <3>1. Erase(t, n) = g
      BY <1>2, <1>4, <2>5 DEF Erase, g
    <3>2. Shifts(f, s, n + 1)
      BY <2>4 DEF Shifts
    <3> QED BY <2>2, <3>1, <3>2 DEF s
  <2>6. CASE t[n + 1] \notin Characters
    <3> DEFINE one == <<"damaged">>
    <3>1. Erase(t, n) = one \o g
      BY <1>2, <1>4, <2>6 DEF Erase, g
    <3>2. one \in Text /\ Len(one) = 1 /\ one[1] = "damaged"
      <4>1. "damaged" \in Tokens
        BY Vocabulary
      <4> QED BY <4>1 DEF Text
    <3> HIDE DEF one
    <3>3. (one \o g) \o r = one \o f
      BY <2>2, <3>2, TextGroups, Zenon
    <3>4. /\ Len(one \o f) = Len(one) + Len(f)
          /\ \A i \in 1..(Len(one) + Len(f)) :
               (one \o f)[i] = IF i <= Len(one) THEN one[i] ELSE f[i - Len(one)]
      BY <2>3, <3>2, ConcatProperties DEF Text
    <3>5. ASSUME NEW j \in 1..Len(one \o f)
          PROVE  \/ j + n \in 1..Len(s) /\ (one \o f)[j] = s[j + n]
                 \/ (one \o f)[j] = "damaged"
      <4>0. Len(f) \in Nat /\ j \in 1..(Len(one) + Len(f))
        BY <2>3, <3>4 DEF Text
      <4>1. CASE j = 1
        <5>1. j <= Len(one)
          BY <3>2, <4>1
        <5> QED BY <3>2, <3>4, <4>0, <4>1, <5>1
      <4>2. CASE j # 1
        <5>1. ~(j <= Len(one)) /\ j - Len(one) = j - 1 /\ j - 1 \in 1..Len(f) /\ (j - 1) + (n + 1) = j + n
          BY <1>2, <3>2, <4>0, <4>2
        <5>2. (one \o f)[j] = f[j - 1]
          BY <3>4, <4>0, <5>1
        <5>3. j + n \in 1..Len(s) /\ f[j - 1] = s[j + n]
          BY <2>4, <5>1
        <5> QED BY <5>2, <5>3
      <4> QED BY <4>1, <4>2
    <3>6. Shifts(one \o f, s, n)
      BY <3>5 DEF Shifts
    <3> QED BY <3>1, <3>3, <3>6 DEF s
  <2> QED BY <2>5, <2>6
<1> QED BY <1>3, <1>4

\* parseBuffer keeps that.
LEMMA SplitIsFar ==
    ASSUME NEW r \in Text
    PROVE  \A t \in Text : Far(t \o r) =>
              /\ Far(Split(t).rest \o r)
              /\ \A i \in 1..Len(Split(t).lines) : FarLine(Split(t).lines[i])
<1> DEFINE Keeps(t) == /\ Far(Split(t).rest \o r)
                       /\ \A i \in 1..Len(Split(t).lines) : FarLine(Split(t).lines[i])
           Right == {n \in Nat : \A t \in Text : Len(t) <= n /\ Far(t \o r) => Keeps(t)}
<1>1. ASSUME NEW t \in Text, LineEnd(t) = 0, Far(t \o r) PROVE Keeps(t)
  <2>1. Split(t) = [lines |-> <<>>, rest |-> t, past |-> FALSE]
    BY <1>1, SplitEquation
  <2>2. 1..Len(<<>>) = {}
    OBVIOUS
  <2> QED BY <1>1, <2>1, <2>2
<1>2. ASSUME NEW t \in Text, LineEnd(t) # 0, Far(t \o r)
      PROVE  /\ Erase(t, LineEnd(t)) \in Text /\ Len(Erase(t, LineEnd(t))) < Len(t)
             /\ Far(Erase(t, LineEnd(t)) \o r)
             /\ Upto(t, LineEnd(t)) \in Text /\ FarLine(Upto(t, LineEnd(t)))
  <2> DEFINE n == LineEnd(t)
             s == t \o r
             u == Erase(t, n) \o r
  <2>1. t \in Seq(Tokens) /\ n = FindFirstOf(t, {CR, LF}) /\ n # 0
    BY <1>2 DEF Text, LineEnd
  <2> HIDE DEF n
  <2>2. n \in 1..Len(t) /\ t[n] \in {CR, LF}
    BY <2>1, FindsFirst
  <2>3. Erase(t, n) \in Text /\ Len(Erase(t, n)) < Len(t)
    BY <2>2, EraseShortens
  <2>4. PICK d \in {n, n + 1} : Shifts(u, s, d)
    BY <2>2, EraseShifts
  <2>5. u \in Text /\ s \in Text
    BY <2>3, TextJoins, Zenon
  <2>6. Len(s) = Len(t) + Len(r) /\ \A i \in 1..Len(t) : s[i] = t[i] /\ i \in 1..Len(s)
    <3>1. /\ Len(s) = Len(t) + Len(r)
          /\ \A i \in 1..(Len(t) + Len(r)) : s[i] = IF i <= Len(t) THEN t[i] ELSE r[i - Len(t)]
      BY ConcatProperties DEF Text
    <3>2. Len(t) \in Nat /\ Len(r) \in Nat
      BY DEF Text
    <3> HIDE DEF s
    <3> QED BY <3>1, <3>2
  <2>7. Far(s)
    BY <1>2
  <2> HIDE DEF s, u
  <2>8. Far(u)
    <3>1. n \in 1..Len(s) /\ s[n] \notin Inner
      BY <2>2, <2>6 DEF Inner
    <3> QED BY <2>4, <2>5, <2>7, <3>1, ShiftedIsFar
  <2>9. Upto(t, n) \in Text /\ FarLine(Upto(t, n))
    <3>1. n \in 1..(Len(t) + 1) /\ Len(t) \in Nat
      BY <2>2 DEF Text
    <3>2. /\ Upto(t, n) \in Text /\ Len(Upto(t, n)) = n - 1
          /\ \A i \in 1..(n - 1) : Upto(t, n)[i] = t[i]
      BY <3>1, Slices DEF Text
    <3>3. ASSUME NEW i \in 1..(n - 1), t[i] = "PRIVMSG" PROVE i > Inline
      <4>1. i \in 1..Len(s) /\ s[i] = "PRIVMSG"
        <5>1. i \in 1..Len(t)
          BY <2>2, <3>1
        <5> QED BY <2>6, <3>3, <5>1
      <4> QED BY <2>7, <4>1 DEF Far
    <3> QED BY <3>2, <3>3 DEF FarLine
  <2> QED BY <2>3, <2>8, <2>9 DEF n, u
<1>3. ASSUME NEW t \in Text, LineEnd(t) # 0, Erase(t, LineEnd(t)) \in Text,
             Upto(t, LineEnd(t)) \in Text, FarLine(Upto(t, LineEnd(t))),
             Keeps(Erase(t, LineEnd(t)))
      PROVE  Keeps(t)
  <2> DEFINE h == Upto(t, LineEnd(t))
             next == Split(Erase(t, LineEnd(t)))
             more == next.lines
             one == <<h>>
  <2>1. Split(t).lines = one \o more /\ Split(t).rest = next.rest
    BY <1>3, SplitParts
  <2>2. more \in Seq(Text)
    BY <1>3, SplitEquation DEF Splits
  <2>3. Far(next.rest \o r) /\ \A i \in 1..Len(more) : FarLine(more[i])
    BY <1>3
  <2>4. h \in Text /\ FarLine(h)
    BY <1>3
  <2> HIDE DEF h, next, Keeps
  <2>5. one \in Seq(Text) /\ Len(one) = 1 /\ one[1] = h
    BY <2>4
  <2> HIDE DEF one, more
  <2>6. /\ one \o more \in Seq(Text) /\ Len(one \o more) = Len(one) + Len(more)
        /\ \A i \in 1..(Len(one) + Len(more)) :
             (one \o more)[i] = IF i <= Len(one) THEN one[i] ELSE more[i - Len(one)]
    BY <2>2, <2>5, ConcatProperties
  <2>7. ASSUME NEW i \in 1..Len(one \o more) PROVE FarLine((one \o more)[i])
    <3>1. Len(more) \in Nat /\ i \in 1..(Len(one) + Len(more))
      BY <2>2, <2>6
    <3>2. CASE i = 1
      <4>1. i <= Len(one)
        BY <2>5, <3>2
      <4> QED BY <2>4, <2>5, <2>6, <3>1, <3>2, <4>1
    <3>3. CASE i # 1
      <4>1. ~(i <= Len(one)) /\ i - Len(one) \in 1..Len(more)
        BY <2>5, <3>1, <3>3
      <4> QED BY <2>3, <2>6, <3>1, <4>1
    <3> QED BY <3>2, <3>3
  <2> QED BY <2>1, <2>3, <2>7 DEF Keeps
<1> HIDE DEF Keeps
<1>4. 0 \in Right
  <2> SUFFICES ASSUME NEW t \in Text, Len(t) <= 0, Far(t \o r) PROVE Keeps(t)
    OBVIOUS
  <2>1. LineEnd(t) = 0
    <3>1. t \in Seq(Tokens) /\ LineEnd(t) = FindFirstOf(t, {CR, LF}) /\ Len(t) = 0
      BY DEF Text, LineEnd
    <3>2. FindFirstOf(t, {CR, LF}) \in 0..Len(t)
      BY <3>1, FindsFirst
    <3> QED BY <3>1, <3>2
  <2> QED BY <1>1, <2>1
<1>5. ASSUME NEW n \in Nat, n \in Right PROVE n + 1 \in Right
  <2> SUFFICES ASSUME NEW t \in Text, Len(t) <= n + 1, Far(t \o r) PROVE Keeps(t)
    <3>1. n + 1 \in Nat
      OBVIOUS
    <3> QED BY <3>1, Zenon
  <2>1. CASE LineEnd(t) = 0
    BY <1>1, <2>1
  <2>2. CASE LineEnd(t) # 0
    <3> DEFINE u == Erase(t, LineEnd(t))
    <3>1. /\ u \in Text /\ Len(u) < Len(t) /\ Far(u \o r)
          /\ Upto(t, LineEnd(t)) \in Text /\ FarLine(Upto(t, LineEnd(t)))
      BY <1>2, <2>2
    <3> HIDE DEF u
    <3>2. Len(u) <= n
      BY <3>1 DEF Text
    <3>3. Keeps(u)
      BY <1>5, <3>1, <3>2
    <3> QED BY <1>3, <2>2, <3>1, <3>3 DEF u
  <2> QED BY <2>1, <2>2
<1>6. \A n \in Nat : n \in Right
  <2> HIDE DEF Right
  <2> QED BY <1>4, <1>5, SetInduction
<1>7. \A t \in Text : Len(t) \in Nat /\ Len(t) <= Len(t)
  BY DEF Text
<1>8. \A t \in Text : Far(t \o r) => Keeps(t)
  BY <1>6, <1>7
<1> QED BY <1>8 DEF Keeps

\* The command of a line is a token of it.
LEMMA CommandIsToken ==
    ASSUME NEW l \in Text, Parse(l).command = <<"PRIVMSG">>
    PROVE  \E i \in 1..Len(l) : l[i] = "PRIVMSG"
<1> DEFINE prefixed == l # <<>> /\ l[1] = ":"
           text == IF prefixed THEN Behind(l) ELSE l
           n == FindFirstOf(l, {SP})
           end == FindFirstOf(text, {SP})
<1>1. (IF end = 0 THEN text ELSE Upto(text, end)) = <<"PRIVMSG">>
  <2>1. Parse(l).command = IF end = 0 THEN text ELSE Upto(text, end)
    BY DEF Parse
  <2> QED BY <2>1
<1>2. l \in Seq(Tokens) /\ Len(l) \in Nat
  BY DEF Text
<1>3. n \in 0..Len(l)
  BY <1>2, FindsFirst
<1>4. /\ Behind(l) \in Text /\ Len(Behind(l)) = Len(l) - n
      /\ \A i \in 1..(Len(l) - n) : Behind(l)[i] = l[n + i]
  <2> HIDE DEF n
  <2>1. n + 1 \in 1..(Len(l) + 1)
    BY <1>2, <1>3
  <2>2. /\ From(l, n + 1) \in Text /\ Len(From(l, n + 1)) = Len(l) - (n + 1) + 1
        /\ \A i \in 1..(Len(l) - (n + 1) + 1) : From(l, n + 1)[i] = l[(n + 1) - 1 + i]
    BY <1>2, <2>1, Slices DEF Text
  <2>3. Len(l) - (n + 1) + 1 = Len(l) - n /\ \A i \in Nat : (n + 1) - 1 + i = n + i
    BY <1>2, <1>3
  <2>4. Behind(l) = From(l, n + 1)
    BY DEF Behind, n
  <2> QED BY <2>2, <2>3, <2>4
<1>5. text \in Seq(Tokens) /\ \A i \in 1..Len(text) : \E k \in 1..Len(l) : text[i] = l[k]
  <2>1. CASE prefixed
    <3>1. text = Behind(l)
      BY <2>1
    <3> HIDE DEF text, n
    <3>2. ASSUME NEW i \in 1..Len(text) PROVE \E k \in 1..Len(l) : text[i] = l[k]
      <4>1. i \in 1..(Len(l) - n) /\ n + i \in 1..Len(l)
        BY <1>2, <1>3, <1>4, <3>1
      <4> QED BY <1>4, <3>1, <4>1
    <3> QED BY <1>4, <3>1, <3>2 DEF Text
  <2>2. CASE ~prefixed
    BY <1>2, <2>2
  <2> QED BY <2>1, <2>2
<1> HIDE DEF text
<1>6. text[1] = "PRIVMSG" /\ 1 \in 1..Len(text)
  <2>1. Len(<<"PRIVMSG">>) = 1 /\ <<"PRIVMSG">>[1] = "PRIVMSG"
    OBVIOUS
  <2>2. CASE end = 0
    <3>1. text = <<"PRIVMSG">>
      BY <1>1, <2>2
    <3> QED BY <3>1
  <2>3. CASE end # 0
    <3>1. Upto(text, end) = <<"PRIVMSG">>
      BY <1>1, <2>3
    <3>2. end \in 1..Len(text) /\ Len(text) \in Nat
      BY <1>5, <2>3, FindsFirst
    <3> HIDE DEF end
    <3>3. Len(Upto(text, end)) = end - 1 /\ \A i \in 1..(end - 1) : Upto(text, end)[i] = text[i]
      BY <1>5, <3>2, Slices
    <3>4. end - 1 = 1
      BY <2>1, <3>1, <3>3
    <3>5. 1 \in 1..(end - 1) /\ 1 \in 1..Len(text)
      BY <3>2, <3>4
    <3> QED BY <2>1, <3>1, <3>3, <3>5
  <2> QED BY <2>2, <2>3
<1> QED BY <1>5, <1>6

LEMMA SentIsFar ==
    ASSUME NEW s \in Text, Far(s), NEW m \in Messages
    PROVE  Far(s \o Sent(m))
<1> DEFINE l == Render(m)
           e == Sent(m)
           u == s \o e
<1>1. m \in Proper
  BY ProperMessages
<1>2. /\ e \in Text /\ Len(e) = Len(l) + 2 /\ l \in Text
      /\ \A i \in 1..Len(l) : e[i] = l[i] /\ l[i] \in Inner
      /\ e[Len(l) + 1] = CR /\ e[Len(l) + 2] = LF
  BY <1>1, SentType
<1>3. \A i \in 1..Len(l) : l[i] = "PRIVMSG" => i > Inline + 1
  <2>1. DOMAIN l = 1..Len(l)
    <3> HIDE DEF l
    <3> QED BY <1>2 DEF Text
  <2> QED BY <2>1, PrefixAssumption
<1> HIDE DEF l, e
<1>4. /\ Len(u) = Len(s) + Len(e)
      /\ \A i \in 1..(Len(s) + Len(e)) : u[i] = IF i <= Len(s) THEN s[i] ELSE e[i - Len(s)]
  BY <1>2, ConcatProperties DEF Text
<1> HIDE DEF u
<1>5. Len(s) \in Nat /\ Len(l) \in Nat /\ Inline \in Nat
  BY <1>2, PathAssumption DEF Text
<1>6. \A i \in 1..Len(s) : u[i] = s[i]
  BY <1>2, <1>4, <1>5
<1>7. \A i \in 1..(Len(l) + 2) : u[Len(s) + i] = e[i]
  <2> TAKE i \in 1..(Len(l) + 2)
  <2>1. /\ Len(s) + i \in 1..(Len(s) + Len(e)) /\ ~(Len(s) + i <= Len(s))
        /\ (Len(s) + i) - Len(s) = i
    BY <1>2, <1>5
  <2> QED BY <1>4, <2>1
<1> SUFFICES ASSUME NEW i \in 1..Len(u), u[i] = "PRIVMSG"
             PROVE  /\ i > Inline
                    /\ \A j \in 1..(i - 1) : i - Inline - 1 <= j => u[j] \in Inner
  BY DEF Far, u, e
<1>8. CASE i <= Len(s)
  <2>1. i \in 1..Len(s) /\ s[i] = "PRIVMSG"
    BY <1>5, <1>6, <1>8
  <2>2. i > Inline /\ \A j \in 1..(i - 1) : i - Inline - 1 <= j => s[j] \in Inner
    BY <2>1 DEF Far
  <2>3. \A j \in 1..(i - 1) : j \in 1..Len(s)
    BY <1>5, <2>1
  <2> QED BY <1>6, <2>2, <2>3
<1>9. CASE ~(i <= Len(s))
  <2> DEFINE k == i - Len(s)
  <2>1. k \in 1..(Len(l) + 2) /\ i = Len(s) + k /\ k \in Nat
    BY <1>2, <1>4, <1>5, <1>9
  <2> HIDE DEF k
  <2>2. e[k] = "PRIVMSG"
    BY <1>7, <2>1
  <2>3. k \in 1..Len(l) /\ k > Inline + 1
    <3>1. k # Len(l) + 1 /\ k # Len(l) + 2
      BY <1>2, <2>2 DEF CR, LF
    <3>2. k \in 1..Len(l)
      BY <1>5, <2>1, <3>1
    <3>3. l[k] = "PRIVMSG"
      BY <1>2, <2>2, <3>2
    <3> QED BY <1>3, <3>2, <3>3
  <2>4. ASSUME NEW j \in 1..(i - 1), i - Inline - 1 <= j PROVE u[j] \in Inner
    <3> DEFINE h == j - Len(s)
    <3>1. h \in 1..Len(l) /\ h \in 1..(Len(l) + 2) /\ j = Len(s) + h
      BY <1>5, <2>1, <2>3, <2>4
    <3> HIDE DEF h
    <3> QED BY <1>2, <1>7, <3>1
  <2>5. i > Inline
    BY <1>5, <2>1, <2>3
  <2> QED BY <2>4, <2>5
<1> QED BY <1>8, <1>9

LEMMA PrefixIsFar ==
    ASSUME NEW s \in Text, NEW r \in Text, Far(s \o r)
    PROVE  Far(s)
<1> DEFINE u == s \o r
<1>1. /\ Len(u) = Len(s) + Len(r)
      /\ \A i \in 1..(Len(s) + Len(r)) : u[i] = IF i <= Len(s) THEN s[i] ELSE r[i - Len(s)]
  BY ConcatProperties DEF Text
<1>2. Len(s) \in Nat /\ Len(r) \in Nat
  BY DEF Text
<1>3. Far(u)
  OBVIOUS
<1> HIDE DEF u
<1>4. \A i \in 1..Len(s) : i \in 1..Len(u) /\ u[i] = s[i]
  BY <1>1, <1>2
<1> SUFFICES ASSUME NEW i \in 1..Len(s), s[i] = "PRIVMSG"
             PROVE  /\ i > Inline
                    /\ \A j \in 1..(i - 1) : i - Inline - 1 <= j => s[j] \in Inner
  BY DEF Far
<1>5. i > Inline /\ \A j \in 1..(i - 1) : i - Inline - 1 <= j => u[j] \in Inner
  BY <1>3, <1>4 DEF Far
<1>6. \A j \in 1..(i - 1) : j \in 1..Len(s)
  BY <1>2
<1> QED BY <1>4, <1>5, <1>6

\* A message that may be moved: its views are its own, and those of a PRIVMSG stay so.
Movable(o) == o.own = TRUE /\ (o.fields.command = <<"PRIVMSG">> => o.size > Inline)
FarInv ==
    /\ Far(m_buffer \o network)
    /\ \A i \in 1..Len(m_msg_pre_buffer) : Movable(m_msg_pre_buffer[i])

LEMMA LineIsMovable ==
    ASSUME NEW l \in Text, FarLine(l)
    PROVE  Movable(New(l))
<1>1. New(l).fields = Parse(l) /\ New(l).size = Len(l) /\ New(l).own = TRUE
  BY NewObject
<1>2. ASSUME Parse(l).command = <<"PRIVMSG">> PROVE Len(l) > Inline
  <2>1. PICK i \in 1..Len(l) : l[i] = "PRIVMSG"
    BY <1>2, CommandIsToken
  <2>2. i > Inline
    BY <2>1 DEF FarLine
  <2> QED BY <2>2, PathAssumption DEF Text
<1> QED BY <1>1, <1>2 DEF Movable

LEMMA FarInit == Init => FarInv
<1>1. <<>> \o <<>> = <<>> /\ 1..Len(<<>>) = {}
  OBVIOUS
<1> QED BY <1>1 DEF Init, FarInv, Far

LEMMA FarNext == ReadOK /\ FarInv /\ [Next]_vars => FarInv'
<1> SUFFICES ASSUME ReadOK, FarInv, [Next]_vars PROVE FarInv'
  OBVIOUS
<1>0. m_buffer \in Text /\ network \in Text /\ m_msg_pre_buffer \in Seq(Objects)
  BY DEF ReadOK
<1>1. CASE UNCHANGED <<network, m_buffer, m_msg_pre_buffer>>
  BY <1>1 DEF FarInv
<1>2. CASE Next
  <2>1. ASSUME NEW m \in Messages, ServerSends(m) PROVE FarInv'
    <3>1. /\ network' = network \o Render(m) \o <<CR, LF>>
          /\ m_buffer' = m_buffer /\ m_msg_pre_buffer' = m_msg_pre_buffer
      BY <2>1 DEF ServerSends
    <3> DEFINE e == <<CR, LF>>
               l == Render(m)
    <3>2. e \in Text /\ l \in Text /\ l \o e = Sent(m)
      <4>1. CR \in Tokens /\ LF \in Tokens
        BY Vocabulary
      <4>2. e \in Text
        BY <4>1 DEF Text
      <4>3. l \in Text
        BY ProperMessages, SentType
      <4>4. l \o e = Sent(m)
        BY DEF Sent
      <4> QED BY <4>2, <4>3, <4>4
    <3> HIDE DEF e, l
    <3>3. network \o (l \o e) = (network \o l) \o e
      BY <1>0, <3>2, TextGroups, Zenon
    <3>4. m_buffer \o (network \o Sent(m)) = (m_buffer \o network) \o Sent(m)
      <4>1. Sent(m) \in Text
        BY ProperMessages, SentType
      <4> QED BY <1>0, <4>1, TextGroups, Zenon
    <3>5. m_buffer' \o network' = (m_buffer \o network) \o Sent(m)
      BY <3>1, <3>2, <3>3, <3>4 DEF e, l
    <3>6. Far((m_buffer \o network) \o Sent(m))
      <4>1. m_buffer \o network \in Text
        BY <1>0, TextJoins, Zenon
      <4> QED BY <4>1, SentIsFar DEF FarInv
    <3>7. Far(m_buffer' \o network')
      BY <3>5, <3>6
    <3> QED BY <3>1, <3>7 DEF FarInv
  <2>2. ASSUME NEW k \in 1..Len(network), Read(k) PROVE FarInv'
    <3> DEFINE t == m_buffer \o SubSeq(network, 1, k)
               split == Split(t)
               r == From(network, k + 1)
    <3>1. /\ t \in Text /\ split \in Splits /\ r \in Text /\ t \o r = m_buffer \o network
          /\ network' = r /\ m_buffer' = split.rest
          /\ Len(m_msg_pre_buffer') = Len(split.lines)
          /\ \A i \in 1..Len(split.lines) :
               split.lines[i] \in Text /\ m_msg_pre_buffer'[i] = New(split.lines[i])
      BY <2>2, ReadMakes
    <3> HIDE DEF t, r
    <3>2. Far(t \o r)
      BY <3>1 DEF FarInv
    <3>3. Far(split.rest \o r) /\ \A i \in 1..Len(split.lines) : FarLine(split.lines[i])
      BY <3>1, <3>2, SplitIsFar
    <3> HIDE DEF split
    <3>4. ASSUME NEW i \in 1..Len(m_msg_pre_buffer') PROVE Movable(m_msg_pre_buffer'[i])
      <4>1. i \in 1..Len(split.lines)
        BY <3>1
      <4> QED BY <3>1, <3>3, <4>1, LineIsMovable
    <3>5. Far(m_buffer' \o network')
      BY <3>1, <3>3
    <3> QED BY <3>4, <3>5 DEF FarInv, Movable
  <2>3. CASE Reconnect
    <3>1. Far(m_buffer)
      BY <1>0, PrefixIsFar DEF FarInv
    <3>2. network' = <<>> /\ m_buffer' = m_buffer /\ m_msg_pre_buffer' = m_msg_pre_buffer
      BY <2>3 DEF Reconnect
    <3>3. m_buffer \o <<>> = m_buffer
      BY <1>0, ConcatEmptySeq DEF Text
    <3> QED BY <3>1, <3>2, <3>3 DEF FarInv
  <2>4. CASE Consume
    <3>1. /\ m_msg_pre_buffer # <<>> /\ m_msg_pre_buffer' = Tail(m_msg_pre_buffer)
          /\ UNCHANGED <<network, m_buffer>>
      BY <2>4 DEF Consume, PopFront
    <3>2. ASSUME NEW i \in 1..Len(Tail(m_msg_pre_buffer)) PROVE Movable(Tail(m_msg_pre_buffer)[i])
      <4>1. i + 1 \in 1..Len(m_msg_pre_buffer) /\ Tail(m_msg_pre_buffer)[i] = m_msg_pre_buffer[i + 1]
        BY <1>0, <3>1
      <4> QED BY <4>1 DEF FarInv
    <3> QED BY <3>1, <3>2 DEF FarInv, Movable
  <2>5. ASSUME NEW j \in jobs, Answer(j) PROVE FarInv'
    BY <1>1, <2>5 DEF Answer, input
  <2> QED BY <1>2, <2>1, <2>2, <2>3, <2>4, <2>5 DEF Next
<1>3. CASE UNCHANGED vars
  BY <1>1, <1>3 DEF vars, input
<1> QED BY <1>2, <1>3

-----------------------------------------------------------------------------
(* The buffers of the channels *)

\* What a buffer holds of all the messages of its channel: the last ones, up to its capacity.
Remembers(queue, all) ==
    /\ Len(queue) <= Capacity /\ Len(queue) <= Len(all)
    /\ Len(queue) < Capacity => Len(queue) = Len(all)
    /\ \A i \in 1..Len(queue) :
         queue[i].own = TRUE /\ queue[i].fields = all[Len(all) - Len(queue) + i]

LEMMA PushRemembers ==
    ASSUME NEW queue \in Seq(Objects), NEW all \in Seq(Readable), Remembers(queue, all),
           NEW o \in Objects, o.own = TRUE
    PROVE  /\ Push(queue, o) \in Seq(Objects) /\ Append(all, o.fields) \in Seq(Readable)
           /\ Remembers(Push(queue, o), Append(all, o.fields))
<1> DEFINE longer == Append(queue, o)
           f == o.fields
           more == Append(all, f)
           n == Len(queue)
           a == Len(all)
<1>1. n \in Nat /\ a \in Nat /\ Capacity \in Nat \ {0} /\ f \in Readable
  BY PathAssumption DEF Objects
<1>2. n <= Capacity /\ n <= a /\ (n < Capacity => n = a)
  BY DEF Remembers
<1>3. \A i \in 1..n : queue[i].own = TRUE /\ queue[i].fields = all[a - n + i]
  BY DEF Remembers
<1> HIDE DEF f
<1>4. /\ longer \in Seq(Objects) /\ Len(longer) = n + 1 /\ longer[n + 1] = o
      /\ \A i \in 1..n : longer[i] = queue[i]
  OBVIOUS
<1>5. /\ more \in Seq(Readable) /\ Len(more) = a + 1 /\ more[a + 1] = f
      /\ \A i \in 1..a : more[i] = all[i]
  BY <1>1
<1> HIDE DEF longer, more, n, a
<1>6. \A i \in 1..(n + 1) : longer[i].own = TRUE /\ longer[i].fields = more[a - n + i]
  <2> TAKE i \in 1..(n + 1)
  <2>1. CASE i = n + 1
    <3>1. a - n + i = a + 1
      BY <1>1, <2>1
    <3>2. longer[i] = o
      BY <1>4, <2>1
    <3> QED BY <1>5, <3>1, <3>2 DEF f
  <2>2. CASE i # n + 1
    <3>1. i \in 1..n /\ a - n + i \in 1..a
      BY <1>1, <1>2, <2>2
    <3> QED BY <1>3, <1>4, <1>5, <3>1
  <2> QED BY <2>1, <2>2
<1>7. CASE Len(longer) > Capacity
  <2> DEFINE t == Tail(longer)
  <2>1. Push(queue, o) = t
    BY <1>7 DEF Push, longer
  <2>2. t \in Seq(Objects) /\ Len(t) = n /\ \A i \in 1..n : t[i] = longer[i + 1]
    BY <1>1, <1>4
  <2> HIDE DEF t
  <2>3. n = Capacity
    BY <1>1, <1>2, <1>4, <1>7
  <2>4. ASSUME NEW i \in 1..n PROVE t[i].own = TRUE /\ t[i].fields = more[(a + 1) - n + i]
    <3>1. i + 1 \in 1..(n + 1) /\ a - n + (i + 1) = (a + 1) - n + i
      BY <1>1
    <3>2. t[i] = longer[i + 1]
      BY <2>2
    <3>3. longer[i + 1].own = TRUE /\ longer[i + 1].fields = more[a - n + (i + 1)]
      BY <1>6, <3>1
    <3> QED BY <3>1, <3>2, <3>3
  <2>5. Len(t) <= Capacity /\ Len(t) <= Len(more) /\ ~(Len(t) < Capacity)
    BY <1>1, <1>2, <1>5, <2>2, <2>3
  <2>6. Remembers(t, more)
    BY <1>5, <2>2, <2>4, <2>5 DEF Remembers
  <2> QED BY <1>5, <2>1, <2>2, <2>6 DEF more, f
<1>8. CASE ~(Len(longer) > Capacity)
  <2>1. Push(queue, o) = longer
    BY <1>8 DEF Push, longer
  <2>2. n < Capacity /\ n = a
    BY <1>1, <1>2, <1>4, <1>8
  <2>3. /\ Len(longer) <= Capacity /\ Len(longer) <= Len(more) /\ Len(longer) = Len(more)
    BY <1>1, <1>4, <1>5, <1>8, <2>2
  <2>4. ASSUME NEW i \in 1..Len(longer)
        PROVE  longer[i].own = TRUE /\ longer[i].fields = more[Len(more) - Len(longer) + i]
    <3>1. i \in 1..(n + 1) /\ Len(more) - Len(longer) + i = a - n + i
      BY <1>1, <1>4, <1>5
    <3> QED BY <1>6, <3>1
  <2>5. Remembers(longer, more)
    BY <2>3, <2>4 DEF Remembers
  <2> QED BY <1>4, <1>5, <2>1, <2>5 DEF more, f
<1> QED BY <1>7, <1>8

\* The lines of a clip.
LEMMA ClipsRecent ==
    ASSUME NEW queue \in Seq(Objects), NEW all \in Seq(Readable), Remembers(queue, all), NEW n \in Nat
    PROVE  LET lines == LinesFromNow(queue, n)
           IN  [i \in DOMAIN lines |-> lines[i].fields] = Recent(all, n)
<1> DEFINE lines == LinesFromNow(queue, n)
           texts == [i \in DOMAIN lines |-> lines[i].fields]
           q == Len(queue)
           a == Len(all)
           k == IF n < q THEN n ELSE q
           back == [i \in 1..k |-> queue[q + 1 - i]]
<1>1. q \in Nat /\ a \in Nat /\ k \in Nat /\ Capacity \in Nat /\ k <= q /\ k <= n
  BY PathAssumption
<1>2. q <= Capacity /\ q <= a /\ (q < Capacity => q = a)
  BY DEF Remembers
<1>3. \A i \in 1..q : queue[i] \in Objects /\ queue[i].fields = all[a - q + i]
  BY DEF Remembers
<1>4. \A i \in 1..k : q + 1 - i \in 1..q
  BY <1>1
<1>5. back \in Seq(Objects) /\ Len(back) = k /\ \A i \in 1..k : back[i] = queue[q + 1 - i]
  <2> HIDE DEF q, k
  <2> QED BY <1>1, <1>3, <1>4
<1>6. lines = Reverse(back)
  BY DEF LinesFromNow
<1>7. Min({n, Capacity, a}) = k
  <2> DEFINE I == {n, Capacity, a}
  <2>1. I \subseteq Nat /\ I # {}
    BY <1>1
  <2>2. Min(I) \in I /\ \A y \in I : Min(I) <= y
    BY <2>1, MinIsLeast
  <2>3. n \in I /\ Capacity \in I /\ a \in I
    OBVIOUS
  <2>4. Min(I) \in {n, Capacity, a} /\ Min(I) <= n /\ Min(I) <= Capacity /\ Min(I) <= a
    BY <2>2, <2>3
  <2> DEFINE least == Min(I)
  <2> HIDE DEF I
  <2>5. least \in {n, Capacity, a} /\ least <= n /\ least <= Capacity /\ least <= a
    BY <2>4
  <2> HIDE DEF least
  <2>6. least = k
    BY <1>1, <1>2, <2>5
  <2> QED BY <2>6 DEF least, I
<1>8. Recent(all, n) = SubSeq(all, a - k + 1, a)
  BY <1>7 DEF Recent
<1> HIDE DEF lines, back, q, a
<1>9. /\ DOMAIN lines = 1..k /\ \A i \in 1..k : lines[i] = back[(k - i) + 1]
  BY <1>5, <1>6 DEF Reverse
<1> HIDE DEF k
<1>10. ASSUME NEW i \in 1..k
       PROVE  lines[i].fields = all[(a - k) + i] /\ all[(a - k) + i] \in Readable
  <2>1. (k - i) + 1 \in 1..k /\ q + 1 - ((k - i) + 1) = (q - k) + i /\ (q - k) + i \in 1..q
    BY <1>1
  <2>2. lines[i] = queue[(q - k) + i]
    <3>1. back[(k - i) + 1] = queue[q + 1 - ((k - i) + 1)]
      BY <1>5, <2>1
    <3> QED BY <1>9, <2>1, <3>1
  <2>3. a - q + ((q - k) + i) = (a - k) + i /\ (a - k) + i \in 1..a
    BY <1>1, <1>2, <2>1
  <2>4. queue[(q - k) + i].fields = all[a - q + ((q - k) + i)]
    BY <1>3, <2>1
  <2>5. all[(a - k) + i] \in Readable
    BY <2>3 DEF a
  <2> QED BY <2>2, <2>3, <2>4, <2>5
<1> DEFINE end == SubSeq(all, a - k + 1, a)
<1>11. /\ end \in Seq(Readable) /\ Len(end) = k
       /\ \A i \in 1..k : end[i] = all[(a - k) + i]
  <2> DEFINE b == a - k + 1
  <2>1. b \in Int /\ a \in Int /\ (b <= a => a - b + 1 = k) /\ (~(b <= a) => k = 0) /\ a - b + 1 = k
    BY <1>1, <1>2
  <2>2. \A i \in b..a : all[i] \in Readable
    <3>1. \A i \in b..a : i \in 1..a
      BY <1>1, <1>2
    <3>2. \A i \in 1..a : all[i] \in Readable
      BY DEF a
    <3> HIDE DEF b
    <3> QED BY <3>1, <3>2
  <2>3. \A i \in 1..k : b + i - 1 = (a - k) + i
    BY <1>1
  <2> HIDE DEF b
  <2>4. /\ SubSeq(all, b, a) \in Seq(Readable)
        /\ Len(SubSeq(all, b, a)) = IF b <= a THEN a - b + 1 ELSE 0
        /\ \A i \in 1..(a - b + 1) : SubSeq(all, b, a)[i] = all[b + i - 1]
    BY <2>1, <2>2, SubSeqProperties
  <2>5. Len(SubSeq(all, b, a)) = k /\ \A i \in 1..k : SubSeq(all, b, a)[i] = all[(a - k) + i]
    BY <2>1, <2>3, <2>4
  <2> QED BY <2>4, <2>5 DEF b
<1>12. texts \in Seq(Readable) /\ Len(texts) = k /\ \A i \in 1..k : texts[i] = lines[i].fields
  <2>1. \A i \in 1..k : lines[i].fields \in Readable
    BY <1>10
  <2> QED BY <1>1, <1>9, <2>1
<1> HIDE DEF end, texts
<1>13. texts = end
  BY <1>10, <1>11, <1>12, SeqEqual
<1> QED BY <1>8, <1>13 DEF texts, end, lines

ChannelsOK ==
    /\ DOMAIN m_channels = DOMAIN seen
    /\ m_channels \in [DOMAIN seen -> Seq(Objects)] /\ seen \in [DOMAIN seen -> Seq(Readable)]
    /\ \A c \in DOMAIN seen : Remembers(m_channels[c], seen[c])

\* What is known of the message at the front.
LEMMA FrontMessage ==
    ASSUME StreamInv, FarInv, m_msg_pre_buffer # <<>>
    PROVE  /\ irc_msg \in Objects /\ Field = irc_msg.fields
           /\ Movable(irc_msg)
           /\ Asked # <<>> => irc_msg.fields = Asked[1]
<1>1. m_msg_pre_buffer \in Seq(Objects) /\ due \in Seq(Messages)
  BY DEF StreamInv, ReadOK
<1>2. 1 \in 1..Len(m_msg_pre_buffer)
  BY <1>1
<1>3. irc_msg \in Objects
  BY <1>1, <1>2 DEF irc_msg
<1>4. Movable(irc_msg)
  BY <1>2 DEF FarInv, irc_msg
<1>5. ASSUME Asked # <<>> PROVE irc_msg.fields = Asked[1]
  <2>1. ~torn /\ ~glued /\ Asked = <<Fields(due[1])>>
    BY <1>5 DEF Asked
  <2>2. Streams(m_buffer, network, m_msg_pre_buffer, due, glued)
    BY <2>1 DEF StreamInv, StreamOK
  <2>3. m_msg_pre_buffer[1].fields = Fields(due[1])
    BY <1>2, <2>1, <2>2 DEF Streams
  <2> QED BY <2>1, <2>3 DEF irc_msg
<1> QED BY <1>3, <1>4, <1>5 DEF Field

LEMMA MoveKeeps ==
    ASSUME NEW o \in Objects
    PROVE  /\ Move(o) \in Objects /\ Move(o).fields = o.fields /\ Move(o).size = o.size
           /\ o.own = TRUE /\ o.size > Inline => Move(o).own = TRUE
BY PathAssumption DEF Move, Objects

LEMMA ChannelsNext == StreamInv /\ FarInv /\ ChannelsOK /\ [Next]_vars => ChannelsOK'
<1> SUFFICES ASSUME StreamInv, FarInv, ChannelsOK, [Next]_vars PROVE ChannelsOK'
  OBVIOUS
<1>1. CASE UNCHANGED channels
  BY <1>1 DEF channels, ChannelsOK
<1>2. CASE Next
  <2>1. ASSUME NEW m \in Messages, ServerSends(m) PROVE ChannelsOK'
    BY <1>1, <2>1 DEF ServerSends
  <2>2. ASSUME NEW k \in 1..Len(network), Read(k) PROVE ChannelsOK'
    BY <1>1, <2>2 DEF Read
  <2>3. CASE Reconnect
    BY <1>1, <2>3 DEF Reconnect
  <2>4. CASE Consume
    <3> DEFINE c == Channel
               o == irc_msg
    <3>0. m_msg_pre_buffer # <<>>
      BY <2>4 DEF Consume
    <3>1. o \in Objects /\ Field = o.fields /\ Movable(o)
      BY <3>0, FrontMessage
    <3>2. CASE ConsumePrivmsg
      <4>1. o.own = TRUE /\ o.size > Inline
        BY <3>1, <3>2 DEF ConsumePrivmsg, Movable
      <4>2. PushToChannel
        BY <3>2 DEF ConsumePrivmsg
      <4>3. CASE c \in DOMAIN m_channels
        <5> DEFINE p == Move(o)
                   queue == Push(m_channels[c], p)
                   all == Append(seen[c], p.fields)
        <5>1. p \in Objects /\ p.fields = o.fields /\ p.own = TRUE
          BY <3>1, <4>1, MoveKeeps
        <5>2. /\ m_channels' = [m_channels EXCEPT ![c] = Push(@, Move(o))]
              /\ seen' = [seen EXCEPT ![c] = Append(@, Field)]
          BY <4>2, <4>3 DEF PushToChannel
        <5> HIDE DEF c, o, p
        <5>3. /\ c \in DOMAIN seen /\ m_channels[c] \in Seq(Objects) /\ seen[c] \in Seq(Readable)
              /\ Remembers(m_channels[c], seen[c])
          BY <4>3 DEF ChannelsOK
        <5>4. queue \in Seq(Objects) /\ all \in Seq(Readable) /\ Remembers(queue, all)
          BY <5>1, <5>3, PushRemembers
        <5>5. m_channels' = [m_channels EXCEPT ![c] = queue] /\ seen' = [seen EXCEPT ![c] = all]
          BY <3>1, <5>1, <5>2 DEF p
        <5> HIDE DEF queue, all
        <5> QED BY <5>3, <5>4, <5>5 DEF ChannelsOK
      <4>4. CASE c \notin DOMAIN m_channels
        BY <1>1, <4>2, <4>4 DEF PushToChannel
      <4> QED BY <4>3, <4>4
    <3>3. CASE ConsumeBadPrivmsg
      BY <1>1, <3>3 DEF ConsumeBadPrivmsg, OutOfBounds
    <3>4. CASE ConsumeBadOwnLine
      BY <1>1, <3>4 DEF ConsumeBadOwnLine, OutOfBounds
    <3>5. CASE ConsumeOther
      <4>1. \/ m_channels' = Start(m_channels, c) /\ seen' = Start(seen, c)
            \/ m_channels' = Drop(m_channels, c) /\ seen' = Drop(seen, c)
            \/ UNCHANGED channels
        BY <3>5, Zenon DEF ConsumeOther
      <4> HIDE DEF c
      <4>2. CASE m_channels' = Start(m_channels, c) /\ seen' = Start(seen, c)
        <5>1. Remembers(<<>>, <<>>)
          BY PathAssumption DEF Remembers
        <5>2. <<>> \in Seq(Objects) /\ <<>> \in Seq(Readable)
          OBVIOUS
        <5> QED BY <4>2, <5>1, <5>2 DEF ChannelsOK, Start
      <4>3. CASE m_channels' = Drop(m_channels, c) /\ seen' = Drop(seen, c)
        BY <4>3 DEF ChannelsOK, Drop
      <4> QED BY <1>1, <4>1, <4>2, <4>3
    <3> QED BY <2>4, <3>2, <3>3, <3>4, <3>5 DEF Consume
  <2>5. ASSUME NEW j \in jobs, Answer(j) PROVE ChannelsOK'
    BY <1>1, <2>5 DEF Answer
  <2> QED BY <1>2, <2>1, <2>2, <2>3, <2>4, <2>5 DEF Next
<1>3. CASE UNCHANGED vars
  BY <1>1, <1>3 DEF vars
<1> QED BY <1>2, <1>3

-----------------------------------------------------------------------------
(* What is answered *)

\* A request that is still to be answered keeps the message that asked for it.
JobOK(j) ==
    /\ j.irc_msg \in Objects /\ j.irc_msg.own = TRUE /\ j.irc_msg.size > Inline
    /\ j.asked # <<>> => j.irc_msg.fields = j.asked[1]
    /\ j.kind = "clip" => j.lines = j.recent
OutputOK == (\A j \in jobs : JobOK(j)) /\ AnswerToAsker /\ ClipIsRecent
PathInv == StreamInv /\ FarInv /\ ChannelsOK /\ OutputOK

LEMMA ReplyIsRight ==
    ASSUME NEW kind, NEW o, NEW asked, NEW lines, NEW recent,
           asked # <<>> => o.fields = asked[1], kind = "clip" => lines = recent,
           answer' = Reply(kind, o, asked, lines, recent)
    PROVE  AnswerToAsker' /\ ClipIsRecent'
<1> DEFINE a == Reply(kind, o, asked, lines, recent)
<1>1. /\ a.to = o.fields.params[1] /\ a.nick = o.fields.nick /\ a.asked = asked
      /\ a.kind = kind /\ a.lines = lines /\ a.recent = recent
  BY DEF Reply
<1> HIDE DEF a
<1>2. a.asked # <<>> => a.to = a.asked[1].params[1] /\ a.nick = a.asked[1].nick
  BY <1>1
<1>3. a.kind = "clip" => a.lines = a.recent
  BY <1>1
<1>4. answer' = a
  BY DEF a
<1> QED BY <1>2, <1>3, <1>4 DEF AnswerToAsker, ClipIsRecent

LEMMA OutputNext == StreamInv /\ FarInv /\ ChannelsOK /\ OutputOK /\ [Next]_vars => OutputOK'
<1> SUFFICES ASSUME StreamInv, FarInv, ChannelsOK, OutputOK, [Next]_vars PROVE OutputOK'
  OBVIOUS
<1>1. CASE UNCHANGED output
  BY <1>1 DEF output, OutputOK, AnswerToAsker, ClipIsRecent
<1>2. CASE Next
  <2>1. ASSUME NEW m \in Messages, ServerSends(m) PROVE OutputOK'
    BY <1>1, <2>1 DEF ServerSends
  <2>2. ASSUME NEW k \in 1..Len(network), Read(k) PROVE OutputOK'
    BY <1>1, <2>2 DEF Read
  <2>3. CASE Reconnect
    BY <1>1, <2>3 DEF Reconnect
  <2>4. CASE Consume
    <3>1. CASE ConsumePrivmsg
      <4> DEFINE o == irc_msg
      <4>0. m_msg_pre_buffer # <<>>
        BY <2>4 DEF Consume
      <4>1. /\ o \in Objects /\ Field = o.fields /\ o.own = TRUE /\ o.size > Inline
            /\ Asked # <<>> => o.fields = Asked[1]
        BY <3>1, <4>0, FrontMessage DEF ConsumePrivmsg, Movable
      <4>2. ASSUME NEW kind, NEW lines, NEW recent, kind = "clip" => lines = recent
            PROVE  JobOK(Job(kind, lines, recent))
        <5> DEFINE j == Job(kind, lines, recent)
        <5>1. /\ j.kind = kind /\ j.irc_msg = o /\ j.asked = Asked
              /\ j.lines = lines /\ j.recent = recent
          BY DEF Job, Copy
        <5> HIDE DEF j, o
        <5>2. JobOK(j)
          BY <4>1, <4>2, <5>1 DEF JobOK
        <5> QED BY <5>2 DEF j
      <4>3. ASSUME NEW kind, NEW lines, NEW recent, kind = "clip" => lines = recent,
                   jobs' = jobs \union {Job(kind, lines, recent)} \/ jobs' = jobs,
                   UNCHANGED answer
            PROVE  OutputOK'
        <5>1. JobOK(Job(kind, lines, recent))
          BY <4>2, <4>3
        <5>2. \A j \in jobs : JobOK(j)
          BY DEF OutputOK
        <5>3. \A j \in jobs' : JobOK(j)
          BY <4>3, <5>1, <5>2
        <5>4. AnswerToAsker' /\ ClipIsRecent'
          BY <4>3 DEF OutputOK, AnswerToAsker, ClipIsRecent
        <5> QED BY <5>3, <5>4 DEF OutputOK, JobOK
      <4>4. ASSUME NEW kind, kind # "clip", answer' = Reply(kind, irc_msg, Asked, <<>>, <<>>),
                   UNCHANGED jobs
            PROVE  OutputOK'
        <5>1. AnswerToAsker' /\ ClipIsRecent'
          BY <4>1, <4>4, ReplyIsRight
        <5>2. \A j \in jobs' : JobOK(j)
          BY <4>4 DEF OutputOK
        <5> QED BY <5>1, <5>2 DEF OutputOK, JobOK
      <4>5. \/ pingCommandFunc
            \/ findCommandFunc
            \/ Channel \in DOMAIN m_channels /\ clipCommandFunc
            \/ UNCHANGED output
        <5>1. Commands
          BY <3>1 DEF ConsumePrivmsg
        <5> QED BY <5>1, Zenon DEF Commands
      <4>6. CASE pingCommandFunc
        <5>1. "ping" # "clip"
          OBVIOUS
        <5> QED BY <4>4, <4>6, <5>1 DEF pingCommandFunc
      <4>7. CASE findCommandFunc
        <5>1. "find" # "clip"
          OBVIOUS
        <5> QED BY <4>3, <4>7, <5>1 DEF findCommandFunc
      <4>8. CASE Channel \in DOMAIN m_channels /\ clipCommandFunc
        <5> DEFINE n == LineCount(Field.body)
                   c == Channel
                   lines == LinesFromNow(m_channels[c], n)
                   texts == [i \in DOMAIN lines |-> lines[i].fields]
                   recent == Recent(seen[c], n)
        <5>1. n \in Nat
          BY DEF LineCount
        <5>2. \/ /\ jobs' = jobs \union {Job("clip", texts, recent)} \/ jobs' = jobs
                 /\ UNCHANGED answer
              \/ answer' = Reply("invalid", irc_msg, Asked, <<>>, <<>>) /\ UNCHANGED jobs
          BY <4>8 DEF clipCommandFunc
        <5> HIDE DEF n, c
        <5>3. /\ m_channels[c] \in Seq(Objects) /\ seen[c] \in Seq(Readable)
              /\ Remembers(m_channels[c], seen[c])
          BY <4>8 DEF ChannelsOK, c
        <5>4. texts = recent
          BY <5>1, <5>3, ClipsRecent
        <5> HIDE DEF texts, recent
        <5>5. CASE /\ jobs' = jobs \union {Job("clip", texts, recent)} \/ jobs' = jobs
                   /\ UNCHANGED answer
          BY <4>3, <5>4, <5>5
        <5>6. CASE answer' = Reply("invalid", irc_msg, Asked, <<>>, <<>>) /\ UNCHANGED jobs
          <6>1. "invalid" # "clip"
            OBVIOUS
          <6> QED BY <4>4, <5>6, <6>1
        <5> QED BY <5>2, <5>5, <5>6
      <4> QED BY <1>1, <4>5, <4>6, <4>7, <4>8
    <3>2. CASE ConsumeBadPrivmsg \/ ConsumeBadOwnLine
      BY <1>1, <3>2 DEF ConsumeBadPrivmsg, ConsumeBadOwnLine, OutOfBounds
    <3>3. CASE ConsumeOther
      BY <1>1, <3>3 DEF ConsumeOther
    <3> QED BY <2>4, <3>1, <3>2, <3>3 DEF Consume
  <2>5. ASSUME NEW j \in jobs, Answer(j) PROVE OutputOK'
    <3> DEFINE o == Copy(Move(j.irc_msg))
    <3>1. JobOK(j)
      BY DEF OutputOK
    <3>2. o.fields = j.irc_msg.fields
      BY <3>1, MoveKeeps DEF Copy, JobOK
    <3>3. answer' = Reply(j.kind, o, j.asked, j.lines, j.recent) /\ jobs' = jobs \ {j}
      BY <2>5 DEF Answer
    <3> HIDE DEF o
    <3>4. /\ j.asked # <<>> => o.fields = j.asked[1]
          /\ j.kind = "clip" => j.lines = j.recent
      BY <3>1, <3>2 DEF JobOK
    <3>5. AnswerToAsker' /\ ClipIsRecent'
      BY <3>3, <3>4, ReplyIsRight
    <3>6. \A k \in jobs' : JobOK(k)
      BY <3>3 DEF OutputOK
    <3> QED BY <3>5, <3>6 DEF OutputOK, JobOK
  <2> QED BY <1>2, <2>1, <2>2, <2>3, <2>4, <2>5 DEF Next
<1>3. CASE UNCHANGED vars
  BY <1>1, <1>3 DEF vars
<1> QED BY <1>2, <1>3

\* The invariants of the stream, of the texts, of the buffers of the channels and of what has
\* still to be answered hold together.
THEOREM PathHolds == Spec => []PathInv
<1>1. Init => PathInv
  <2> SUFFICES ASSUME Init PROVE PathInv
    OBVIOUS
  <2>1. StreamInv /\ FarInv
    BY StreamInit, FarInit
  <2>2. ChannelsOK
    <3>1. m_channels = [c \in {} |-> <<>>] /\ seen = [c \in {} |-> <<>>]
      BY DEF Init
    <3> QED BY <3>1 DEF ChannelsOK
  <2>3. OutputOK
    <3>1. jobs = {} /\ answer = NoAnswer
      BY DEF Init
    <3>2. NoAnswer.asked = <<>> /\ NoAnswer.kind # "clip"
      BY DEF NoAnswer
    <3> QED BY <3>1, <3>2 DEF OutputOK, AnswerToAsker, ClipIsRecent
  <2> QED BY <2>1, <2>2, <2>3 DEF PathInv
<1>2. PathInv /\ [Next]_vars => PathInv'
  <2> SUFFICES ASSUME PathInv, [Next]_vars PROVE PathInv'
    OBVIOUS
  <2>1. StreamInv /\ ReadOK /\ FarInv /\ ChannelsOK /\ OutputOK
    BY DEF PathInv, StreamInv
  <2>2. StreamInv' /\ FarInv'
    BY <2>1, StreamNext, FarNext
  <2>3. ChannelsOK' /\ OutputOK'
    BY <2>1, ChannelsNext, OutputNext
  <2> QED BY <2>2, <2>3 DEF PathInv
<1> QED BY <1>1, <1>2, PTL DEF Spec

\* Every variable has its type, no buffer of a channel is longer than its capacity, and a channel
\* has a buffer exactly while its messages are followed.
THEOREM PathTyped == Spec => []TypeOK
<1>1. PathInv => TypeOK
  <2> SUFFICES ASSUME PathInv PROVE TypeOK
    OBVIOUS
  <2>1. ReadOK /\ ChannelsOK /\ OutputOK
    BY DEF PathInv, StreamInv
  <2>2. \A o \in Objects : IsObject(o)
    BY DEF Objects, IsObject
  <2>3. /\ running \in BOOLEAN /\ m_suspend_read \in BOOLEAN
        /\ torn \in BOOLEAN /\ glued \in BOOLEAN
        /\ sent \in 0..MaxMessages /\ cuts \in 0..MaxCuts /\ Len(due) <= MaxUnread
    BY <2>1 DEF ReadOK
  <2>4. \A i \in DOMAIN m_msg_pre_buffer : IsObject(m_msg_pre_buffer[i])
    <3>1. m_msg_pre_buffer \in Seq(Objects)
      BY <2>1 DEF ReadOK
    <3> QED BY <2>2, <3>1
  <2>5. ASSUME NEW c \in DOMAIN m_channels
        PROVE  /\ Len(m_channels[c]) <= Capacity
               /\ \A i \in DOMAIN m_channels[c] : IsObject(m_channels[c][i])
    <3>1. m_channels[c] \in Seq(Objects) /\ Remembers(m_channels[c], seen[c])
      BY <2>1 DEF ChannelsOK
    <3>2. Len(m_channels[c]) <= Capacity
      BY <3>1 DEF Remembers
    <3> QED BY <2>2, <3>1, <3>2
  <2>6. DOMAIN m_channels = DOMAIN seen
    BY <2>1 DEF ChannelsOK
  <2>7. \A j \in jobs : IsObject(j.irc_msg)
    BY <2>1, <2>2 DEF OutputOK, JobOK
  <2> QED BY <2>3, <2>4, <2>5, <2>6, <2>7 DEF TypeOK
<1> QED BY <1>1, PathHolds, PTL

\* A message that is kept never looks into the string of another object: those that are moved
\* (consumeMsgBuffer into the buffer of the channel, the uploader's handler into its copy) are
\* longer than what a string holds inside the object.
THEOREM MessagesKeepTheirText == Spec => []ViewsOwn
<1>1. PathInv => ViewsOwn
  <2> SUFFICES ASSUME PathInv PROVE ViewsOwn
    OBVIOUS
  <2>1. ChannelsOK /\ OutputOK
    BY DEF PathInv
  <2>2. ASSUME NEW c \in DOMAIN m_channels, NEW i \in DOMAIN m_channels[c]
        PROVE  m_channels[c][i].own
    <3>1. m_channels[c] \in Seq(Objects) /\ Remembers(m_channels[c], seen[c])
      BY <2>1 DEF ChannelsOK
    <3>2. i \in 1..Len(m_channels[c])
      BY <3>1
    <3> QED BY <3>1, <3>2 DEF Remembers
  <2>3. ASSUME NEW j \in jobs PROVE j.irc_msg.own /\ Move(j.irc_msg).own
    <3>1. JobOK(j)
      BY <2>1 DEF OutputOK
    <3> QED BY <3>1, MoveKeeps DEF JobOK
  <2> QED BY <2>2, <2>3 DEF ViewsOwn
<1> QED BY <1>1, PathHolds, PTL

\* An answer goes to the channel, and names the user, of the message that asked for it, however
\* late a download or an upload ends.
THEOREM AnswersGoToAsker == Spec => []AnswerToAsker
<1>1. PathInv => AnswerToAsker
  BY DEF PathInv, OutputOK
<1> QED BY <1>1, PathHolds, PTL

\* A clip holds the last messages of its channel, in order, as many as asked for, as there are or
\* as the buffer has room for.  (IRCMessageBuffer::push and accessLinesFromNow.)
THEOREM ClipsAreRecent == Spec => []ClipIsRecent
<1>1. PathInv => ClipIsRecent
  BY DEF PathInv, OutputOK
<1> QED BY <1>1, PathHolds, PTL

=============================================================================
