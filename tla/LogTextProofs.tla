---------------------------- MODULE LogTextProofs ----------------------------
(***************************************************************************)
(* Proofs about LogText, for every vocabulary: a log that is written by    *)
(* either service is read back, and each turn of the loop that counts      *)
(* takes one occurrence from those that the text has.                      *)
(***************************************************************************)
EXTENDS LogSearch, TextLemmas

-----------------------------------------------------------------------------
(* Reading a line of a log *)

\* What TextAssumption says, in the form the proofs use it.
LEMMA Vocabulary ==
    /\ {NL, SP, "[", "]", "#", ":"} \subseteq Tokens /\ Words \subseteq Tokens
    /\ \A w \in Words : w \notin {NL, SP, "[", "]", "#", ":", ""}
    /\ \A t \in Clock : TimeText[t] \in Words /\ TimeText[t] \in Tokens
    /\ \A t, u \in Clock : TimeText[t] = TimeText[u] => t = u
<1>1. Words \intersect {NL, SP, "[", "]", "#", ":"} = {} /\ "" \notin Words
  BY TextAssumption DEF Characters
<1>2. DOMAIN TimeText = Clock /\ \A t \in Clock : TimeText[t] \in Words
  BY TextAssumption
<1>3. \A t, u \in Clock : TimeText[t] = TimeText[u] => t = u
  BY <1>2, TextAssumption DEF IsInjective
<1> QED BY <1>1, <1>2, <1>3 DEF Tokens, Characters

\* TimeEnd finds the first "] ".
LEMMA TimeEndIs ==
    ASSUME NEW text \in Text, NEW n \in 1..(Len(text) - 1), text[n] = "]", text[n + 1] = SP,
           \A i \in 1..(n - 1) : text[i] # "]"
    PROVE  TimeEnd(text) = n
<1> DEFINE s == [i \in 1..Len(text) |-> i < Len(text) /\ text[i] = "]" /\ text[i + 1] = SP]
           I == {i \in 1..Len(s) : s[i]}
<1>1. Len(text) \in Nat
  BY DEF Text
<1>2. Len(s) = Len(text)
  BY <1>1
<1>3. TimeEnd(text) = IF I # {} THEN Min(I) ELSE 0
  BY DEF TimeEnd, SelectInSeq
<1>4. I = {i \in 1..Len(text) : i < Len(text) /\ text[i] = "]" /\ text[i + 1] = SP}
  BY <1>2, Zenon
<1>6. n \in I /\ I \subseteq Nat /\ \A i \in I : i >= n
  <2> HIDE DEF I
  <2>1. n \in 1..Len(text) /\ n < Len(text)
    BY <1>1
  <2>2. ASSUME NEW i \in I, i < n PROVE FALSE
    <3>1. i \in 1..(n - 1) /\ text[i] = "]"
      BY <1>1, <1>4, <2>2
    <3> QED BY <3>1
  <2> QED BY <1>1, <1>4, <2>1, <2>2
<1> HIDE DEF I
<1> DEFINE m == Min(I)
<1>5. m \in I /\ m <= n
  BY <1>6, MinIsLeast
<1>7. TimeEnd(text) = m
  BY <1>3, <1>6
<1> HIDE DEF m
<1>8. m \in Nat /\ n \in Nat /\ m >= n
  BY <1>5, <1>6
<1>9. m = n
  BY <1>5, <1>8
<1> QED BY <1>7, <1>9

\* How a line begins.
StartsLine(view, time) ==
    /\ view \in Text /\ Len(view) > 4
    /\ view[1] = "[" /\ view[2] = TimeText[time] /\ view[3] = "]" /\ view[4] = SP

\* The time at the start of a line is read.
LEMMA LineStart ==
    ASSUME NEW time \in Clock, NEW view, StartsLine(view, time)
    PROVE  /\ TimeEnd(view) = 3
           /\ \A size, user, message :
                ReadLine(size, SubSeq(view, 2, 3 - 1), user, message) =
                    <<[size |-> size, time |-> time, user |-> user, text |-> message]>>
<1> USE DEF StartsLine
<1>1. Len(view) \in Nat /\ TimeText[time] \in Tokens /\ TimeText[time] # "]"
  <2>1. TimeText[time] \in Words /\ TimeText[time] \in Tokens
    BY Vocabulary
  <2>2. TimeText[time] # "]"
    BY <2>1, Vocabulary, Zenon
  <2> QED BY <2>1, <2>2 DEF Text
<1>2. TimeEnd(view) = 3
  <2>1. 3 \in 1..(Len(view) - 1) /\ 3 + 1 = 4
    BY <1>1
  <2>2. \A i \in 1..(3 - 1) : i = 1 \/ i = 2
    OBVIOUS
  <2>3. \A i \in 1..(3 - 1) : view[i] # "]"
    BY <1>1, <2>2
  <2> QED BY <2>1, <2>3, TimeEndIs
<1> DEFINE v == SubSeq(view, 2, 3 - 1)
<1>3. v = <<TimeText[time]>>
  <2>1. \A i \in 2..2 : view[i] \in Tokens
    BY <1>1
  <2>2. 2 \in Int /\ 3 - 1 = 2
    OBVIOUS
  <2>3. /\ v \in Seq(Tokens) /\ Len(v) = 1 /\ v[1] = view[2]
    <3>1. /\ SubSeq(view, 2, 2) \in Seq(Tokens)
          /\ Len(SubSeq(view, 2, 2)) = IF 2 <= 2 THEN 2 - 2 + 1 ELSE 0
          /\ \A i \in 1..(2 - 2 + 1) : SubSeq(view, 2, 2)[i] = view[2 + i - 1]
      BY <2>1, <2>2, SubSeqProperties
    <3> HIDE DEF v
    <3>2. v = SubSeq(view, 2, 2)
      BY <2>2 DEF v
    <3>3. 2 - 2 + 1 = 1 /\ 2 + 1 - 1 = 2
      OBVIOUS
    <3> QED BY <3>1, <3>2, <3>3
  <2>4. <<TimeText[time]>> \in Seq(Tokens)
    BY <1>1
  <2> HIDE DEF v
  <2>5. Len(v) = Len(<<TimeText[time]>>) /\ \A i \in 1..Len(v) : v[i] = <<TimeText[time]>>[i]
    BY <2>3
  <2> QED BY <2>3, <2>4, <2>5, SeqEqual
<1> HIDE DEF v
<1>4. IsTime(v) /\ TimeOf(v) = time
  <2>1. Len(v) = 1 /\ v[1] = TimeText[time]
    BY <1>3
  <2>2. \A t \in Clock : TimeText[t] = v[1] <=> t = time
    BY <2>1, Vocabulary
  <2> QED BY <2>1, <2>2 DEF IsTime, TimeOf
<1>5. \A size, user, message :
        ReadLine(size, v, user, message) =
            <<[size |-> size, time |-> time, user |-> user, text |-> message]>>
  BY <1>4 DEF ReadLine
<1> QED BY <1>2, <1>5 DEF v

\* A text in front of another: what it is, and what is left when it is cut off.
LEMMA Prefixed ==
    ASSUME NEW h \in Text, NEW t \in Text
    PROVE  /\ h \o t \in Text /\ Len(h \o t) = Len(h) + Len(t)
           /\ \A i \in 1..Len(h) : (h \o t)[i] = h[i]
           /\ From(h \o t, Len(h) + 1) = t
<1> USE DEF Text
<1>1. Len(h) \in Nat /\ Len(t) \in Nat
  OBVIOUS
<1>2. From(h \o t, Len(h) + 1) = t
  BY FromConcat
<1>3. /\ h \o t \in Text /\ Len(h \o t) = Len(h) + Len(t)
      /\ \A i \in 1..(Len(h) + Len(t)) : (h \o t)[i] = IF i <= Len(h) THEN h[i] ELSE t[i - Len(h)]
  BY ConcatProperties
<1>4. \A i \in 1..Len(h) : i \in 1..(Len(h) + Len(t)) /\ i <= Len(h)
  BY <1>1
<1> QED BY <1>2, <1>3, <1>4

\* What is left behind a place of a text, and cutting twice.
LEMMA Later ==
    ASSUME NEW view \in Text, NEW k \in 0..Len(view)
    PROVE  /\ From(view, k + 1) \in Text /\ Len(From(view, k + 1)) = Len(view) - k
           /\ \A i \in 1..(Len(view) - k) : From(view, k + 1)[i] = view[k + i]
           /\ \A n \in 0..(Len(view) - k) : From(From(view, k + 1), n + 1) = From(view, k + n + 1)
<1> USE DEF Text
<1>1. Len(view) \in Nat
  OBVIOUS
<1>2. k + 1 \in 1..(Len(view) + 1) /\ (k + 1) - 1 = k /\ Len(view) - (k + 1) + 1 = Len(view) - k
  BY <1>1
<1>3. ASSUME NEW n \in 0..(Len(view) - k)
      PROVE  From(From(view, k + 1), n + 1) = From(view, k + n + 1)
  <2>1. n + 1 \in 1..(Len(view) - (k + 1) + 2) /\ (k + 1) + (n + 1) - 1 = k + n + 1
    BY <1>1, <1>2
  <2> DEFINE a == k + 1
             b == n + 1
  <2>2. a \in 1..(Len(view) + 1) /\ b \in 1..(Len(view) - a + 2) /\ a + b - 1 = k + n + 1
    BY <1>2, <2>1
  <2> HIDE DEF a, b
  <2>3. From(From(view, a), b) = From(view, a + b - 1)
    BY <2>2, SliceOfSlice
  <2> QED BY <2>2, <2>3 DEF a, b
<1> DEFINE m == k + 1
<1>4. m \in 1..(Len(view) + 1) /\ m - 1 = k /\ Len(view) - m + 1 = Len(view) - k
  BY <1>2
<1> HIDE DEF m
<1>5. /\ From(view, m) \in Text /\ Len(From(view, m)) = Len(view) - m + 1
      /\ \A i \in 1..(Len(view) - m + 1) : From(view, m)[i] = view[m - 1 + i]
  BY <1>4, Slices
<1>6. /\ From(view, m) \in Text /\ Len(From(view, m)) = Len(view) - k
      /\ \A i \in 1..(Len(view) - k) : From(view, m)[i] = view[k + i]
  BY <1>4, <1>5
<1> QED BY <1>3, <1>6 DEF m

\* A text of one token.
LEMMA OneToken ==
    ASSUME NEW x \in Text, Len(x) = 1
    PROVE  x = <<x[1]>>
<1>1. x[1] \in Tokens
  BY DEF Text
<1>2. <<x[1]>> \in Seq(Tokens) /\ Len(<<x[1]>>) = 1
  BY <1>1
<1>3. \A i \in 1..Len(x) : x[i] = <<x[1]>>[i]
  OBVIOUS
<1> QED BY <1>2, <1>3, SeqEqual DEF Text

\* Up to the second token is the first one.
LEMMA Before ==
    ASSUME NEW x \in Text, Len(x) > 1
    PROVE  Upto(x, 2) = <<x[1]>>
<1>1. 2 \in 1..(Len(x) + 1) /\ 2 - 1 = 1 /\ 1 \in 1..(2 - 1)
  BY DEF Text
<1>2. Upto(x, 2) \in Text /\ Len(Upto(x, 2)) = 2 - 1 /\ Upto(x, 2)[1] = x[1]
  BY <1>1, Slices DEF Text
<1> QED BY <1>1, <1>2, OneToken

\* A message in the form gempir writes is read back.
LEMMA ReadsGempir ==
    ASSUME NEW time \in Clock, NEW u \in Words, NEW t \in Text, NEW view,
           view = <<"[", TimeText[time], "]", SP, "#", SP, u, ":", SP>> \o t
    PROVE  /\ view \in Text /\ Len(view) > 4
           /\ ReadGempir(view) =
                <<[size |-> Len(view) + 1, time |-> time, user |-> <<u>>, text |-> t]>>
<1> DEFINE h == <<"[", TimeText[time], "]", SP, "#", SP, u, ":", SP>>
<1>1. /\ "[" \in Tokens /\ TimeText[time] \in Tokens /\ "]" \in Tokens /\ SP \in Tokens
      /\ "#" \in Tokens /\ u \in Tokens /\ ":" \in Tokens
      /\ u # ":" /\ u # SP /\ "#" # SP
  BY Vocabulary, Zenon DEF SP
<1>2. h \in Text /\ Len(h) = 9
  BY <1>1 DEF Text
<1>3. /\ h[1] = "[" /\ h[2] = TimeText[time] /\ h[3] = "]" /\ h[4] = SP /\ h[5] = "#" /\ h[6] = SP
      /\ h[7] = u /\ h[8] = ":" /\ h[9] = SP
  OBVIOUS
<1> HIDE DEF h
<1>4. view = h \o t
  BY DEF h
<1>5. /\ view \in Text /\ Len(view) = 9 + Len(t) /\ \A i \in 1..9 : view[i] = h[i]
      /\ From(view, 10) = t
  <2>1. Len(h) + 1 = 10
    BY <1>2
  <2>2. /\ h \o t \in Text /\ Len(h \o t) = Len(h) + Len(t)
        /\ \A i \in 1..Len(h) : (h \o t)[i] = h[i]
        /\ From(h \o t, Len(h) + 1) = t
    BY <1>2, Prefixed
  <2> QED BY <1>2, <1>4, <2>1, <2>2
<1>6. /\ view[1] = "[" /\ view[2] = TimeText[time] /\ view[3] = "]" /\ view[4] = SP
      /\ view[5] = "#" /\ view[6] = SP /\ view[7] = u /\ view[8] = ":" /\ view[9] = SP
  BY <1>3, <1>5
<1>7. Len(view) \in Nat /\ Len(t) \in Nat /\ Len(view) > 4
  BY <1>5 DEF Text
<1>8. StartsLine(view, time)
  BY <1>5, <1>6, <1>7 DEF StartsLine
<1> DEFINE all == From(view, 5)
           rest1 == From(view, 7)
<1>9. /\ all \in Text /\ Len(all) = 5 + Len(t) /\ all[1] = "#" /\ all[2] = SP
      /\ From(all, 3) = rest1
  <2>1. 4 \in 0..Len(view)
    BY <1>5, <1>7
  <2>2. /\ From(view, 4 + 1) \in Text /\ Len(From(view, 4 + 1)) = Len(view) - 4
        /\ \A i \in 1..(Len(view) - 4) : From(view, 4 + 1)[i] = view[4 + i]
        /\ \A n \in 0..(Len(view) - 4) : From(From(view, 4 + 1), n + 1) = From(view, 4 + n + 1)
    BY <1>5, <2>1, Later
  <2>3. /\ 4 + 1 = 5 /\ 4 + 2 = 6 /\ 2 + 1 = 3 /\ 4 + 2 + 1 = 7 /\ 2 \in 0..(Len(view) - 4)
        /\ 1 \in 1..(Len(view) - 4) /\ 2 \in 1..(Len(view) - 4) /\ Len(view) - 4 = 5 + Len(t)
    BY <1>5, <1>7
  <2> QED BY <1>6, <2>2, <2>3
<1>10. /\ rest1 \in Text /\ Len(rest1) = 3 + Len(t) /\ rest1[1] = u /\ rest1[2] = ":"
       /\ From(rest1, 4) = t
  <2>1. 6 \in 0..Len(view)
    BY <1>5, <1>7
  <2>2. /\ From(view, 6 + 1) \in Text /\ Len(From(view, 6 + 1)) = Len(view) - 6
        /\ \A i \in 1..(Len(view) - 6) : From(view, 6 + 1)[i] = view[6 + i]
        /\ \A n \in 0..(Len(view) - 6) : From(From(view, 6 + 1), n + 1) = From(view, 6 + n + 1)
    BY <1>5, <2>1, Later
  <2>3. /\ 6 + 1 = 7 /\ 6 + 2 = 8 /\ 3 + 1 = 4 /\ 6 + 3 + 1 = 10 /\ 3 \in 0..(Len(view) - 6)
        /\ 1 \in 1..(Len(view) - 6) /\ 2 \in 1..(Len(view) - 6) /\ Len(view) - 6 = 3 + Len(t)
    BY <1>5, <1>7
  <2> QED BY <1>5, <1>6, <2>2, <2>3, ZenonT(60)
<1> HIDE DEF all, rest1
<1>11. FindFirstOf(all, {SP}) = 2
  <2>1. 2 \in 1..Len(all) /\ \A i \in 1..(2 - 1) : i = 1
    BY <1>7, <1>9
  <2>2. all[2] \in {SP} /\ \A i \in 1..(2 - 1) : all[i] \notin {SP}
    BY <1>1, <1>9, <2>1
  <2> QED BY <1>9, <2>1, <2>2, FindsAt DEF Text
<1>12. FindFirstOf(rest1, {":"}) = 2
  <2>1. 2 \in 1..Len(rest1) /\ \A i \in 1..(2 - 1) : i = 1
    BY <1>7, <1>10
  <2>2. rest1[2] \in {":"} /\ \A i \in 1..(2 - 1) : rest1[i] \notin {":"}
    BY <1>1, <1>10, <2>1
  <2> QED BY <1>10, <2>1, <2>2, FindsAt DEF Text
<1>13. Upto(rest1, 2) = <<u>>
  <2>1. Len(rest1) > 1
    BY <1>7, <1>10
  <2> QED BY <1>10, <2>1, Before
<1>14. ReadGempir(view) = ReadLine(Len(view) + 1, SubSeq(view, 2, 3 - 1), <<u>>, t)
  <2>1. TimeEnd(view) = 3 /\ 3 + 2 = 5 /\ 2 + 1 = 3 /\ 2 + 2 = 4
    BY <1>8, LineStart
  <2>2. From(view, 3 + 2) = all
    BY <2>1 DEF all
  <2> QED BY <1>9, <1>10, <1>11, <1>12, <1>13, <2>1, <2>2, SMTT(30) DEF ReadGempir
<1> QED BY <1>5, <1>7, <1>8, <1>14, LineStart

\* A notice of gempir, which has no colon, is skipped.
LEMMA SkipsNotice ==
    ASSUME NEW time \in Clock, NEW u \in Words, NEW t \in Text, NEW view,
           \A i \in 1..Len(t) : t[i] # ":",
           view = <<"[", TimeText[time], "]", SP, "#", SP, u, SP>> \o t
    PROVE  view \in Text /\ ReadGempir(view) = <<>>
<1> DEFINE h == <<"[", TimeText[time], "]", SP, "#", SP, u, SP>>
<1>1. /\ "[" \in Tokens /\ TimeText[time] \in Tokens /\ "]" \in Tokens /\ SP \in Tokens
      /\ "#" \in Tokens /\ u \in Tokens
      /\ u # ":" /\ SP # ":" /\ "#" # SP
  BY Vocabulary, Zenon DEF SP
<1>2. h \in Text /\ Len(h) = 8
  BY <1>1 DEF Text
<1>3. /\ h[1] = "[" /\ h[2] = TimeText[time] /\ h[3] = "]" /\ h[4] = SP /\ h[5] = "#" /\ h[6] = SP
      /\ h[7] = u /\ h[8] = SP
  OBVIOUS
<1> HIDE DEF h
<1>4. view = h \o t
  BY DEF h
<1>5. /\ view \in Text /\ Len(view) = 8 + Len(t) /\ \A i \in 1..8 : view[i] = h[i]
      /\ From(view, 9) = t
  <2>1. Len(h) + 1 = 9
    BY <1>2
  <2>2. /\ h \o t \in Text /\ Len(h \o t) = Len(h) + Len(t)
        /\ \A i \in 1..Len(h) : (h \o t)[i] = h[i]
        /\ From(h \o t, Len(h) + 1) = t
    BY <1>2, Prefixed
  <2> QED BY <1>2, <1>4, <2>1, <2>2
<1>6. /\ view[1] = "[" /\ view[2] = TimeText[time] /\ view[3] = "]" /\ view[4] = SP
      /\ view[5] = "#" /\ view[6] = SP /\ view[7] = u /\ view[8] = SP
  BY <1>3, <1>5
<1>7. Len(view) \in Nat /\ Len(t) \in Nat /\ Len(view) > 4
  BY <1>5 DEF Text
<1>8. StartsLine(view, time)
  BY <1>5, <1>6, <1>7 DEF StartsLine
<1> DEFINE all == From(view, 5)
           rest1 == From(view, 7)
<1>9. /\ all \in Text /\ Len(all) = 4 + Len(t) /\ all[1] = "#" /\ all[2] = SP
      /\ From(all, 3) = rest1
  <2>1. 4 \in 0..Len(view)
    BY <1>5, <1>7
  <2>2. /\ From(view, 4 + 1) \in Text /\ Len(From(view, 4 + 1)) = Len(view) - 4
        /\ \A i \in 1..(Len(view) - 4) : From(view, 4 + 1)[i] = view[4 + i]
        /\ \A n \in 0..(Len(view) - 4) : From(From(view, 4 + 1), n + 1) = From(view, 4 + n + 1)
    BY <1>5, <2>1, Later
  <2>3. /\ 4 + 1 = 5 /\ 4 + 2 = 6 /\ 2 + 1 = 3 /\ 4 + 2 + 1 = 7 /\ 2 \in 0..(Len(view) - 4)
        /\ 1 \in 1..(Len(view) - 4) /\ 2 \in 1..(Len(view) - 4) /\ Len(view) - 4 = 4 + Len(t)
    BY <1>5, <1>7
  <2> QED BY <1>6, <2>2, <2>3
<1>10. /\ rest1 \in Text /\ Len(rest1) = 2 + Len(t) /\ rest1[1] = u /\ rest1[2] = SP
       /\ \A i \in 1..Len(rest1) : rest1[i] # ":"
  <2>1. 6 \in 0..Len(view)
    BY <1>5, <1>7
  <2>2. /\ From(view, 6 + 1) \in Text /\ Len(From(view, 6 + 1)) = Len(view) - 6
        /\ \A i \in 1..(Len(view) - 6) : From(view, 6 + 1)[i] = view[6 + i]
        /\ \A n \in 0..(Len(view) - 6) : From(From(view, 6 + 1), n + 1) = From(view, 6 + n + 1)
    BY <1>5, <2>1, Later
  <2>3. /\ 6 + 1 = 7 /\ 6 + 2 = 8 /\ 2 + 1 = 3 /\ 6 + 2 + 1 = 9 /\ 2 \in 0..(Len(view) - 6)
        /\ 1 \in 1..(Len(view) - 6) /\ 2 \in 1..(Len(view) - 6) /\ Len(view) - 6 = 2 + Len(t)
    BY <1>5, <1>7
  <2>4. /\ rest1 \in Text /\ Len(rest1) = 2 + Len(t) /\ rest1[1] = u /\ rest1[2] = SP
        /\ From(rest1, 2 + 1) = t
    BY <1>5, <1>6, <2>2, <2>3, ZenonT(60)
  <2> HIDE DEF rest1
  <2>5. /\ Len(From(rest1, 2 + 1)) = Len(rest1) - 2
        /\ \A i \in 1..(Len(rest1) - 2) : From(rest1, 2 + 1)[i] = rest1[2 + i]
    <3>1. 2 \in 0..Len(rest1)
      BY <1>7, <2>4
    <3> QED BY <2>4, <3>1, Later
  <2>6. ASSUME NEW i \in 1..Len(rest1) PROVE rest1[i] # ":"
    <3>1. CASE i = 1 \/ i = 2
      BY <1>1, <2>4, <3>1
    <3>2. CASE i > 2
      <4>1. i - 2 \in 1..Len(t) /\ i - 2 \in 1..(Len(rest1) - 2) /\ 2 + (i - 2) = i
        BY <1>7, <2>4, <3>2
      <4>2. t[i - 2] = rest1[i] /\ t[i - 2] # ":"
        BY <2>4, <2>5, <4>1
      <4> QED BY <4>2
    <3>3. i = 1 \/ i = 2 \/ i > 2
      BY <1>7, <2>4
    <3> QED BY <3>1, <3>2, <3>3
  <2> QED BY <2>4, <2>6
<1> HIDE DEF all, rest1
<1>11. FindFirstOf(all, {SP}) = 2
  <2>1. 2 \in 1..Len(all) /\ \A i \in 1..(2 - 1) : i = 1
    BY <1>7, <1>9
  <2>2. all[2] \in {SP} /\ \A i \in 1..(2 - 1) : all[i] \notin {SP}
    BY <1>1, <1>9, <2>1
  <2> QED BY <1>9, <2>1, <2>2, FindsAt DEF Text
<1>12. FindFirstOf(rest1, {":"}) = 0
  <2>1. \A i \in 1..Len(rest1) : rest1[i] \notin {":"}
    BY <1>10
  <2> QED BY <1>10, <2>1, FindsNothing DEF Text
<1>14. ReadGempir(view) = <<>>
  <2>1. TimeEnd(view) = 3 /\ 3 + 2 = 5 /\ 2 + 1 = 3
    BY <1>8, LineStart
  <2>2. From(view, 3 + 2) = all
    BY <2>1 DEF all
  <2> QED BY <1>9, <1>11, <1>12, <2>1, <2>2 DEF ReadGempir
<1> QED BY <1>5, <1>14

\* A message in the form overrustle writes is read back.
LEMMA ReadsOverrustle ==
    ASSUME NEW time \in Clock, NEW u \in Words, NEW t \in Text, NEW view,
           view = <<"[", TimeText[time], "]", SP, u, ":", SP>> \o t
    PROVE  /\ view \in Text /\ Len(view) > 4
           /\ ReadOverrustle(view) =
                <<[size |-> Len(view) + 1, time |-> time, user |-> <<u>>, text |-> t]>>
<1> DEFINE h == <<"[", TimeText[time], "]", SP, u, ":", SP>>
<1>1. /\ "[" \in Tokens /\ TimeText[time] \in Tokens /\ "]" \in Tokens /\ SP \in Tokens
      /\ u \in Tokens /\ ":" \in Tokens /\ u # SP /\ ":" # SP
  BY Vocabulary, Zenon DEF SP
<1>2. h \in Text /\ Len(h) = 7
  BY <1>1 DEF Text
<1>3. /\ h[1] = "[" /\ h[2] = TimeText[time] /\ h[3] = "]" /\ h[4] = SP
      /\ h[5] = u /\ h[6] = ":" /\ h[7] = SP
  OBVIOUS
<1> HIDE DEF h
<1>4. view = h \o t
  BY DEF h
<1>5. /\ view \in Text /\ Len(view) = 7 + Len(t) /\ \A i \in 1..7 : view[i] = h[i]
      /\ From(view, 8) = t
  <2>1. Len(h) + 1 = 8
    BY <1>2
  <2>2. /\ h \o t \in Text /\ Len(h \o t) = Len(h) + Len(t)
        /\ \A i \in 1..Len(h) : (h \o t)[i] = h[i]
        /\ From(h \o t, Len(h) + 1) = t
    BY <1>2, Prefixed
  <2> QED BY <1>2, <1>4, <2>1, <2>2
<1>6. /\ view[1] = "[" /\ view[2] = TimeText[time] /\ view[3] = "]" /\ view[4] = SP
      /\ view[5] = u /\ view[6] = ":" /\ view[7] = SP
  BY <1>3, <1>5
<1>7. Len(view) \in Nat /\ Len(t) \in Nat /\ Len(view) > 4
  BY <1>5 DEF Text
<1>8. StartsLine(view, time)
  BY <1>5, <1>6, <1>7 DEF StartsLine
<1> DEFINE all == From(view, 5)
<1>9. /\ all \in Text /\ Len(all) = 3 + Len(t) /\ all[1] = u /\ all[2] = ":" /\ all[3] = SP
      /\ From(all, 4) = t
  <2>1. 4 \in 0..Len(view)
    BY <1>5, <1>7
  <2>2. /\ From(view, 4 + 1) \in Text /\ Len(From(view, 4 + 1)) = Len(view) - 4
        /\ \A i \in 1..(Len(view) - 4) : From(view, 4 + 1)[i] = view[4 + i]
        /\ \A n \in 0..(Len(view) - 4) : From(From(view, 4 + 1), n + 1) = From(view, 4 + n + 1)
    BY <1>5, <2>1, Later
  <2>3. /\ 4 + 1 = 5 /\ 4 + 2 = 6 /\ 4 + 3 = 7 /\ 3 + 1 = 4 /\ 4 + 3 + 1 = 8
        /\ 3 \in 0..(Len(view) - 4) /\ 1 \in 1..(Len(view) - 4) /\ 2 \in 1..(Len(view) - 4)
        /\ 3 \in 1..(Len(view) - 4) /\ Len(view) - 4 = 3 + Len(t)
    BY <1>5, <1>7
  <2> QED BY <1>5, <1>6, <2>2, <2>3, ZenonT(60)
<1> HIDE DEF all
<1>11. FindFirstOf(all, {SP}) = 3
  <2>1. 3 \in 1..Len(all) /\ \A i \in 1..(3 - 1) : i = 1 \/ i = 2
    BY <1>7, <1>9
  <2>2. all[3] \in {SP} /\ \A i \in 1..(3 - 1) : all[i] \notin {SP}
    BY <1>1, <1>9, <2>1
  <2> QED BY <1>9, <2>1, <2>2, FindsAt DEF Text
<1>13. SubSeq(all, 1, 3 - 2) = <<u>>
  <2>1. Len(all) > 1 /\ 3 - 2 = 1 /\ 2 - 1 = 1
    BY <1>7, <1>9
  <2>2. Upto(all, 2) = <<u>>
    BY <1>9, <2>1, Before
  <2> QED BY <2>1, <2>2 DEF Upto
<1>14. ReadOverrustle(view) = ReadLine(Len(view) + 1, SubSeq(view, 2, 3 - 1), <<u>>, t)
  <2>1. TimeEnd(view) = 3 /\ 3 + 2 = 5 /\ 3 + 1 = 4
    BY <1>8, LineStart
  <2>2. From(view, 3 + 2) = all
    BY <2>1 DEF all
  <2>3. From(all, 3 + 1) = t
    BY <1>9, <2>1
  <2>4. 3 # 0
    OBVIOUS
  <2> QED BY <1>11, <1>13, <2>1, <2>2, <2>3, <2>4, Zenon DEF ReadOverrustle
<1> QED BY <1>5, <1>7, <1>8, <1>14, LineStart

Services == {"gempir", "overrustle"}
Write(service, l) == IF service = "gempir" THEN WriteGempir(l) ELSE WriteOverrustle(l)
\* Whether a line is read, and what is read.
Reads(service, l) == ~(service = "gempir" /\ l.notice)
View(service, l) ==
    [size |-> Len(Write(service, l)), time |-> l.time, user |-> <<l.user>>, text |-> l.text]
Parsed(service, l) == IF Reads(service, l) THEN <<View(service, l)>> ELSE <<>>
Views == [size : Nat, time : Clock, user : Text, text : Text]
Ink == Tokens \ {NL}

\* What a line is made of.
LEMMA Composed ==
    ASSUME NEW l \in Written
    PROVE  /\ l.user \in Words /\ l.channel \in Words /\ l.time \in Clock /\ l.text \in Text
           /\ l.text \in Seq(Ink) /\ l.notice \in BOOLEAN
           /\ l.notice => \A i \in 1..Len(l.text) : l.text[i] # ":"
<1>1. /\ l \in [channel : Words, user : Words, time : Clock, text : Seq(Ink), notice : BOOLEAN]
      /\ l.notice => \A i \in DOMAIN l.text : l.text[i] # ":"
  BY WrittenAssumption DEF Ink
<1>2. Seq(Ink) \subseteq Text
  <2>1. Ink \subseteq Tokens
    BY DEF Ink
  <2> QED BY <2>1 DEF Text
<1>3. DOMAIN l.text = 1..Len(l.text)
  BY <1>1
<1> QED BY <1>1, <1>2, <1>3

\* Tuples that are concatenated.
LEMMA TupleAndOne ==
    ASSUME NEW a1, NEW a2, NEW a3, NEW a4, NEW a5, NEW a6, NEW a7, NEW b1
    PROVE  <<a1, a2, a3, a4, a5, a6, a7>> \o <<b1>> = <<a1, a2, a3, a4, a5, a6, a7, b1>>
<1> DEFINE s == <<a1, a2, a3, a4, a5, a6, a7>>
           r == <<b1>>
           t == <<a1, a2, a3, a4, a5, a6, a7, b1>>
           T == {a1, a2, a3, a4, a5, a6, a7, b1}
<1>1. s \in Seq(T) /\ r \in Seq(T) /\ t \in Seq(T) /\ Len(s) = 7 /\ Len(r) = 1 /\ Len(t) = 8
  OBVIOUS
<1>2. s[1] = t[1] /\ s[2] = t[2] /\ s[3] = t[3] /\ s[4] = t[4] /\ s[5] = t[5] /\ s[6] = t[6] /\ s[7] = t[7] /\ r[1] = t[8]
  OBVIOUS
<1> HIDE DEF s, r, t, T
<1>3. /\ s \o r \in Seq(T) /\ Len(s \o r) = 8
      /\ \A i \in 1..8 : (s \o r)[i] = IF i <= 7 THEN s[i] ELSE r[i - 7]
  <2>1. /\ s \o r \in Seq(T) /\ Len(s \o r) = Len(s) + Len(r)
        /\ \A i \in 1..(Len(s) + Len(r)) : (s \o r)[i] = IF i <= Len(s) THEN s[i] ELSE r[i - Len(s)]
    BY <1>1, ConcatProperties
  <2> QED BY <1>1, <2>1, SMTT(30)
<1>4. \A i \in 1..8 : i = 1 \/ i = 2 \/ i = 3 \/ i = 4 \/ i = 5 \/ i = 6 \/ i = 7 \/ i = 8
  OBVIOUS
<1>5. \A i \in 1..8 : (s \o r)[i] = t[i]
  <2> DEFINE c == s \o r
  <2>1. \A i \in 1..8 : c[i] = IF i <= 7 THEN s[i] ELSE r[i - 7]
    BY <1>3
  <2> HIDE DEF c
  <2>2. c[1] = s[1] /\ c[2] = s[2] /\ c[3] = s[3] /\ c[4] = s[4] /\ c[5] = s[5] /\ c[6] = s[6] /\ c[7] = s[7] /\ c[8] = r[1]
    BY <2>1
  <2>3. \A i \in 1..8 : c[i] = t[i]
    BY <1>2, <1>4, <2>2
  <2> QED BY <2>3 DEF c
<1>6. s \o r = t
  BY <1>1, <1>3, <1>5, SeqEqual
<1> QED BY <1>6 DEF s, r, t

\* The same, for two more.
LEMMA TupleAndTwo ==
    ASSUME NEW a1, NEW a2, NEW a3, NEW a4, NEW a5, NEW a6, NEW a7, NEW b1, NEW b2
    PROVE  <<a1, a2, a3, a4, a5, a6, a7>> \o <<b1, b2>> = <<a1, a2, a3, a4, a5, a6, a7, b1, b2>>
<1> DEFINE s == <<a1, a2, a3, a4, a5, a6, a7>>
           r == <<b1, b2>>
           t == <<a1, a2, a3, a4, a5, a6, a7, b1, b2>>
           T == {a1, a2, a3, a4, a5, a6, a7, b1, b2}
<1>1. s \in Seq(T) /\ r \in Seq(T) /\ t \in Seq(T) /\ Len(s) = 7 /\ Len(r) = 2 /\ Len(t) = 9
  OBVIOUS
<1>2. s[1] = t[1] /\ s[2] = t[2] /\ s[3] = t[3] /\ s[4] = t[4] /\ s[5] = t[5] /\ s[6] = t[6] /\ s[7] = t[7] /\ r[1] = t[8] /\ r[2] = t[9]
  OBVIOUS
<1> HIDE DEF s, r, t, T
<1>3. /\ s \o r \in Seq(T) /\ Len(s \o r) = 9
      /\ \A i \in 1..9 : (s \o r)[i] = IF i <= 7 THEN s[i] ELSE r[i - 7]
  <2>1. /\ s \o r \in Seq(T) /\ Len(s \o r) = Len(s) + Len(r)
        /\ \A i \in 1..(Len(s) + Len(r)) : (s \o r)[i] = IF i <= Len(s) THEN s[i] ELSE r[i - Len(s)]
    BY <1>1, ConcatProperties
  <2> QED BY <1>1, <2>1, SMTT(30)
<1>4. \A i \in 1..9 : i = 1 \/ i = 2 \/ i = 3 \/ i = 4 \/ i = 5 \/ i = 6 \/ i = 7 \/ i = 8 \/ i = 9
  OBVIOUS
<1>5. \A i \in 1..9 : (s \o r)[i] = t[i]
  <2> DEFINE c == s \o r
  <2>1. \A i \in 1..9 : c[i] = IF i <= 7 THEN s[i] ELSE r[i - 7]
    BY <1>3
  <2> HIDE DEF c
  <2>2. c[1] = s[1] /\ c[2] = s[2] /\ c[3] = s[3] /\ c[4] = s[4] /\ c[5] = s[5] /\ c[6] = s[6] /\ c[7] = s[7] /\ c[8] = r[1] /\ c[9] = r[2]
    BY <2>1
  <2>3. \A i \in 1..9 : c[i] = t[i]
    BY <1>2, <1>4, <2>2
  <2> QED BY <2>3 DEF c
<1>6. s \o r = t
  BY <1>1, <1>3, <1>5, SeqEqual
<1> QED BY <1>6 DEF s, r, t

\* A line of a log is one line, and is read as the message it was, or is left out.
LEMMA ReadsBack ==
    ASSUME NEW l \in Written, NEW service \in Services
    PROVE  \E body \in Seq(Ink) :
              /\ Write(service, l) = body \o <<NL>>
              /\ ReadLineOf(service, body) = Parsed(service, l)
              /\ Len(body) > 4
<1> DEFINE t == l.text
           tt == TimeText[l.time]
           u == l.user
<1>1. /\ u \in Words /\ t \in Text /\ t \in Seq(Ink) /\ l.time \in Clock
      /\ l.notice => \A i \in 1..Len(t) : t[i] # ":"
  BY Composed
<1>2. /\ "[" \in Ink /\ tt \in Ink /\ "]" \in Ink /\ SP \in Ink /\ "#" \in Ink /\ u \in Ink /\ ":" \in Ink
  <2>1. tt \in Words /\ u \in Words
    BY <1>1, Vocabulary
  <2>2. tt \in Tokens /\ tt # NL /\ u \in Tokens /\ u # NL
    BY <2>1, Vocabulary, Zenon
  <2>3. {SP, "[", "]", "#", ":"} \subseteq Tokens
    BY Vocabulary
  <2> QED BY <2>2, <2>3 DEF Ink, NL, SP
<1>3. ASSUME NEW h \in Seq(Ink), Write(service, l) = (h \o t) \o <<NL>>, Len(h) > 4,
             ReadLineOf(service, h \o t) = (IF Reads(service, l)
                THEN <<[size |-> Len(h \o t) + 1, time |-> l.time, user |-> <<u>>, text |-> t]>>
                ELSE <<>>)
      PROVE  \E body \in Seq(Ink) :
                /\ Write(service, l) = body \o <<NL>>
                /\ ReadLineOf(service, body) = Parsed(service, l)
                /\ Len(body) > 4
  <2> DEFINE body == h \o t
  <2>1. body \in Seq(Ink) /\ Len(body) = Len(h) + Len(t)
    BY <1>1, ConcatProperties
  <2>2. Len(body) > 4 /\ Len(body) \in Nat
    <3>1. Len(h) \in Nat /\ Len(t) \in Nat
      BY <1>1
    <3> HIDE DEF body
    <3> QED BY <1>3, <2>1, <3>1
  <2>3. Len(body \o <<NL>>) = Len(body) + 1
    <3>1. body \in Seq(Tokens) /\ <<NL>> \in Seq(Tokens) /\ Len(<<NL>>) = 1
      <4>1. Ink \subseteq Tokens /\ NL \in Tokens
        BY Vocabulary DEF Ink
      <4> HIDE DEF body
      <4> QED BY <2>1, <4>1
    <3> HIDE DEF body
    <3> QED BY <3>1, ConcatProperties
  <2>4. ReadLineOf(service, body) = Parsed(service, l)
    <3>1. Write(service, l) = body \o <<NL>>
      BY <1>3
    <3>2. Len(Write(service, l)) = Len(body) + 1
      <4> HIDE DEF body
      <4> QED BY <2>3, <3>1
    <3>3. ReadLineOf(service, body) = IF Reads(service, l)
             THEN <<[size |-> Len(body) + 1, time |-> l.time, user |-> <<u>>, text |-> t]>> ELSE <<>>
      BY <1>3
    <3> HIDE DEF body
    <3> QED BY <3>2, <3>3 DEF Parsed, View
  <2> HIDE DEF body
  <2>5. Write(service, l) = body \o <<NL>>
    BY <1>3 DEF body
  <2> QED BY <2>1, <2>2, <2>4, <2>5
<1>4. CASE service = "gempir" /\ ~l.notice
  <2> DEFINE h == <<"[", tt, "]", SP, "#", SP, u, ":", SP>>
  <2>1. h \in Seq(Ink) /\ Len(h) = 9
    <3> HIDE DEF tt, u
    <3> QED BY <1>2
  <2>2. Write(service, l) = (h \o t) \o <<NL>>
    <3>1. <<"[", tt, "]", SP, "#", SP, u>> \o <<":", SP>> = h
      BY TupleAndTwo
    <3>2. Write(service, l) =
            ((<<"[", tt, "]", SP, "#", SP, u>> \o <<":", SP>>) \o t) \o <<NL>>
      BY <1>4 DEF Write, WriteGempir
    <3> HIDE DEF h
    <3> QED BY <3>1, <3>2
  <2>3. ReadLineOf(service, h \o t) =
           <<[size |-> Len(h \o t) + 1, time |-> l.time, user |-> <<u>>, text |-> t]>>
    <3>1. ReadGempir(h \o t) =
            <<[size |-> Len(h \o t) + 1, time |-> l.time, user |-> <<u>>, text |-> t]>>
      BY <1>1, ReadsGempir, ZenonT(60)
    <3> QED BY <1>4, <3>1 DEF ReadLineOf
  <2>4. Reads(service, l)
    BY <1>4 DEF Reads
  <2> HIDE DEF h
  <2>5. h \in Seq(Ink) /\ Len(h) > 4
    BY <2>1
  <2>6. ReadLineOf(service, h \o t) = (IF Reads(service, l)
           THEN <<[size |-> Len(h \o t) + 1, time |-> l.time, user |-> <<u>>, text |-> t]>>
           ELSE <<>>)
    BY <2>3, <2>4, Zenon
  <2> QED BY <1>3, <2>2, <2>5, <2>6, Zenon
<1>5. CASE service = "gempir" /\ l.notice
  <2> DEFINE h == <<"[", tt, "]", SP, "#", SP, u, SP>>
  <2>1. h \in Seq(Ink) /\ Len(h) = 8
    <3> HIDE DEF tt, u
    <3> QED BY <1>2
  <2>2. Write(service, l) = (h \o t) \o <<NL>>
    <3>1. <<"[", tt, "]", SP, "#", SP, u>> \o <<SP>> = h
      BY TupleAndOne
    <3>2. Write(service, l) =
            ((<<"[", tt, "]", SP, "#", SP, u>> \o <<SP>>) \o t) \o <<NL>>
      BY <1>5 DEF Write, WriteGempir
    <3> HIDE DEF h
    <3> QED BY <3>1, <3>2
  <2>3. ReadLineOf(service, h \o t) = <<>>
    <3>1. ReadGempir(h \o t) = <<>>
      BY <1>1, <1>5, SkipsNotice
    <3> QED BY <1>5, <3>1 DEF ReadLineOf
  <2>4. ~Reads(service, l)
    BY <1>5 DEF Reads
  <2> HIDE DEF h
  <2>5. h \in Seq(Ink) /\ Len(h) > 4
    BY <2>1
  <2>6. ReadLineOf(service, h \o t) = (IF Reads(service, l)
           THEN <<[size |-> Len(h \o t) + 1, time |-> l.time, user |-> <<u>>, text |-> t]>>
           ELSE <<>>)
    BY <2>3, <2>4, Zenon
  <2> QED BY <1>3, <2>2, <2>5, <2>6, Zenon
<1>6. CASE service = "overrustle"
  <2> DEFINE h == <<"[", tt, "]", SP, u, ":", SP>>
  <2>1. h \in Seq(Ink) /\ Len(h) = 7
    <3> HIDE DEF tt, u
    <3> QED BY <1>2
  <2>2. Write(service, l) = (h \o t) \o <<NL>>
    BY <1>6 DEF Write, WriteOverrustle
  <2>3. ReadLineOf(service, h \o t) =
           <<[size |-> Len(h \o t) + 1, time |-> l.time, user |-> <<u>>, text |-> t]>>
    <3>1. ReadOverrustle(h \o t) =
            <<[size |-> Len(h \o t) + 1, time |-> l.time, user |-> <<u>>, text |-> t]>>
      BY <1>1, ReadsOverrustle, ZenonT(60)
    <3> QED BY <1>6, <3>1 DEF ReadLineOf
  <2>4. Reads(service, l)
    BY <1>6 DEF Reads
  <2> HIDE DEF h
  <2>5. h \in Seq(Ink) /\ Len(h) > 4
    BY <2>1
  <2>6. ReadLineOf(service, h \o t) = (IF Reads(service, l)
           THEN <<[size |-> Len(h \o t) + 1, time |-> l.time, user |-> <<u>>, text |-> t]>>
           ELSE <<>>)
    BY <2>3, <2>4, Zenon
  <2> QED BY <1>3, <2>2, <2>5, <2>6, Zenon
<1>7. l.notice \in BOOLEAN
  BY Composed
<1> QED BY <1>4, <1>5, <1>6, <1>7 DEF Services

-----------------------------------------------------------------------------
(* Reading a log *)

\* What can be read in a line of any text.
Readings(service) == {ReadLineOf(service, v)[1] : v \in Text}

\* Reading a line gives one line or none.
LEMMA ReadingType ==
    ASSUME NEW service, NEW v \in Text
    PROVE  ReadLineOf(service, v) \in Seq(Readings(service))
<1> DEFINE r == ReadLineOf(service, v)
<1>1. \A size, time_view, user, message :
        \/ ReadLine(size, time_view, user, message) = <<>>
        \/ \E x : ReadLine(size, time_view, user, message) = <<x>>
  BY DEF ReadLine
<1>2. r = <<>> \/ \E x : r = <<x>>
  <2>1. ReadGempir(v) = <<>> \/ \E x : ReadGempir(v) = <<x>>
    BY <1>1, Zenon DEF ReadGempir
  <2>2. ReadOverrustle(v) = <<>> \/ \E x : ReadOverrustle(v) = <<x>>
    BY <1>1, Zenon DEF ReadOverrustle
  <2> QED BY <2>1, <2>2 DEF ReadLineOf
<1>3. r[1] \in Readings(service)
  BY DEF Readings
<1> HIDE DEF r
<1>4. ASSUME r = <<>> PROVE r \in Seq(Readings(service))
  BY <1>4
<1>5. ASSUME NEW x, r = <<x>> PROVE r \in Seq(Readings(service))
  <2>1. x \in Readings(service)
    BY <1>3, <1>5
  <2> QED BY <1>5, <2>1
<1>6. r \in Seq(Readings(service))
  BY <1>2, <1>4, <1>5
<1> QED BY <1>6 DEF r

\* The equation by which ParseLines calls itself.
LEMMA ParseEquation ==
    ASSUME NEW service, NEW text \in Text
    PROVE  /\ ParseLines(service, text) \in Seq(Readings(service))
           /\ FindFirstOf(text, {NL}) = 0 => ParseLines(service, text) = <<>>
           /\ FindFirstOf(text, {NL}) # 0 =>
                ParseLines(service, text) =
                    ReadLineOf(service, Upto(text, FindFirstOf(text, {NL})))
                        \o ParseLines(service, From(text, FindFirstOf(text, {NL}) + 1))
<1> DEFINE V == Seq(Readings(service))
           End(t) == FindFirstOf(t, {NL})
           parse[t \in Text] ==
                LET n == FindFirstOf(t, {NL}) IN
                IF n = 0 THEN <<>> ELSE ReadLineOf(service, Upto(t, n)) \o parse[From(t, n + 1)]
           stop == {t \in Text : End(t) = 0}
           size == [t \in Text |-> Len(t)]
           base == [t \in Text |-> <<>>]
           next == [t \in Text |-> IF t \in stop THEN t ELSE From(t, End(t) + 1)]
           Line(t) == ReadLineOf(service, Upto(t, End(t)))
           step == [p \in Text \X V |-> IF p[1] \in stop THEN <<>> ELSE Line(p[1]) \o p[2]]
<1>1. ASSUME NEW t \in Text, t \notin stop
      PROVE  /\ From(t, End(t) + 1) \in Text /\ Len(From(t, End(t) + 1)) < Len(t)
             /\ Upto(t, End(t)) \in Text /\ Line(t) \in V
  <2> DEFINE n == End(t)
  <2>1. n \in 1..Len(t) /\ Len(t) \in Nat
    BY <1>1, FindsFirst DEF Text
  <2> HIDE DEF n
  <2>2. n \in 1..(Len(t) + 1) /\ n \in 0..Len(t) /\ Len(t) - n < Len(t)
    BY <2>1
  <2>3. From(t, n + 1) \in Text /\ Len(From(t, n + 1)) = Len(t) - n
    BY <2>2, Later
  <2>4. Upto(t, n) \in Text
    BY <2>2, Slices DEF Text
  <2>5. ReadLineOf(service, Upto(t, n)) \in V
    BY <2>4, ReadingType
  <2> QED BY <2>2, <2>3, <2>4, <2>5 DEF n
<1>2. Recursive(Text, V, size, stop, base, next, step)
  <2>1. size \in [Text -> Nat] /\ stop \in SUBSET Text /\ base \in [Text -> V]
    BY DEF Text
  <2>2. next \in [Text -> Text] /\ \A t \in Text \ stop : size[next[t]] < size[t]
    <3> HIDE DEF stop, End
    <3> QED BY <1>1
  <2>3. step \in [Text \X V -> V]
    <3>1. ASSUME NEW t \in Text, NEW v \in V, t \notin stop PROVE Line(t) \o v \in V
      <4>1. Line(t) \in V
        BY <1>1, <3>1
      <4> HIDE DEF Line
      <4> QED BY <4>1, ConcatProperties
    <3>2. <<>> \in V
      OBVIOUS
    <3> HIDE DEF stop, V, Line
    <3> QED BY <3>1, <3>2
  <2> HIDE DEF V, stop, step, size, base, next
  <2> QED BY <2>1, <2>2, <2>3 DEF Recursive
<1>3. PICK f \in [Text -> V] :
         \A t \in Text : f[t] = IF t \in stop THEN base[t] ELSE step[<<t, f[next[t]]>>]
  <2> HIDE DEF V, stop, size, base, next, step
  <2> QED BY <1>2, Recursion DEF Computable
<1>4. \A t \in Text : f[t] = IF End(t) = 0 THEN <<>> ELSE Line(t) \o f[From(t, End(t) + 1)]
  <2> TAKE t \in Text
  <2>1. CASE t \in stop
    BY <1>3, <2>1
  <2>2. CASE t \notin stop
    <3>1. End(t) # 0
      BY <2>2
    <3>2. next[t] = From(t, End(t) + 1) /\ next[t] \in Text
      <4> HIDE DEF stop, End
      <4> QED BY <1>1, <2>2
    <3>3. f[next[t]] \in V /\ f[t] = step[<<t, f[next[t]]>>]
      <4> HIDE DEF V, stop, step, base, next
      <4> QED BY <1>3, <2>2, <3>2
    <3>4. step[<<t, f[next[t]]>>] = Line(t) \o f[next[t]]
      <4> HIDE DEF V, stop, next, Line
      <4> QED BY <2>2, <3>3
    <3> HIDE DEF step, next, stop, Line, End
    <3> QED BY <3>1, <3>2, <3>3, <3>4
  <2> QED BY <2>1, <2>2
<1>5. f = [t \in Text |->
             LET n == FindFirstOf(t, {NL}) IN
             IF n = 0 THEN <<>> ELSE ReadLineOf(service, Upto(t, n)) \o f[From(t, n + 1)]]
  BY <1>3, <1>4, Zenon
<1>6. parse = [t \in Text |->
             LET n == FindFirstOf(t, {NL}) IN
             IF n = 0 THEN <<>> ELSE ReadLineOf(service, Upto(t, n)) \o parse[From(t, n + 1)]]
  BY <1>5, Zenon
<1>7. \A t : ParseLines(service, t) = parse[t]
  BY DEF ParseLines
<1> HIDE DEF parse
<1>8. \A t \in Text : parse[t] = IF End(t) = 0 THEN <<>> ELSE Line(t) \o parse[From(t, End(t) + 1)]
  BY <1>6, Zenon
<1>9. \A t \in Text : parse[t] \in V
  <2>1. Obeys(parse, Text, V, stop, base, next, step)
    <3>1. ASSUME NEW t \in Text, t \notin stop, parse[next[t]] \in V
          PROVE  parse[t] = step[<<t, parse[next[t]]>>]
      <4>1. End(t) # 0
        BY <3>1
      <4>2. next[t] = From(t, End(t) + 1)
        <5> HIDE DEF stop, End
        <5> QED BY <3>1
      <4>3. parse[t] = Line(t) \o parse[next[t]]
        BY <1>8, <4>1, <4>2, Zenon
      <4>4. step[<<t, parse[next[t]]>>] = Line(t) \o parse[next[t]]
        <5> HIDE DEF V, stop, next, Line
        <5> QED BY <3>1
      <4> HIDE DEF step, next, Line
      <4> QED BY <4>3, <4>4
    <3>2. ASSUME NEW t \in Text, t \in stop PROVE parse[t] = base[t]
      BY <1>8, <3>2
    <3> HIDE DEF V, stop, step, base, next
    <3> QED BY <3>1, <3>2 DEF Obeys
  <2> HIDE DEF V, stop, step, size, base, next
  <2> QED BY <1>2, <2>1, RecursionType
<1> QED BY <1>7, <1>8, <1>9, Zenon

-----------------------------------------------------------------------------
Ended(a) == a = <<>> \/ a[Len(a)] = NL

\* The lines of two texts, the first of which ends with a newline, are those of the one and then of the other.
LEMMA ParseJoins ==
    ASSUME NEW service, NEW b \in Text
    PROVE  \A a \in Text : Ended(a) =>
              ParseLines(service, a \o b) = ParseLines(service, a) \o ParseLines(service, b)
<1> DEFINE P(t) == ParseLines(service, t)
           V == Seq(Readings(service))
           Right == {n \in Nat : \A a \in Text : Ended(a) /\ Len(a) < n => P(a \o b) = P(a) \o P(b)}
<1>1. \A t \in Text : P(t) \in V
  BY ParseEquation
<1>2. P(<<>> \o b) = P(<<>>) \o P(b)
  <2>1. <<>> \in Text /\ <<>> \o b = b
    BY ConcatEmptySeq DEF Text
  <2>2. FindFirstOf(<<>>, {NL}) = 0
    <3>1. <<>> \in Seq(Tokens) /\ \A i \in 1..Len(<<>>) : <<>>[i] \notin {NL}
      OBVIOUS
    <3> QED BY <3>1, FindsNothing
  <2>3. P(<<>>) = <<>>
    BY <2>1, <2>2, ParseEquation
  <2>4. <<>> \o P(b) = P(b)
    <3>1. P(b) \in V
      BY <1>1
    <3> HIDE DEF P
    <3> QED BY <3>1, ConcatEmptySeq
  <2> QED BY <2>1, <2>3, <2>4
<1>3. 0 \in Right
  <2>1. \A a \in Text : ~(Len(a) < 0)
    BY DEF Text
  <2> QED BY <2>1
<1>4. ASSUME NEW n \in Nat, n \in Right PROVE n + 1 \in Right
  <2> SUFFICES ASSUME NEW a \in Text, Ended(a), Len(a) < n + 1 PROVE P(a \o b) = P(a) \o P(b)
    OBVIOUS
  <2>1. CASE a = <<>>
    BY <1>2, <2>1
  <2>2. CASE a # <<>>
    <3> DEFINE m == FindFirstOf(a, {NL})
               r == From(a, m + 1)
               line == ReadLineOf(service, Upto(a, m))
    <3>1. Len(a) \in Nat /\ Len(a) \in 1..Len(a) /\ a[Len(a)] \in {NL}
      BY <2>2 DEF Text, Ended
    <3>2. m \in 1..Len(a) /\ a[m] \in {NL} /\ \A i \in 1..(m - 1) : a[i] \notin {NL}
      <4>1. a \in Seq(Tokens)
        BY DEF Text
      <4> QED BY <3>1, <4>1, FindsFirst
    <3> HIDE DEF m
    <3>3. m \in 0..Len(a) /\ m \in 1..(Len(a) + 1) /\ m + 1 \in 1..(Len(a) + 1) /\ Len(a) - m < n
      BY <3>1, <3>2
    <3>4. r \in Text /\ Len(r) = Len(a) - m /\ \A i \in 1..(Len(a) - m) : r[i] = a[m + i]
      BY <3>3, Later
    <3>5. FindFirstOf(a \o b, {NL}) = m
      <4>1. /\ a \o b \in Text /\ Len(a \o b) = Len(a) + Len(b)
            /\ \A i \in 1..Len(a) : (a \o b)[i] = a[i]
        BY Prefixed
      <4>2. Len(b) \in Nat
        BY DEF Text
      <4> DEFINE c == a \o b
      <4>3. c \in Seq(Tokens) /\ Len(c) = Len(a) + Len(b) /\ \A i \in 1..Len(a) : c[i] = a[i]
        BY <4>1 DEF Text
      <4> HIDE DEF c
      <4>4. m \in 1..Len(c) /\ c[m] \in {NL} /\ \A i \in 1..(m - 1) : c[i] \notin {NL}
        BY <3>1, <3>2, <4>2, <4>3
      <4>5. FindFirstOf(c, {NL}) = m
        BY <4>3, <4>4, FindsAt
      <4> QED BY <4>5 DEF c
    <3>6. Upto(a \o b, m) = Upto(a, m) /\ From(a \o b, m + 1) = r \o b
      <4>1. Upto(a \o b, m) = Upto(a, m)
        BY <3>3, PartsOfConcat DEF Text
      <4> DEFINE k == m + 1
      <4>2. k \in 1..(Len(a) + 1)
        BY <3>3
      <4> HIDE DEF k
      <4>3. From(a \o b, k) = From(a, k) \o b
        BY <4>2, PartsOfConcat DEF Text
      <4> QED BY <4>1, <4>3 DEF k
    <3>7. line \in V
      <4>1. Upto(a, m) \in Text
        BY <3>3, Slices DEF Text
      <4> QED BY <4>1, ReadingType
    <3>8. P(a) = line \o P(r)
      <4>1. FindFirstOf(a, {NL}) # 0
        BY <3>2 DEF m
      <4> QED BY <4>1, ParseEquation DEF m
    <3>9. P(a \o b) = line \o P(r \o b)
      <4>1. a \o b \in Text /\ m # 0
        BY <3>2, Prefixed
      <4> QED BY <3>5, <3>6, <4>1, ParseEquation
    <3>10. P(r \o b) = P(r) \o P(b)
      <4>1. Ended(r)
        <5>1. CASE m = Len(a)
          <6>1. Len(r) = 0
            BY <3>1, <3>4, <5>1
          <6> HIDE DEF r
          <6>2. r = <<>>
            BY <3>4, <6>1 DEF Text
          <6> QED BY <6>2 DEF Ended
        <5>2. CASE m # Len(a)
          <6>1. Len(a) - m \in 1..(Len(a) - m) /\ m + (Len(a) - m) = Len(a)
            BY <3>1, <3>2, <5>2
          <6>2. r[Len(r)] = a[Len(a)]
            BY <3>4, <6>1
          <6> HIDE DEF r
          <6> QED BY <3>1, <6>2 DEF Ended
        <5> QED BY <5>1, <5>2
      <4>2. Len(r) < n
        BY <3>3, <3>4
      <4> HIDE DEF r, P
      <4> QED BY <1>4, <3>4, <4>1, <4>2
    <3>11. P(r) \in V /\ P(b) \in V
      BY <1>1, <3>4
    <3> HIDE DEF P, line, r
    <3>12. (line \o P(r)) \o P(b) = line \o (P(r) \o P(b))
      BY <3>7, <3>11, Regroup, SMTT(30)
    <3> QED BY <3>8, <3>9, <3>10, <3>12
  <2> QED BY <2>1, <2>2
<1>5. \A n \in Nat : n \in Right
  <2> HIDE DEF Right
  <2> QED BY <1>3, <1>4, SetInduction
<1>6. \A a \in Text : Len(a) + 1 \in Nat /\ Len(a) < Len(a) + 1
  BY DEF Text
<1> QED BY <1>5, <1>6

-----------------------------------------------------------------------------
\* A line, with its newline, is parsed to what is read of it.
LEMMA ReadsRow ==
    ASSUME NEW l \in Written, NEW service \in Services
    PROVE  /\ Write(service, l) \in Text /\ Len(Write(service, l)) > 5
           /\ Write(service, l)[Len(Write(service, l))] = NL
           /\ ParseLines(service, Write(service, l)) = Parsed(service, l)
           /\ Parsed(service, l) \in Seq(Views)
<1>1. PICK body \in Seq(Ink) :
         /\ Write(service, l) = body \o <<NL>>
         /\ ReadLineOf(service, body) = Parsed(service, l)
         /\ Len(body) > 4
  BY ReadsBack
<1> DEFINE w == body \o <<NL>>
           n == Len(body)
<1>2. body \in Text /\ n \in Nat /\ <<NL>> \in Text /\ Len(<<NL>>) = 1 /\ <<NL>>[1] = NL
  <2>1. Ink \subseteq Tokens /\ NL \in Tokens
    BY Vocabulary DEF Ink
  <2> QED BY <2>1 DEF Text
<1>3. /\ w \in Text /\ Len(w) = n + 1 /\ w[n + 1] = NL /\ \A i \in 1..n : w[i] \in Ink
  <2>1. /\ w \in Seq(Tokens) /\ Len(w) = n + Len(<<NL>>)
        /\ \A i \in 1..(n + Len(<<NL>>)) : w[i] = IF i <= n THEN body[i] ELSE <<NL>>[i - n]
    BY <1>2, ConcatProperties DEF Text
  <2>2. n + 1 \in 1..(n + 1) /\ ~(n + 1 <= n) /\ (n + 1) - n = 1
    BY <1>2
  <2>3. \A i \in 1..n : i \in 1..(n + 1) /\ i <= n /\ body[i] \in Ink
    BY <1>2
  <2> HIDE DEF w, n
  <2> QED BY <1>2, <2>1, <2>2, <2>3 DEF Text
<1>4. FindFirstOf(w, {NL}) = n + 1
  <2> DEFINE m == n + 1
  <2>1. m \in 1..Len(w) /\ w[m] \in {NL} /\ \A i \in 1..(m - 1) : w[i] \notin {NL}
    <3>1. m \in 1..Len(w) /\ m - 1 = n
      BY <1>2, <1>3
    <3>2. \A i \in 1..n : w[i] # NL
      BY <1>3 DEF Ink
    <3> HIDE DEF w, n
    <3> QED BY <1>3, <3>1, <3>2
  <2> HIDE DEF m, w, n
  <2>2. FindFirstOf(w, {NL}) = m
    BY <1>3, <2>1, FindsAt DEF Text
  <2> QED BY <2>2 DEF m
<1>5. Upto(w, n + 1) = body /\ From(w, (n + 1) + 1) = <<>>
  <2>1. Upto(body \o <<NL>>, Len(body) + 1) = body
    BY <1>2, UptoConcat DEF Text
  <2>2. (n + 1) + 1 \in Nat /\ (n + 1) + 1 > Len(w)
    BY <1>2, <1>3
  <2>3. From(w, (n + 1) + 1) = <<>>
    <3> HIDE DEF w, n
    <3> QED BY <1>3, <2>2, FromBeyond DEF Text
  <2> QED BY <2>1, <2>3
<1>6. ParseLines(service, <<>>) = <<>>
  <2>1. <<>> \in Text /\ <<>> \in Seq(Tokens) /\ \A i \in 1..Len(<<>>) : <<>>[i] \notin {NL}
    BY DEF Text
  <2>2. FindFirstOf(<<>>, {NL}) = 0
    BY <2>1, FindsNothing
  <2> QED BY <2>1, <2>2, ParseEquation
<1>7. ParseLines(service, w) = ReadLineOf(service, body) \o <<>>
  <2>1. n + 1 # 0
    BY <1>2
  <2> DEFINE m == n + 1
  <2>2. m # 0 /\ FindFirstOf(w, {NL}) = m /\ Upto(w, m) = body /\ From(w, m + 1) = <<>> /\ w \in Text
    BY <1>3, <1>4, <1>5, <2>1
  <2> HIDE DEF w, m
  <2>3. FindFirstOf(w, {NL}) # 0 =>
          ParseLines(service, w) = ReadLineOf(service, Upto(w, FindFirstOf(w, {NL})))
                \o ParseLines(service, From(w, FindFirstOf(w, {NL}) + 1))
    BY <2>2, ParseEquation
  <2> QED BY <1>6, <2>2, <2>3, Zenon
<1>8. ParseLines(service, w) = Parsed(service, l)
  <2>1. ReadLineOf(service, body) \in Seq(Readings(service))
    BY <1>2, ReadingType
  <2>2. ReadLineOf(service, body) \o <<>> = ReadLineOf(service, body)
    BY <2>1, ConcatEmptySeq
  <2> HIDE DEF w
  <2> QED BY <1>1, <1>7, <2>2
<1>9. Parsed(service, l) \in Seq(Views)
  <2>1. /\ l.user \in Tokens /\ l.time \in Clock /\ l.text \in Text
        /\ Len(Write(service, l)) \in Nat
    <3>1. l.user \in Words /\ l.time \in Clock /\ l.text \in Text
      BY Composed
    <3>2. Len(Write(service, l)) \in Nat
      BY <1>1, <1>2, <1>3
    <3> QED BY <3>1, <3>2, Vocabulary
  <2>2. <<l.user>> \in Text
    BY <2>1 DEF Text
  <2>3. View(service, l) \in Views
    BY <2>1, <2>2 DEF View, Views
  <2> QED BY <2>3 DEF Parsed
<1>10. Len(w) > 5
  BY <1>1, <1>2, <1>3
<1>11. w[Len(w)] = NL
  BY <1>3
<1> HIDE DEF w
<1>12. Write(service, l) = w
  BY <1>1 DEF w
<1> QED BY <1>3, <1>8, <1>9, <1>10, <1>11, <1>12

\* What gempirLogParser and overrustleLogParser read of a log is what was written: each line, in
\* its order, without the notices of gempir.
THEOREM LogReadsBack ==
    ASSUME NEW service \in Services, NEW log \in Seq(Written)
    PROVE  /\ LogLines(service, WriteLog(service, log)) =
                 FlattenSeq([i \in DOMAIN log |-> Parsed(service, log[i])])
           /\ [i \in DOMAIN log |-> Parsed(service, log[i])] \in Seq(Seq(Views))
<1> DEFINE n == Len(log)
           rows == [i \in DOMAIN log |-> Write(service, log[i])]
           parsed == [i \in DOMAIN log |-> Parsed(service, log[i])]
<1>1. DOMAIN log = 1..n /\ n \in Nat /\ \A i \in 1..n : log[i] \in Written
  OBVIOUS
<1>2. ASSUME NEW i \in 1..n
      PROVE  /\ rows[i] \in Text /\ rows[i][Len(rows[i])] = NL /\ Len(rows[i]) > 5
             /\ ParseLines(service, rows[i]) = parsed[i] /\ parsed[i] \in Seq(Views)
  <2>1. rows[i] = Write(service, log[i]) /\ parsed[i] = Parsed(service, log[i]) /\ log[i] \in Written
    BY <1>1
  <2> HIDE DEF rows, parsed
  <2> QED BY <2>1, ReadsRow
<1>3. /\ rows \in Seq(Seq(Tokens)) /\ Len(rows) = n /\ parsed \in Seq(Seq(Views)) /\ Len(parsed) = n
  <2>1. rows = [i \in 1..n |-> rows[i]] /\ parsed = [i \in 1..n |-> parsed[i]]
    BY <1>1
  <2>2. \A i \in 1..n : rows[i] \in Seq(Tokens) /\ parsed[i] \in Seq(Views)
    BY <1>2 DEF Text
  <2> HIDE DEF rows, parsed, n
  <2>3. rows \in [1..n -> Seq(Tokens)] /\ parsed \in [1..n -> Seq(Views)]
    BY <2>1, <2>2, Zenon
  <2> QED BY <1>1, <2>3
<1>4. CASE log = <<>>
  <2>1. parsed = <<>> /\ DOMAIN log = {}
    BY <1>4
  <2>2. LogLines(service, WriteLog(service, log)) = <<>>
    BY <1>4 DEF LogLines, WriteLog
  <2> HIDE DEF parsed
  <2>3. FlattenSeq(parsed) = <<>>
    BY <2>1, FlattenEmpty
  <2> QED BY <1>3, <2>2, <2>3 DEF parsed
<1>5. CASE log # <<>>
  <2>1. n \in 1..n /\ rows # <<>> /\ parsed # <<>>
    <3>1. n # 0
      BY <1>5
    <3>2. Len(rows) # 0 /\ Len(parsed) # 0 /\ n \in 1..n
      BY <1>1, <1>3, <3>1
    <3>3. Len(<<>>) = 0
      OBVIOUS
    <3> HIDE DEF rows, parsed, n
    <3> QED BY <3>2, <3>3
  <2>2. WriteLog(service, log) = FlattenSeq(rows)
    <3>1. CASE service = "gempir"
      <4>1. WriteLog(service, log) = FlattenSeq([i \in DOMAIN log |-> WriteGempir(log[i])])
        BY <1>5, <3>1, Zenon DEF WriteLog
      <4>2. rows = [i \in DOMAIN log |-> WriteGempir(log[i])]
        BY <3>1, Zenon DEF Write
      <4> QED BY <4>1, <4>2, Zenon
    <3>2. CASE service # "gempir"
      <4>1. WriteLog(service, log) = FlattenSeq([i \in DOMAIN log |-> WriteOverrustle(log[i])])
        BY <1>5, <3>2, Zenon DEF WriteLog
      <4>2. rows = [i \in DOMAIN log |-> WriteOverrustle(log[i])]
        BY <3>2, Zenon DEF Write
      <4> QED BY <4>1, <4>2, Zenon
    <3> QED BY <3>1, <3>2
  <2> HIDE DEF rows, parsed, n
  <2>3. PICK run : Flattens(run, rows, Tokens)
    BY <1>3, FlattenRuns
  <2>4. PICK read : Flattens(read, parsed, Views)
    BY <1>3, FlattenRuns
  <2>5. /\ run \in [1..n -> Text] /\ run[1] = rows[1] /\ FlattenSeq(rows) = run[n]
        /\ \A i \in 1..n : i > 1 => run[i] = run[i - 1] \o rows[i]
    BY <1>3, <2>1, <2>3 DEF Flattens, Text
  <2>6. /\ read[1] = parsed[1] /\ FlattenSeq(parsed) = read[n]
        /\ \A i \in 1..n : i > 1 => read[i] = read[i - 1] \o parsed[i]
    BY <1>3, <2>1, <2>4 DEF Flattens
  <2> DEFINE Good(i) == /\ Ended(run[i]) /\ Len(run[i]) > 5
                        /\ ParseLines(service, run[i]) = read[i]
             Right == {i \in Nat : i + 1 \in 1..n => Good(i + 1)}
  <2>7. 0 \in Right
    <3>1. 1 \in 1..n
      BY <1>1, <2>1
    <3>2. Good(1)
      BY <1>2, <2>5, <2>6, <3>1 DEF Ended
    <3>3. 0 + 1 = 1
      OBVIOUS
    <3> HIDE DEF Good
    <3> QED BY <3>2, <3>3
  <2>8. ASSUME NEW i \in Nat, i \in Right PROVE i + 1 \in Right
    <3> DEFINE j == i + 1
               k == j + 1
    <3>1. SUFFICES ASSUME k \in 1..n PROVE Good(k)
      <4> HIDE DEF Good
      <4> QED OBVIOUS
    <3>2. j \in 1..n /\ k > 1 /\ k - 1 = j /\ j \in Nat
      BY <1>1, <3>1
    <3>3. Good(j)
      <4> HIDE DEF Good
      <4> QED BY <2>8, <3>2
    <3> HIDE DEF j, k
    <3>4. run[k] = run[j] \o rows[k] /\ read[k] = read[j] \o parsed[k] /\ run[j] \in Text
      BY <2>5, <2>6, <3>1, <3>2
    <3>5. ParseLines(service, run[k]) = read[k]
      <4>1. rows[k] \in Text /\ ParseLines(service, rows[k]) = parsed[k]
        BY <1>2, <3>1
      <4>2. ParseLines(service, run[j] \o rows[k]) =
               ParseLines(service, run[j]) \o ParseLines(service, rows[k])
        BY <3>3, <3>4, <4>1, ParseJoins
      <4> QED BY <3>3, <3>4, <4>1, <4>2
    <3>6. Ended(run[k]) /\ Len(run[k]) > 5
      <4> DEFINE a == run[j]
                 b == rows[k]
      <4>1. a \in Text /\ b \in Text /\ b[Len(b)] = NL /\ Len(b) > 5
        BY <1>2, <3>1, <3>4
      <4> HIDE DEF a, b
      <4>2. /\ a \o b \in Seq(Tokens) /\ Len(a \o b) = Len(a) + Len(b)
            /\ \A m \in 1..(Len(a) + Len(b)) :
                 (a \o b)[m] = IF m <= Len(a) THEN a[m] ELSE b[m - Len(a)]
        BY <4>1, ConcatProperties DEF Text
      <4>3. Len(a) \in Nat /\ Len(b) \in Nat
        BY <4>1 DEF Text
      <4>4. /\ Len(a) + Len(b) \in 1..(Len(a) + Len(b)) /\ ~(Len(a) + Len(b) <= Len(a))
            /\ (Len(a) + Len(b)) - Len(a) = Len(b) /\ Len(a) + Len(b) > 5
        BY <4>1, <4>3
      <4> DEFINE c == a \o b
                 m == Len(a) + Len(b)
      <4>5. Len(c) = m /\ c[m] = b[Len(b)] /\ m > 5
        BY <4>2, <4>4
      <4> HIDE DEF c, m
      <4>6. run[k] = c
        BY <3>4 DEF a, b, c
      <4> QED BY <4>1, <4>5, <4>6 DEF Ended
    <3> QED BY <3>5, <3>6
  <2>9. \A i \in Nat : i \in Right
    <3> HIDE DEF Right
    <3> QED BY <2>7, <2>8, SetInduction
  <2>10. Good(n)
    <3>1. n - 1 \in Nat /\ (n - 1) + 1 = n
      BY <1>1, <2>1
    <3> HIDE DEF Good
    <3> QED BY <2>1, <2>9, <3>1
  <2>11. WriteLog(service, log) # Failure
    <3>1. Len(Failure) = 1 /\ ~(1 > 5)
      BY DEF Failure
    <3>2. WriteLog(service, log) = run[n] /\ Len(run[n]) > 5
      BY <2>2, <2>5, <2>10
    <3> QED BY <3>1, <3>2, Zenon
  <2>12. LogLines(service, WriteLog(service, log)) = FlattenSeq(parsed)
    BY <2>2, <2>5, <2>6, <2>10, <2>11 DEF LogLines
  <2> QED BY <1>3, <2>12 DEF parsed
<1> QED BY <1>4, <1>5

-----------------------------------------------------------------------------
(* Matches *)

\* A match starts inside the text or right behind it, and there is a first one.
LEMMA Matches ==
    ASSUME NEW q \in Queries, NEW text \in Text
    PROVE  /\ MatchStarts(q, text) \subseteq 1..(Len(text) + 1)
           /\ MatchStarts(q, text) # {} =>
                /\ FirstMatch(q, text) \in MatchStarts(q, text)
                /\ \A i \in MatchStarts(q, text) : FirstMatch(q, text) <= i
<1> DEFINE M == MatchStarts(q, text)
<1>1. Len(text) \in Nat
  BY DEF Text
<1>2. M \subseteq 1..(Len(text) + 1)
  BY <1>1 DEF MatchStarts
<1>3. ASSUME M # {}
      PROVE  \E i \in M : \A j \in M : i <= j
  <2>1. M \subseteq Nat
    BY <1>1, <1>2
  <2> HIDE DEF M
  <2> QED BY <1>3, <2>1, MinIsLeast
<1>4. FirstMatch(q, text) = CHOOSE i \in M : \A j \in M : i <= j
  BY DEF FirstMatch
<1> HIDE DEF M
<1>5. ASSUME M # {}
      PROVE  FirstMatch(q, text) \in M /\ \A j \in M : FirstMatch(q, text) <= j
  BY <1>3, <1>4, <1>5, Zenon
<1> QED BY <1>2, <1>5 DEF M

\* The match that is taken at a place is one of the words that match there.
LEMMA LongestMatch ==
    ASSUME NEW q \in Queries, NEW text \in Text, NEW i \in Nat, NEW w \in q.words, MatchesAt(q, text, i, w)
    PROVE  \E v \in q.words : MatchesAt(q, text, i, v) /\ MatchLength(q, text, i) = Len(v)
<1> DEFINE P(v) == MatchesAt(q, text, i, v)
           Best(v) == P(v) /\ \A u \in q.words : P(u) => Len(u) <= Len(v)
           Room(v) == Len(text) + 1 - Len(v)
           I == {Room(v) : v \in {v \in q.words : P(v)}}
<1>1. Len(text) \in Nat /\ \A v \in q.words : Len(v) \in Nat
  BY QueriesAssumption DEF Text
<1>2. \A v \in q.words : P(v) => Room(v) \in Nat
  <2> TAKE v \in q.words
  <2> HAVE P(v)
  <2>1. i + Len(v) - 1 <= Len(text)
    BY DEF MatchesAt
  <2> QED BY <1>1, <2>1
<1>3. Room(w) \in I
  OBVIOUS
<1>4. Min(I) \in I /\ \A y \in I : Min(I) <= y
  <2>1. I \subseteq Nat /\ I # {}
    BY <1>2, <1>3
  <2> HIDE DEF I
  <2> QED BY <2>1, MinIsLeast
<1>5. PICK v \in q.words : P(v) /\ Min(I) = Room(v)
  BY <1>4
<1>6. Best(v)
  <2>1. ASSUME NEW u \in q.words, P(u) PROVE Len(u) <= Len(v)
    <3>1. Room(u) \in I
      BY <2>1
    <3>2. Room(v) <= Room(u)
      BY <1>4, <1>5, <3>1
    <3> QED BY <1>1, <3>2
  <2> QED BY <1>5, <2>1
<1>7. MatchLength(q, text, i) = Len(CHOOSE u \in q.words : Best(u))
  BY DEF MatchLength
<1> HIDE DEF P
<1>8. \E u \in q.words : P(u) /\ MatchLength(q, text, i) = Len(u)
  BY <1>6, <1>7
<1> QED BY <1>8 DEF P

\* The search goes on in a text.
LEMMA AfterMatchIsText ==
    ASSUME NEW q \in Queries, NEW text \in Text, MatchStarts(q, text) # {}
    PROVE  AfterMatch(q, text) \in Text
<1> DEFINE i == FirstMatch(q, text)
           n == IF q.regex THEN MatchLength(q, text, i) ELSE 1
<1>1. i \in MatchStarts(q, text) /\ i \in 1..(Len(text) + 1)
  BY Matches
<1>2. n \in Nat
  <2>1. PICK w \in q.words : MatchesAt(q, text, i, w)
    BY <1>1 DEF MatchStarts
  <2>2. i \in Nat
    BY <1>1 DEF Text
  <2>3. \E v \in q.words : MatchLength(q, text, i) = Len(v)
    BY <2>1, <2>2, LongestMatch
  <2>4. \A v \in q.words : Len(v) \in Nat
    BY QueriesAssumption DEF Text
  <2> QED BY <2>3, <2>4
<1>3. AfterMatch(q, text) = From(text, i + n)
  BY DEF AfterMatch
<1> HIDE DEF i, n
<1>4. i + n \in Nat \ {0} /\ text \in Seq(Tokens) /\ Len(text) \in Nat
  BY <1>1, <1>2 DEF Text
<1>5. From(text, i + n) \in Seq(Tokens)
  <2>1. CASE i + n <= Len(text) + 1
    <3>1. i + n \in 1..(Len(text) + 1)
      BY <1>4, <2>1
    <3> QED BY <1>4, <3>1, Slices
  <2>2. CASE i + n > Len(text) + 1
    <3>1. From(text, i + n) = <<>>
      BY <1>4, <2>2, FromBeyond
    <3>2. <<>> \in Seq(Tokens)
      OBVIOUS
    <3> QED BY <3>1, <3>2
  <2> QED BY <1>4, <2>1, <2>2
<1> QED BY <1>3, <1>5 DEF Text

\* A match in what follows a place is a match in the text.
LEMMA StartsAfter ==
    ASSUME NEW q \in Queries, NEW text \in Text, NEW n \in 0..Len(text), NEW j \in Nat \ {0}
    PROVE  j \in MatchStarts(q, From(text, n + 1)) <=> n + j \in MatchStarts(q, text)
<1> DEFINE after == From(text, n + 1)
           m == Len(text)
<1>1. m \in Nat /\ text \in Seq(Tokens) /\ n + 1 \in 1..(m + 1)
  BY DEF Text
<1>2. Len(after) = m - n /\ \A i \in 1..(m - n) : after[i] = text[n + i]
  <2>1. /\ Len(after) = Len(text) - (n + 1) + 1
        /\ \A i \in 1..(Len(text) - (n + 1) + 1) : after[i] = text[(n + 1) - 1 + i]
    BY <1>1, Slices, ZenonT(60)
  <2>2. Len(text) - (n + 1) + 1 = m - n /\ (n + 1) - 1 = n
    BY <1>1
  <2> HIDE DEF after
  <2> QED BY <2>1, <2>2
<1> HIDE DEF after
<1>3. ASSUME NEW w \in q.words
      PROVE  MatchesAt(q, after, j, w) <=> MatchesAt(q, text, n + j, w)
  <2>1. w \in Seq(Tokens) /\ Len(w) \in Nat /\ DOMAIN w = 1..Len(w)
    BY QueriesAssumption DEF Text
  <2>2. j + Len(w) - 1 <= Len(after) <=> n + j + Len(w) - 1 <= m
    BY <1>1, <1>2, <2>1
  <2>3. ASSUME j + Len(w) - 1 <= m - n, NEW k \in DOMAIN w
        PROVE  after[j + k - 1] = text[n + j + k - 1]
    <3>1. j + k - 1 \in 1..(m - n) /\ n + (j + k - 1) = n + j + k - 1
      BY <1>1, <2>1, <2>3
    <3> QED BY <1>2, <3>1
  <2>4. ASSUME j + Len(w) - 1 <= Len(after)
        PROVE  \A k \in DOMAIN w : Same(q, after[j + k - 1], w[k]) <=> Same(q, text[n + j + k - 1], w[k])
    BY <1>2, <2>3, <2>4
  <2> QED BY <2>2, <2>4, Zenon DEF MatchesAt
<1>4. j \in 1..(Len(after) + IF q.regex THEN 1 ELSE 0) <=> n + j \in 1..(m + IF q.regex THEN 1 ELSE 0)
  BY <1>1, <1>2
<1> QED BY <1>3, <1>4, Zenon DEF MatchStarts, after

\* The matches of a text are finitely many.
LEMMA StartsAreFinite ==
    ASSUME NEW q \in Queries, NEW text \in Text
    PROVE  /\ IsFiniteSet(MatchStarts(q, text)) /\ Cardinality(MatchStarts(q, text)) \in Nat
           /\ Cardinality(MatchStarts(q, text)) <= Len(text) + 1
           /\ MatchStarts(q, text) \subseteq Nat \ {0}
<1> DEFINE M == MatchStarts(q, text)
           n == Len(text) + 1
<1>1. M \subseteq 1..n /\ n \in Nat
  BY Matches DEF Text
<1>2. IsFiniteSet(1..n) /\ Cardinality(1..n) = n
  BY <1>1, FS_Interval
<1> HIDE DEF n
<1>3. M \subseteq Nat \ {0}
  BY <1>1
<1> HIDE DEF M
<1>4. IsFiniteSet(M) /\ Cardinality(M) <= n
  BY <1>1, <1>2, FS_Subset
<1>5. Cardinality(M) \in Nat
  BY <1>4, FS_CardinalityType
<1> QED BY <1>3, <1>4, <1>5 DEF M, n

\* Of a plain target: behind the first match there is one less.
LEMMA PlainOccurrences ==
    ASSUME NEW q \in Queries, ~q.regex, NEW text \in Text, MatchStarts(q, text) # {}
    PROVE  Cardinality(MatchStarts(q, text)) =
                Cardinality(MatchStarts(q, AfterMatch(q, text))) + 1
<1> DEFINE M == MatchStarts(q, text)
           i == FirstMatch(q, text)
           after == From(text, i + 1)
           A == MatchStarts(q, after)
<1>1. AfterMatch(q, text) = after
  BY DEF AfterMatch
<1>2. i \in M /\ \A j \in M : i <= j
  BY Matches
<1>3. i \in 0..Len(text) /\ Len(text) \in Nat /\ i \in Nat
  BY <1>2 DEF MatchStarts, Text
<1>4. after \in Text
  BY <1>1, AfterMatchIsText
<1>5. IsFiniteSet(M) /\ M \subseteq Nat \ {0} /\ IsFiniteSet(A) /\ A \subseteq Nat \ {0} /\ Cardinality(A) \in Nat
  BY <1>4, StartsAreFinite
<1>6. \A j \in Nat \ {0} : j \in A <=> i + j \in M
  <2> TAKE j \in Nat \ {0}
  <2> QED BY <1>3, StartsAfter
<1> HIDE DEF A, M, i
<1> DEFINE B == {a + i : a \in A}
<1>7. IsFiniteSet(B) /\ Cardinality(B) = Cardinality(A)
  <2>1. A \subseteq Int /\ i \in Int
    BY <1>3, <1>5
  <2> QED BY <1>5, <2>1, Shifted
<1>8. i \notin B
  BY <1>3, <1>5
<1>9. M = B \union {i}
  <2>1. ASSUME NEW x \in M PROVE x \in B \union {i}
    <3>1. CASE x = i
      BY <3>1
    <3>2. CASE x # i
      <4>1. x - i \in Nat \ {0} /\ i + (x - i) = x /\ (x - i) + i = x
        BY <1>2, <1>3, <1>5, <3>2
      <4>2. x - i \in A
        BY <1>6, <4>1
      <4> QED BY <4>1, <4>2
    <3> QED BY <3>1, <3>2
  <2>2. ASSUME NEW x \in B PROVE x \in M
    <3>1. PICK a \in A : x = a + i
      OBVIOUS
    <3>2. a \in Nat \ {0} /\ i + a = x
      BY <1>3, <1>5, <3>1
    <3> QED BY <1>6, <3>2
  <2> HIDE DEF B
  <2> QED BY <1>2, <2>1, <2>2
<1> HIDE DEF B
<1>10. Cardinality(M) = Cardinality(B) + 1
  BY <1>7, <1>8, <1>9, FS_AddElement
<1> QED BY <1>1, <1>7, <1>10 DEF M, A

Apart(S, length) == \A i, j \in S : i < j => i + length <= j
LengthOf == Len(CHOOSE w \in query.words : TRUE)

\* Disjoint is the greatest number of matches that do not overlap.
LEMMA DisjointIs ==
    ASSUME query \in Queries, NEW text \in Text
    PROVE  /\ Disjoint(text) \in Nat
           /\ \E S \in SUBSET MatchStarts(query, text) : Apart(S, LengthOf) /\ Cardinality(S) = Disjoint(text)
           /\ \A S \in SUBSET MatchStarts(query, text) : Apart(S, LengthOf) => Cardinality(S) <= Disjoint(text)
<1> DEFINE M == MatchStarts(query, text)
           C == {Cardinality(S) : S \in {S \in SUBSET M : Apart(S, LengthOf)}}
           b == Len(text) + 1
<1>1. Disjoint(text) = Max(C)
  BY DEF Disjoint, Apart, LengthOf
<1>2. IsFiniteSet(M) /\ Cardinality(M) \in Nat /\ Cardinality(M) <= b /\ b \in Nat
  BY StartsAreFinite DEF Text
<1>3. ASSUME NEW S \in SUBSET M PROVE Cardinality(S) \in 0..b
  <2> HIDE DEF M
  <2>1. IsFiniteSet(S) /\ Cardinality(S) <= Cardinality(M)
    BY <1>2, FS_Subset
  <2>2. Cardinality(S) \in Nat
    BY <2>1, FS_CardinalityType
  <2> HIDE DEF b
  <2> QED BY <1>2, <2>1, <2>2
<1> HIDE DEF b, M
<1>4. C \subseteq 0..b
  BY <1>3
<1>5. C # {}
  <2>1. {} \in SUBSET M /\ Apart({}, LengthOf)
    BY DEF Apart
  <2> QED BY <2>1
<1>6. Max(C) \in C /\ \A y \in C : y <= Max(C)
  <2> HIDE DEF C
  <2> QED BY <1>2, <1>4, <1>5, MaxIsGreatest
<1>7. Max(C) \in Nat
  <2> HIDE DEF C
  <2>1. Max(C) \in 0..b
    BY <1>4, <1>6
  <2> QED BY <1>2, <2>1
<1>8. \A S \in SUBSET M : Apart(S, LengthOf) => Cardinality(S) <= Max(C)
  BY <1>6
<1>9. \E S \in SUBSET M : Apart(S, LengthOf) /\ Cardinality(S) = Max(C)
  BY <1>6
<1> HIDE DEF C
<1> QED BY <1>1, <1>7, <1>8, <1>9 DEF M

\* Of a regex whose words have one length: the match that is counted is one more than what can be
\* had of the text behind it.
LEMMA RegexOccurrences ==
    ASSUME query \in Queries, query.regex, OneLength, NEW text \in Text, MatchStarts(query, text) # {}
    PROVE  Disjoint(text) = Disjoint(AfterMatch(query, text)) + 1
<1> DEFINE M == MatchStarts(query, text)
           i == FirstMatch(query, text)
           L == LengthOf
           n == i + L - 1
           after == From(text, n + 1)
           A == MatchStarts(query, after)
           D == Disjoint(text)
           d == Disjoint(after)
<1>1. \A w \in query.words : Len(w) = L /\ Len(w) \in Nat \ {0}
  <2>1. query.words # {} /\ (\A v, w \in query.words : Len(v) = Len(w)) /\ <<>> \notin query.words
        /\ query.words \subseteq Text
    BY QueriesAssumption DEF OneLength
  <2>2. (CHOOSE w \in query.words : TRUE) \in query.words
    BY <2>1
  <2>3. ASSUME NEW w \in query.words PROVE Len(w) \in Nat \ {0}
    <3>1. w \in Seq(Tokens) \ {<<>>}
      BY <2>1 DEF Text
    <3> QED BY <3>1, NotEmpty
  <2> QED BY <2>1, <2>2, <2>3, Zenon DEF LengthOf
<1>2. i \in M /\ \A j \in M : i <= j
  BY Matches
<1>3. PICK w \in query.words : MatchesAt(query, text, i, w)
  BY <1>2 DEF MatchStarts
<1>4. i \in Nat \ {0} /\ Len(text) \in Nat /\ L \in Nat \ {0}
  <2>1. M \subseteq Nat \ {0}
    BY StartsAreFinite
  <2>2. L \in Nat \ {0}
    BY <1>1, <1>3
  <2> HIDE DEF M, L, i
  <2> QED BY <1>2, <2>1, <2>2 DEF Text
<1>5. i + L - 1 <= Len(text)
  BY <1>1, <1>3 DEF MatchesAt
<1>6. n \in 0..Len(text) /\ n \in Nat
  <2> HIDE DEF L, i
  <2> QED BY <1>4, <1>5
<1>7. AfterMatch(query, text) = after
  <2>1. \E v \in query.words : MatchLength(query, text, i) = Len(v)
    BY <1>3, <1>4, LongestMatch
  <2>2. MatchLength(query, text, i) = L
    BY <1>1, <2>1
  <2>3. AfterMatch(query, text) = From(text, i + MatchLength(query, text, i))
    BY DEF AfterMatch
  <2> HIDE DEF L, i
  <2>4. i + L = n + 1
    BY <1>4
  <2> QED BY <2>2, <2>3, <2>4
<1>8. after \in Text
  BY <1>7, AfterMatchIsText
<1>9. \A j \in Nat \ {0} : j \in A <=> n + j \in M
  <2> TAKE j \in Nat \ {0}
  <2> QED BY <1>6, StartsAfter
<1>10. /\ IsFiniteSet(M) /\ M \subseteq Nat \ {0}
       /\ IsFiniteSet(A) /\ A \subseteq Nat \ {0}
  BY <1>8, StartsAreFinite
<1>11. /\ D \in Nat
       /\ \E S \in SUBSET M : Apart(S, L) /\ Cardinality(S) = D
       /\ \A S \in SUBSET M : Apart(S, L) => Cardinality(S) <= D
  BY DisjointIs
<1>12. /\ d \in Nat
       /\ \E S \in SUBSET A : Apart(S, L) /\ Cardinality(S) = d
       /\ \A S \in SUBSET A : Apart(S, L) => Cardinality(S) <= d
  BY <1>8, DisjointIs
<1>13. n = i + L - 1
  OBVIOUS
<1> HIDE DEF M, i, L, n, after, A, D, d
<1>14. d + 1 <= D
  <2>1. PICK S \in SUBSET A : Apart(S, L) /\ Cardinality(S) = d
    BY <1>12
  <2> DEFINE B == {a + n : a \in S}
             C == B \union {i}
  <2>2. IsFiniteSet(S)
    BY <1>10, FS_Subset
  <2>3. S \subseteq Int /\ n \in Int
    BY <1>6, <1>10
  <2>4. IsFiniteSet(B) /\ Cardinality(B) = d
    BY <2>1, <2>2, <2>3, Shifted
  <2>5. \A x \in B : x \in M /\ x >= i + L /\ x \in Nat
    <3>1. ASSUME NEW a \in S PROVE a + n \in M /\ a + n >= i + L /\ a + n \in Nat
      <4>1. a \in Nat \ {0} /\ a \in A /\ a + n = n + a
        BY <1>6, <1>10
      <4> QED BY <1>4, <1>6, <1>9, <1>13, <4>1
    <3> QED BY <3>1
  <2>6. i \notin B
    <3>1. ~(i >= i + L)
      BY <1>4
    <3> HIDE DEF B
    <3> QED BY <2>5, <3>1
  <2>7. Apart(B, L)
    <3>1. ASSUME NEW a \in S, NEW b \in S, a + n < b + n PROVE a + n + L <= b + n
      <4>1. a \in Nat /\ b \in Nat
        BY <1>10
      <4>2. a < b
        BY <1>6, <3>1, <4>1
      <4>3. a + L <= b
        BY <2>1, <4>2 DEF Apart
      <4> QED BY <1>4, <1>6, <4>1, <4>3
    <3> QED BY <3>1 DEF Apart
  <2> HIDE DEF B
  <2>8. Apart(C, L)
    <3> SUFFICES ASSUME NEW x \in C, NEW y \in C, x < y PROVE x + L <= y
      BY DEF Apart
    <3>1. CASE y = i
      <4>1. x = i \/ (x >= i + L /\ x \in Nat)
        BY <2>5
      <4> QED BY <1>4, <3>1, <4>1
    <3>2. CASE y # i /\ x = i
      BY <2>5, <3>2
    <3>3. CASE y # i /\ x # i
      BY <2>7, <3>3 DEF Apart
    <3> QED BY <3>1, <3>2, <3>3
  <2>9. C \in SUBSET M
    BY <1>2, <2>5
  <2>10. Cardinality(C) = d + 1
    BY <2>4, <2>6, FS_AddElement
  <2> HIDE DEF C
  <2> QED BY <1>11, <2>8, <2>9, <2>10
<1>15. D <= d + 1
  <2>1. PICK S \in SUBSET M : Apart(S, L) /\ Cardinality(S) = D
    BY <1>11
  <2>2. IsFiniteSet(S) /\ S \subseteq Nat
    BY <1>10, FS_Subset
  <2>3. CASE S = {}
    BY <1>11, <1>12, <2>1, <2>3, FS_EmptySet
  <2>4. CASE S # {}
    <3> DEFINE m == Min(S)
               R == S \ {m}
               k == 0 - n
               B == {a + k : a \in R}
    <3>1. m \in S /\ \A y \in S : m <= y
      BY <2>2, <2>4, MinIsLeast
    <3> HIDE DEF m
    <3>2. IsFiniteSet(R) /\ Cardinality(R) = D - 1
      BY <2>1, <2>2, <3>1, FS_RemoveElement
    <3>3. R \subseteq Int /\ k \in Int
      <4>1. k \in Int
        BY <1>6
      <4>2. \A x \in R : x \in Int
        BY <2>2
      <4> HIDE DEF k, R
      <4> QED BY <4>1, <4>2
    <3>4. \A a \in R : a \in S /\ a \in Nat /\ a + k \in Nat \ {0} /\ n + (a + k) = a
      <4> TAKE a \in R
      <4>1. a \in S /\ a \in Nat /\ a # m /\ m <= a /\ m \in Nat
        BY <2>2, <3>1
      <4>2. m < a
        BY <4>1
      <4>3. m + L <= a
        BY <2>1, <3>1, <4>1, <4>2 DEF Apart
      <4>4. i <= m
        BY <1>2, <3>1
      <4> QED BY <1>4, <1>6, <1>13, <4>1, <4>3, <4>4
    <3> HIDE DEF R
    <3>5. IsFiniteSet(B) /\ Cardinality(B) = D - 1
      <4> HIDE DEF k
      <4>1. IsFiniteSet(B) /\ Cardinality(B) = Cardinality(R)
        BY <3>2, <3>3, Shifted
      <4> QED BY <3>2, <4>1
    <3>6. B \in SUBSET A
      <4>1. ASSUME NEW a \in R PROVE a + k \in A
        <5>1. a \in M
          BY <3>4
        <5> HIDE DEF k
        <5> QED BY <1>9, <3>4, <5>1
      <4> HIDE DEF k
      <4> QED BY <4>1
    <3>7. Apart(B, L)
      <4>1. ASSUME NEW a \in R, NEW b \in R, a + k < b + k PROVE a + k + L <= b + k
        <5>1. a \in Nat /\ b \in Nat /\ a \in S /\ b \in S
          BY <3>4
        <5>2. a < b
          BY <1>6, <4>1, <5>1
        <5>3. a + L <= b
          BY <2>1, <5>1, <5>2 DEF Apart
        <5> QED BY <1>4, <1>6, <5>1, <5>3
      <4> HIDE DEF k
      <4> QED BY <4>1 DEF Apart
    <3> HIDE DEF B
    <3>8. D - 1 <= d
      BY <1>12, <3>5, <3>6, <3>7
    <3> QED BY <1>11, <1>12, <3>8
  <2> QED BY <2>3, <2>4
<1>16. D = d + 1
  BY <1>11, <1>12, <1>14, <1>15
<1> QED BY <1>7, <1>16 DEF D, d

\* A turn of the loop counts one of the occurrences that are left.
LEMMA CountedOff ==
    ASSUME query \in Queries, query.regex => OneLength, NEW text \in Text
    PROVE  /\ Occurrences(text) \in Nat
           /\ MatchStarts(query, text) = {} => Occurrences(text) = 0
           /\ MatchStarts(query, text) # {} =>
                Occurrences(text) = Occurrences(AfterMatch(query, text)) + 1
<1>1. CASE query.regex
  <2>1. \A t : Occurrences(t) = Disjoint(t)
    BY <1>1 DEF Occurrences
  <2>2. MatchStarts(query, text) = {} => Disjoint(text) = 0
    <3> HAVE MatchStarts(query, text) = {}
    <3>1. PICK S \in SUBSET MatchStarts(query, text) : Cardinality(S) = Disjoint(text)
      BY DisjointIs
    <3>2. S = {}
      OBVIOUS
    <3> QED BY <3>1, <3>2, FS_EmptySet
  <2>3. Disjoint(text) \in Nat
    BY DisjointIs
  <2> QED BY <1>1, <2>1, <2>2, <2>3, RegexOccurrences
<1>2. CASE ~query.regex
  <2>1. \A t : Occurrences(t) = Cardinality(MatchStarts(query, t))
    BY <1>2 DEF Occurrences
  <2>2. Cardinality(MatchStarts(query, text)) \in Nat /\ Cardinality({}) = 0
    BY StartsAreFinite, FS_EmptySet
  <2> QED BY <1>2, <2>1, <2>2, PlainOccurrences
<1> QED BY <1>1, <1>2

=============================================================================
