----------------------------- MODULE TextLemmas -----------------------------
(***************************************************************************)
(* Lemmas on texts, sequences and sums for the proofs about what the bot   *)
(* reads and answers.                                                      *)
(*                                                                         *)
(* Many functions of the bot are loops over a text, which are recursive    *)
(* functions here.  That such a function exists and obeys its equation     *)
(* (Recursion), and induction over Nat (SetInduction), are stated with     *)
(* sets and functions instead of operators.                                *)
(***************************************************************************)
EXTENDS Strings, FiniteSetTheorems, SequenceTheorems, WellFoundedInduction, TLAPS

-----------------------------------------------------------------------------
(* Natural numbers, induction and recursion *)

LEMMA MinIsLeast ==
    ASSUME NEW I, I \subseteq Nat, I # {}
    PROVE  Min(I) \in I /\ \A y \in I : Min(I) <= y
<1>1. PICK x \in I : \A y \in I : ~ (<<y, x>> \in OpToRel(<, Nat))
  BY WFMin, NatLessThanWellFounded
<1>2. \A y \in I : x <= y
  <2> TAKE y \in I
  <2>1. CASE y < x
    <3>1. <<y, x>> \in OpToRel(<, Nat)
      BY <2>1, Zenon DEF OpToRel
    <3> QED BY <1>1, <3>1
  <2>2. CASE ~(y < x)
    BY <2>2
  <2> QED BY <2>1, <2>2
<1> QED BY <1>2 DEF Min

\* Induction without an operator: over the set of the numbers that have the property.
LEMMA SetInduction ==
    ASSUME NEW S, 0 \in S, \A n \in Nat : n \in S => n + 1 \in S
    PROVE  \A n \in Nat : n \in S
<1> DEFINE T == Nat \ S
<1> SUFFICES ASSUME T # {} PROVE FALSE
  OBVIOUS
<1>1. T \subseteq Nat /\ \A n \in Nat : n \notin T => n \in S
  OBVIOUS
<1> HIDE DEF T
<1>2. Min(T) \in T /\ \A y \in T : Min(T) <= y
  BY <1>1, MinIsLeast
<1>3. Min(T) \in Nat /\ Min(T) \notin S
  BY <1>1, <1>2 DEF T
<1>4. Min(T) # 0 /\ Min(T) - 1 \in Nat /\ Min(T) - 1 \notin T /\ (Min(T) - 1) + 1 = Min(T)
  BY <1>2, <1>3
<1> QED BY <1>1, <1>3, <1>4

\* A function that calls itself on smaller arguments exists, and has the type its equation says.
Recursive(S, V, size, stop, base, next, step) ==
    /\ size \in [S -> Nat] /\ stop \in SUBSET S /\ base \in [S -> V]
    /\ next \in [S -> S] /\ step \in [S \X V -> V]
    /\ \A x \in S \ stop : size[next[x]] < size[x]
Computable(S, V, stop, base, next, step) ==
    \E f \in [S -> V] : \A x \in S :
        f[x] = IF x \in stop THEN base[x] ELSE step[<<x, f[next[x]]>>]
Obeys(f, S, V, stop, base, next, step) ==
    \A x \in S :
        /\ x \in stop => f[x] = base[x]
        /\ x \notin stop /\ f[next[x]] \in V => f[x] = step[<<x, f[next[x]]>>]

LEMMA Recursion ==
    ASSUME NEW S, NEW V, NEW size, NEW stop, NEW base, NEW next, NEW step,
           Recursive(S, V, size, stop, base, next, step)
    PROVE  Computable(S, V, stop, base, next, step)
<1> USE DEF Recursive
<1> DEFINE Unfold(f, x) == IF x \in stop THEN base[x] ELSE step[<<x, f[next[x]]>>]
           Good(f, n) == f \in [S -> V] /\ \A x \in S : size[x] < n => f[x] = Unfold(f, x)
           Some == {n \in Nat : \E f : Good(f, n)}
           One == {n \in Nat : \A f, g : Good(f, n) /\ Good(g, n) =>
                                  \A x \in S : size[x] < n => f[x] = g[x]}
<1>1. \A n \in Nat : n \in Some
  <2>1. 0 \in Some
    <3>1. \A x \in S : size[x] \in Nat /\ ~(size[x] < 0)
      OBVIOUS
    <3>2. Good(base, 0)
      BY <3>1
    <3> QED BY <3>2
  <2>2. ASSUME NEW n \in Nat, n \in Some PROVE n + 1 \in Some
    <3>1. PICK f : Good(f, n)
      BY <2>2
    <3> DEFINE g == [x \in S |-> Unfold(f, x)]
    <3>2. g \in [S -> V]
      BY <3>1
    <3>3. ASSUME NEW x \in S, size[x] < n + 1 PROVE g[x] = Unfold(g, x)
      <4>1. CASE x \in stop
        BY <4>1
      <4>2. CASE x \notin stop
        <5>1. next[x] \in S /\ size[next[x]] < n
          BY <4>2, <3>3
        <5>2. g[next[x]] = f[next[x]]
          BY <5>1, <3>1
        <5> QED BY <5>2, <4>2
      <4> QED BY <4>1, <4>2
    <3>4. Good(g, n + 1)
      BY <3>2, <3>3
    <3> HIDE DEF Good, g
    <3> QED BY <3>4
  <2> HIDE DEF Some
  <2> QED BY <2>1, <2>2, SetInduction
<1>2. \A n \in Nat : n \in One
  <2>1. 0 \in One
    <3>1. \A x \in S : size[x] \in Nat /\ ~(size[x] < 0)
      OBVIOUS
    <3> HIDE DEF Good
    <3> QED BY <3>1
  <2>2. ASSUME NEW n \in Nat, n \in One PROVE n + 1 \in One
    <3> SUFFICES ASSUME NEW f, NEW g, Good(f, n + 1), Good(g, n + 1),
                        NEW x \in S, size[x] < n + 1
                 PROVE  f[x] = g[x]
      <4> HIDE DEF Good
      <4> QED OBVIOUS
    <3>1. Good(f, n) /\ Good(g, n)
      <4>1. \A z \in S : size[z] \in Nat /\ (size[z] < n => size[z] < n + 1)
        OBVIOUS
      <4> QED BY <4>1
    <3>2. CASE x \in stop
      BY <3>2
    <3>3. CASE x \notin stop
      <4>1. next[x] \in S /\ size[next[x]] < n
        BY <3>3
      <4>2. f[next[x]] = g[next[x]]
        <5> HIDE DEF Good
        <5> QED BY <4>1, <3>1, <2>2
      <4> QED BY <4>2, <3>3
    <3> QED BY <3>2, <3>3
  <2> HIDE DEF One
  <2> QED BY <2>1, <2>2, SetInduction
<1> DEFINE F == [n \in Nat |-> CHOOSE f : Good(f, n)]
           h == [x \in S |-> F[size[x] + 1][x]]
<1>3. \A n \in Nat : Good(F[n], n)
  <2> HIDE DEF Good
  <2> QED BY <1>1
<1>4. \A x \in S : size[x] + 1 \in Nat /\ size[x] < size[x] + 1
  OBVIOUS
<1>5. h \in [S -> V]
  <2> HIDE DEF F
  <2> QED BY <1>3, <1>4
<1>6. ASSUME NEW x \in S PROVE h[x] = Unfold(h, x)
  <2>1. h[x] = Unfold(F[size[x] + 1], x)
    <3> HIDE DEF F
    <3> QED BY <1>3, <1>4
  <2>2. CASE x \in stop
    BY <2>1, <2>2
  <2>3. CASE x \notin stop
    <3> DEFINE y == next[x]
    <3>1. y \in S /\ size[y] < size[x] /\ size[y] + 1 \in Nat /\ size[x] + 1 \in Nat
      BY <2>3
    <3>2. Good(F[size[x] + 1], size[y] + 1) /\ Good(F[size[y] + 1], size[y] + 1)
      <4>1. Good(F[size[x] + 1], size[x] + 1) /\ Good(F[size[y] + 1], size[y] + 1)
        BY <1>3, <3>1
      <4>2. \A z \in S : size[z] < size[y] + 1 => size[z] < size[x] + 1
        BY <3>1
      <4> HIDE DEF F
      <4> QED BY <4>1, <4>2
    <3>3. F[size[x] + 1][y] = F[size[y] + 1][y]
      <4>1. size[y] < size[y] + 1
        BY <3>1
      <4>2. size[y] + 1 \in One
        BY <3>1, <1>2
      <4> HIDE DEF F, Good
      <4> QED BY <3>1, <3>2, <4>1, <4>2
    <3>4. h[y] = F[size[x] + 1][y]
      <4>1. \A z \in S : h[z] = F[size[z] + 1][z]
        <5> HIDE DEF F
        <5> QED OBVIOUS
      <4> HIDE DEF F, h, y
      <4> QED BY <3>1, <3>3, <4>1
    <3> HIDE DEF F, h
    <3> QED BY <2>1, <2>3, <3>4
  <2> QED BY <2>2, <2>3
<1> QED BY <1>5, <1>6 DEF Computable

LEMMA RecursionType ==
    ASSUME NEW S, NEW V, NEW size, NEW stop, NEW base, NEW next, NEW step, NEW f,
           Recursive(S, V, size, stop, base, next, step),
           Obeys(f, S, V, stop, base, next, step)
    PROVE  \A x \in S : f[x] \in V
<1> DEFINE Typed == {n \in Nat : \A x \in S : size[x] < n => f[x] \in V}
<1>1. 0 \in Typed
  BY DEF Recursive
<1>2. ASSUME NEW n \in Nat, n \in Typed PROVE n + 1 \in Typed
  <2> SUFFICES ASSUME NEW x \in S, size[x] < n + 1 PROVE f[x] \in V
    OBVIOUS
  <2>1. CASE x \in stop
    BY <2>1 DEF Recursive, Obeys
  <2>2. CASE x \notin stop
    <3>1. next[x] \in S /\ size[next[x]] < n
      BY <2>2 DEF Recursive
    <3>2. f[next[x]] \in V
      BY <3>1, <1>2
    <3> QED BY <2>2, <3>2 DEF Recursive, Obeys
  <2> QED BY <2>1, <2>2
<1>3. \A n \in Nat : n \in Typed
  <2> HIDE DEF Typed
  <2> QED BY <1>1, <1>2, SetInduction
<1>4. \A x \in S : size[x] + 1 \in Nat /\ size[x] < size[x] + 1
  BY DEF Recursive
<1> QED BY <1>3, <1>4

-----------------------------------------------------------------------------
(* Positions and parts of texts *)

LEMMA FindsFirst ==
    ASSUME NEW T, NEW text \in Seq(T), NEW S
    PROVE  /\ FindFirstOf(text, S) \in 0..Len(text)
           /\ FindFirstOf(text, S) = 0 => \A i \in 1..Len(text) : text[i] \notin S
           /\ FindFirstOf(text, S) # 0 =>
                /\ text[FindFirstOf(text, S)] \in S
                /\ \A i \in 1..(FindFirstOf(text, S) - 1) : text[i] \notin S
<1> DEFINE I == {i \in 1..Len(text) : text[i] \in S}
<1>1. FindFirstOf(text, S) = IF I # {} THEN Min(I) ELSE 0
  BY DEF FindFirstOf, SelectInSeq
<1>2. I \subseteq 1..Len(text) /\ \A i \in 1..Len(text) : i \in I <=> text[i] \in S
  OBVIOUS
<1> HIDE DEF I
<1>3. CASE I = {}
  BY <1>1, <1>2, <1>3
<1>4. CASE I # {}
  <2> DEFINE m == Min(I)
  <2>1. m \in I /\ \A y \in I : m <= y
    <3>1. I \subseteq Nat
      BY <1>2
    <3> QED BY <1>4, <3>1, MinIsLeast
  <2>2. FindFirstOf(text, S) = m
    BY <1>1, <1>4
  <2> HIDE DEF m
  <2> QED BY <1>2, <2>1, <2>2
<1> QED BY <1>3, <1>4

LEMMA FindsAt ==
    ASSUME NEW T, NEW text \in Seq(T), NEW S, NEW n \in 1..Len(text), text[n] \in S,
           \A i \in 1..(n - 1) : text[i] \notin S
    PROVE  FindFirstOf(text, S) = n
BY FindsFirst

LEMMA FindsNothing ==
    ASSUME NEW T, NEW text \in Seq(T), NEW S, \A i \in 1..Len(text) : text[i] \notin S
    PROVE  FindFirstOf(text, S) = 0
BY FindsFirst

LEMMA Slices ==
    ASSUME NEW T, NEW text \in Seq(T), NEW n \in 1..(Len(text) + 1)
    PROVE  /\ Upto(text, n) \in Seq(T) /\ Len(Upto(text, n)) = n - 1
           /\ \A i \in 1..(n - 1) : Upto(text, n)[i] = text[i]
           /\ From(text, n) \in Seq(T) /\ Len(From(text, n)) = Len(text) - n + 1
           /\ \A i \in 1..(Len(text) - n + 1) : From(text, n)[i] = text[n - 1 + i]
<1>1. \A i \in 1..(n - 1) : text[i] \in T
  OBVIOUS
<1>2. \A i \in n..Len(text) : text[i] \in T
  OBVIOUS
<1>3. n \in Int /\ n - 1 \in Int /\ 1 \in Int /\ Len(text) \in Int
  OBVIOUS
<1>4. /\ Upto(text, n) \in Seq(T)
      /\ Len(Upto(text, n)) = IF 1 <= n - 1 THEN n - 1 - 1 + 1 ELSE 0
      /\ \A i \in 1..(n - 1 - 1 + 1) : Upto(text, n)[i] = text[1 + i - 1]
  BY <1>1, <1>3, SubSeqProperties DEF Upto
<1>5. /\ From(text, n) \in Seq(T)
      /\ Len(From(text, n)) = IF n <= Len(text) THEN Len(text) - n + 1 ELSE 0
      /\ \A i \in 1..(Len(text) - n + 1) : From(text, n)[i] = text[n + i - 1]
  BY <1>2, <1>3, SubSeqProperties DEF From
<1> QED BY <1>4, <1>5

LEMMA FromBeyond ==
    ASSUME NEW T, NEW text \in Seq(T), NEW n \in Nat, n > Len(text)
    PROVE  From(text, n) = <<>>
BY DEF From

LEMMA FromFirst ==
    ASSUME NEW T, NEW s \in Seq(T)
    PROVE  From(s, 1) = s
BY SubSeqFull DEF From

LEMMA TailIsFrom ==
    ASSUME NEW T, NEW s \in Seq(T), s # <<>>
    PROVE  Tail(s) = From(s, 2)
BY TailIsSubSeq DEF From

LEMMA SliceOfSlice ==
    ASSUME NEW T, NEW text \in Seq(T), NEW m \in 1..(Len(text) + 1),
           NEW n \in 1..(Len(text) - m + 2)
    PROVE  From(From(text, m), n) = From(text, m + n - 1)
<1> DEFINE a == From(text, m)
           b == From(a, n)
           c == From(text, m + n - 1)
<1>1. /\ a \in Seq(T) /\ Len(a) = Len(text) - m + 1
      /\ \A i \in 1..(Len(text) - m + 1) : a[i] = text[m - 1 + i]
  BY Slices
<1> HIDE DEF a
<1>2. n \in 1..(Len(a) + 1)
  BY <1>1
<1>3. /\ b \in Seq(T) /\ Len(b) = Len(a) - n + 1
      /\ \A i \in 1..(Len(a) - n + 1) : b[i] = a[n - 1 + i]
  BY <1>1, <1>2, Slices
<1>4. m + n - 1 \in 1..(Len(text) + 1)
  OBVIOUS
<1>5. /\ c \in Seq(T) /\ Len(c) = Len(text) - (m + n - 1) + 1
      /\ \A i \in 1..(Len(text) - (m + n - 1) + 1) : c[i] = text[(m + n - 1) - 1 + i]
  BY <1>4, Slices
<1> HIDE DEF b, c
<1>6. Len(b) = Len(c)
  BY <1>1, <1>3, <1>5
<1>7. ASSUME NEW i \in 1..Len(b) PROVE b[i] = c[i]
  <2>1. i \in 1..(Len(a) - n + 1) /\ n - 1 + i \in 1..(Len(text) - m + 1)
    BY <1>1, <1>3
  <2>2. i \in 1..(Len(text) - (m + n - 1) + 1) /\ m - 1 + (n - 1 + i) = (m + n - 1) - 1 + i
    BY <1>1, <1>3
  <2> QED BY <1>1, <1>3, <1>5, <2>1, <2>2
<1>8. b = c
  BY <1>3, <1>5, <1>6, <1>7, SeqEqual
<1> QED BY <1>8 DEF a, b, c

LEMMA FromConcat ==
    ASSUME NEW T, NEW s \in Seq(T), NEW r \in Seq(T)
    PROVE  From(s \o r, Len(s) + 1) = r
<1> DEFINE t == s \o r
           u == From(t, Len(s) + 1)
<1>1. /\ t \in Seq(T) /\ Len(t) = Len(s) + Len(r)
      /\ \A i \in 1..(Len(s) + Len(r)) : t[i] = IF i <= Len(s) THEN s[i] ELSE r[i - Len(s)]
  BY ConcatProperties
<1> HIDE DEF t
<1>2. Len(s) + 1 \in 1..(Len(t) + 1)
  BY <1>1
<1>3. /\ u \in Seq(T) /\ Len(u) = Len(t) - (Len(s) + 1) + 1
      /\ \A i \in 1..(Len(t) - (Len(s) + 1) + 1) : u[i] = t[(Len(s) + 1) - 1 + i]
  BY <1>1, <1>2, Slices
<1> HIDE DEF u
<1>4. Len(u) = Len(r)
  BY <1>1, <1>3
<1>5. ASSUME NEW i \in 1..Len(r) PROVE u[i] = r[i]
  <2>1. i \in 1..(Len(t) - (Len(s) + 1) + 1) /\ (Len(s) + 1) - 1 + i = Len(s) + i
    BY <1>1
  <2>2. Len(s) + i \in 1..(Len(s) + Len(r)) /\ ~(Len(s) + i <= Len(s)) /\ (Len(s) + i) - Len(s) = i
    OBVIOUS
  <2> QED BY <1>1, <1>3, <2>1, <2>2
<1>6. u = r
  BY <1>3, <1>4, <1>5, SeqEqual
<1> QED BY <1>6 DEF u, t

LEMMA UptoConcat ==
    ASSUME NEW T, NEW s \in Seq(T), NEW r \in Seq(T)
    PROVE  Upto(s \o r, Len(s) + 1) = s
<1> DEFINE t == s \o r
           u == Upto(t, Len(s) + 1)
<1>1. /\ t \in Seq(T) /\ Len(t) = Len(s) + Len(r)
      /\ \A i \in 1..(Len(s) + Len(r)) : t[i] = IF i <= Len(s) THEN s[i] ELSE r[i - Len(s)]
  BY ConcatProperties
<1> HIDE DEF t
<1>2. Len(s) + 1 \in 1..(Len(t) + 1) /\ (Len(s) + 1) - 1 = Len(s)
  BY <1>1
<1>3. u \in Seq(T) /\ Len(u) = Len(s) /\ \A i \in 1..Len(s) : u[i] = t[i]
  <2>1. /\ u \in Seq(T) /\ Len(u) = (Len(s) + 1) - 1
        /\ \A i \in 1..((Len(s) + 1) - 1) : u[i] = t[i]
    <3> DEFINE n == Len(s) + 1
    <3>1. t \in Seq(T) /\ n \in 1..(Len(t) + 1)
      BY <1>1, <1>2
    <3> HIDE DEF n
    <3>2. Upto(t, n) \in Seq(T) /\ Len(Upto(t, n)) = n - 1
          /\ \A i \in 1..(n - 1) : Upto(t, n)[i] = t[i]
      BY <3>1, Slices
    <3> QED BY <3>2 DEF n
  <2> HIDE DEF u
  <2> QED BY <1>2, <2>1
<1> HIDE DEF u
<1>4. ASSUME NEW i \in 1..Len(s) PROVE u[i] = s[i]
  <2>1. Len(s) \in Nat /\ Len(r) \in Nat
    OBVIOUS
  <2>2. i \in 1..(Len(s) + Len(r)) /\ i <= Len(s)
    BY <2>1
  <2>3. t[i] = s[i]
    BY <1>1, <2>2
  <2> QED BY <1>3, <2>3
<1>5. u = s
  BY <1>3, <1>4, SeqEqual
<1> QED BY <1>5 DEF u, t

LEMMA PartsOfConcat ==
    ASSUME NEW T, NEW t \in Seq(T), NEW r \in Seq(T), NEW n \in 1..(Len(t) + 1)
    PROVE  Upto(t \o r, n) = Upto(t, n) /\ From(t \o r, n) = From(t, n) \o r
<1> DEFINE s == t \o r
<1>1. /\ s \in Seq(T) /\ Len(s) = Len(t) + Len(r)
      /\ \A i \in 1..(Len(t) + Len(r)) : s[i] = IF i <= Len(t) THEN t[i] ELSE r[i - Len(t)]
  BY ConcatProperties
<1>2. Len(t) \in Nat /\ Len(r) \in Nat
  OBVIOUS
<1> HIDE DEF s
<1>3. n \in 1..(Len(s) + 1) /\ n \in Nat
  BY <1>1, <1>2
<1>8. /\ Upto(s, n) \in Seq(T) /\ Len(Upto(s, n)) = n - 1
      /\ \A i \in 1..(n - 1) : Upto(s, n)[i] = s[i]
      /\ From(s, n) \in Seq(T) /\ Len(From(s, n)) = Len(s) - n + 1
      /\ \A i \in 1..(Len(s) - n + 1) : From(s, n)[i] = s[n - 1 + i]
  <2>1. s \in Seq(T)
    BY <1>1
  <2> QED BY <2>1, <1>3, Slices
<1> DEFINE u == Upto(s, n)
           v == Upto(t, n)
           f == From(s, n)
           g == From(t, n)
<1>4. /\ u \in Seq(T) /\ Len(u) = n - 1 /\ \A i \in 1..(n - 1) : u[i] = s[i]
      /\ f \in Seq(T) /\ Len(f) = Len(s) - n + 1 /\ \A i \in 1..(Len(s) - n + 1) : f[i] = s[n - 1 + i]
  BY <1>8
<1>5. /\ v \in Seq(T) /\ Len(v) = n - 1 /\ \A i \in 1..(n - 1) : v[i] = t[i]
      /\ g \in Seq(T) /\ Len(g) = Len(t) - n + 1 /\ \A i \in 1..(Len(t) - n + 1) : g[i] = t[n - 1 + i]
  BY Slices
<1> HIDE DEF u, v, f, g
<1>6. u = v
  <2>1. ASSUME NEW i \in 1..(n - 1) PROVE u[i] = v[i]
    <3>1. i \in 1..(Len(t) + Len(r)) /\ i <= Len(t)
      BY <1>2, <1>3
    <3> QED BY <1>1, <1>4, <1>5, <3>1
  <2> QED BY <1>4, <1>5, <2>1, SeqEqual
<1>7. f = g \o r
  <2>1. /\ g \o r \in Seq(T) /\ Len(g \o r) = Len(g) + Len(r)
        /\ \A i \in 1..(Len(g) + Len(r)) : (g \o r)[i] = IF i <= Len(g) THEN g[i] ELSE r[i - Len(g)]
    BY <1>5, ConcatProperties
  <2>2. Len(f) = Len(g \o r) /\ Len(g) \in Nat
    BY <1>1, <1>2, <1>3, <1>4, <1>5, <2>1
  <2>3. ASSUME NEW i \in 1..Len(f) PROVE f[i] = (g \o r)[i]
    <3>1. /\ i \in 1..(Len(s) - n + 1) /\ i \in 1..(Len(g) + Len(r))
          /\ n - 1 + i \in 1..(Len(t) + Len(r)) /\ i \in Nat
      BY <1>1, <1>2, <1>3, <1>4, <2>1, <2>2
    <3>2. f[i] = s[n - 1 + i]
      BY <1>4, <3>1
    <3>3. CASE i <= Len(g)
      <4>1. n - 1 + i <= Len(t) /\ i \in 1..(Len(t) - n + 1)
        BY <1>2, <1>3, <1>5, <3>1, <3>3
      <4> QED BY <1>1, <1>5, <2>1, <3>1, <3>2, <3>3, <4>1
    <3>4. CASE ~(i <= Len(g))
      <4>1. ~(n - 1 + i <= Len(t)) /\ (n - 1 + i) - Len(t) = i - Len(g)
        BY <1>2, <1>3, <1>5, <3>1, <3>4
      <4>2. s[n - 1 + i] = r[(n - 1 + i) - Len(t)] /\ (g \o r)[i] = r[i - Len(g)]
        BY <1>1, <2>1, <3>1, <3>4, <4>1
      <4> QED BY <3>2, <4>1, <4>2
    <3> QED BY <3>3, <3>4
  <2> QED BY <1>4, <2>1, <2>2, <2>3, SeqEqual
<1> QED BY <1>6, <1>7 DEF u, v, f, g, s

LEMMA CutAnywhere ==
    ASSUME NEW T, NEW s \in Seq(T), NEW k \in 1..Len(s)
    PROVE  /\ SubSeq(s, 1, k) \in Seq(T) /\ From(s, k + 1) \in Seq(T)
           /\ SubSeq(s, 1, k) \o From(s, k + 1) = s
<1>1. k + 1 \in 1..(Len(s) + 1) /\ k + 1 - 1 = k
  OBVIOUS
<1>2. Upto(s, k + 1) \in Seq(T) /\ From(s, k + 1) \in Seq(T)
  BY <1>1, Slices
<1>3. SubSeq(s, 1, k) = Upto(s, k + 1)
  BY <1>1 DEF Upto
<1>4. SubSeq(s, 1, k) \o SubSeq(s, k + 1, Len(s)) = SubSeq(s, 1, Len(s))
  <2>1. 1 \in 1..(Len(s) + 1) /\ k \in (1 - 1)..Len(s) /\ Len(s) \in k..Len(s)
    OBVIOUS
  <2> QED BY <2>1, ConcatAdjacentSubSeq
<1>5. SubSeq(s, 1, Len(s)) = s
  BY SubSeqFull
<1> QED BY <1>2, <1>3, <1>4, <1>5 DEF From

LEMMA Regroup ==
    ASSUME NEW T, NEW a \in Seq(T), NEW b \in Seq(T), NEW c \in Seq(T)
    PROVE  /\ a \o b \in Seq(T) /\ b \o c \in Seq(T)
           /\ (a \o b) \o c \in Seq(T)
           /\ (a \o b) \o c = a \o (b \o c)
<1>1. a \o b \in Seq(T) /\ b \o c \in Seq(T)
  BY ConcatProperties
<1>2. (a \o b) \o c \in Seq(T)
  BY <1>1, ConcatProperties
<1> QED BY <1>1, <1>2, ConcatAssociative

-----------------------------------------------------------------------------
(* How often something occurs in a sequence *)

Occurs(s, S) == Cardinality({i \in DOMAIN s : s[i] \in S})

\* A finite set of numbers, moved by a distance, has as many elements.
LEMMA Shifted ==
    ASSUME NEW A, IsFiniteSet(A), NEW k,
           A \subseteq Int, k \in Int
    PROVE  /\ IsFiniteSet({a + k : a \in A})
           /\ Cardinality({a + k : a \in A}) = Cardinality(A)
<1> DEFINE B == {a + k : a \in A}
           g == [a \in A |-> a + k]
<1>1. g \in [A -> B] /\ (\A b \in B : \E a \in A : g[a] = b)
  OBVIOUS
<1>2. \A a, b \in A : g[a] = g[b] => a = b
  OBVIOUS
<1> HIDE DEF g, B
<1>3. g \in Bijection(A, B)
  BY <1>1, <1>2 DEF Bijection, Injection, Surjection, IsInjective
<1>4. ExistsBijection(A, B)
  BY <1>3 DEF ExistsBijection
<1> QED BY <1>4, FS_Bijection DEF B

\* The places are finitely many, at most as many as the sequence is long.
LEMMA OccursType ==
    ASSUME NEW T, NEW s \in Seq(T), NEW S
    PROVE  /\ IsFiniteSet({i \in DOMAIN s : s[i] \in S}) /\ Occurs(s, S) \in Nat
           /\ Occurs(s, S) <= Len(s)
<1>1. DOMAIN s = 1..Len(s) /\ Len(s) \in Nat
  OBVIOUS
<1>2. IsFiniteSet(1..Len(s)) /\ Cardinality(1..Len(s)) = Len(s)
  BY <1>1, FS_Interval, SMTT(30)
<1> DEFINE A == {i \in DOMAIN s : s[i] \in S}
<1>3. A \in SUBSET (1..Len(s))
  BY <1>1
<1> HIDE DEF A
<1>4. IsFiniteSet(A) /\ Cardinality(A) <= Len(s)
  BY <1>2, <1>3, FS_Subset
<1>5. Cardinality(A) \in Nat
  BY <1>4, FS_CardinalityType
<1> QED BY <1>4, <1>5 DEF A, Occurs

\* What two sequences have, their concatenation has.
LEMMA OccursConcat ==
    ASSUME NEW T, NEW s \in Seq(T), NEW r \in Seq(T), NEW S
    PROVE  Occurs(s \o r, S) = Occurs(s, S) + Occurs(r, S)
<1> DEFINE t == s \o r
           A == {i \in DOMAIN s : s[i] \in S}
           B == {i \in DOMAIN r : r[i] \in S}
           C == {i \in DOMAIN t : t[i] \in S}
           D == {i + Len(s) : i \in B}
<1>1. /\ t \in Seq(T) /\ Len(t) = Len(s) + Len(r)
      /\ \A i \in 1..(Len(s) + Len(r)) : t[i] = IF i <= Len(s) THEN s[i] ELSE r[i - Len(s)]
  BY ConcatProperties
<1>2. /\ DOMAIN s = 1..Len(s) /\ DOMAIN r = 1..Len(r) /\ DOMAIN t = 1..(Len(s) + Len(r))
      /\ Len(s) \in Nat /\ Len(r) \in Nat
  BY <1>1
<1> HIDE DEF t
<1>3. C = A \union D
  <2>1. ASSUME NEW i \in C PROVE i \in A \union D
    <3>1. i \in 1..(Len(s) + Len(r)) /\ t[i] \in S
      BY <1>2
    <3>2. CASE i <= Len(s)
      BY <1>1, <1>2, <3>1, <3>2
    <3>3. CASE ~(i <= Len(s))
      <4>1. i - Len(s) \in 1..Len(r) /\ r[i - Len(s)] \in S /\ (i - Len(s)) + Len(s) = i
        BY <1>1, <1>2, <3>1, <3>3
      <4> QED BY <1>2, <4>1
    <3> QED BY <3>2, <3>3
  <2>2. ASSUME NEW i \in A PROVE i \in C
    <3>1. i \in 1..(Len(s) + Len(r)) /\ i <= Len(s) /\ s[i] \in S
      BY <1>2
    <3> QED BY <1>1, <1>2, <3>1
  <2>3. ASSUME NEW i \in B PROVE i + Len(s) \in C
    <3>1. /\ i + Len(s) \in 1..(Len(s) + Len(r)) /\ ~(i + Len(s) <= Len(s))
          /\ (i + Len(s)) - Len(s) = i /\ r[i] \in S
      BY <1>2
    <3> QED BY <1>1, <1>2, <3>1
  <2> HIDE DEF A, B, C
  <2> QED BY <2>1, <2>2, <2>3
<1>4. A \cap D = {}
  BY <1>2
<1>5. B \subseteq Int /\ Len(s) \in Int
  BY <1>2
<1>6. IsFiniteSet(A) /\ IsFiniteSet(B) /\ Cardinality(A) \in Nat
  BY OccursType DEF Occurs
<1>7. IsFiniteSet(D) /\ Cardinality(D) = Cardinality(B)
  <2> HIDE DEF B
  <2> QED BY <1>5, <1>6, Shifted
<1>8. Cardinality(C) = Cardinality(A) + Cardinality(B)
  <2>1. Cardinality(A \union D) = Cardinality(A) + Cardinality(D) - Cardinality(A \cap D)
    <3> HIDE DEF A, D
    <3> QED BY <1>6, <1>7, FS_Union
  <2>2. Cardinality(A \cap D) = 0
    BY <1>4, FS_EmptySet
  <2>3. Cardinality(B) \in Nat
    BY <1>6, FS_CardinalityType
  <2> HIDE DEF A, B, C, D
  <2> QED BY <1>3, <1>6, <1>7, <2>1, <2>2, <2>3
<1> QED BY <1>8 DEF Occurs, t

\* A sequence of one element has it once; the empty one has nothing.
LEMMA OccursOne ==
    ASSUME NEW x, NEW S
    PROVE  /\ Occurs(<<x>>, S) = (IF x \in S THEN 1 ELSE 0)
           /\ Occurs(<<>>, S) = 0
<1>1. {i \in DOMAIN <<x>> : <<x>>[i] \in S} = IF x \in S THEN {1} ELSE {}
  OBVIOUS
<1>2. {i \in DOMAIN <<>> : <<>>[i] \in S} = {}
  OBVIOUS
<1>3. Cardinality({1}) = 1 /\ Cardinality({}) = 0
  BY FS_Singleton, FS_EmptySet
<1> QED BY <1>1, <1>2, <1>3 DEF Occurs

\* Appending adds one if the element is one of those that are counted.
LEMMA OccursAppend ==
    ASSUME NEW T, NEW s \in Seq(T), NEW x \in T, NEW S
    PROVE  Occurs(Append(s, x), S) = Occurs(s, S) + (IF x \in S THEN 1 ELSE 0)
<1>1. Append(s, x) = s \o <<x>>
  BY AppendIsConcat
<1>2. <<x>> \in Seq(T)
  OBVIOUS
<1>3. Occurs(s \o <<x>>, S) = Occurs(s, S) + Occurs(<<x>>, S)
  BY <1>2, OccursConcat
<1> QED BY <1>1, <1>3, OccursOne

\* A sequence has what its head and its tail have.
LEMMA OccursTail ==
    ASSUME NEW T, NEW s \in Seq(T), s # <<>>, NEW S
    PROVE  Occurs(s, S) = (IF Head(s) \in S THEN 1 ELSE 0) + Occurs(Tail(s), S)
<1>1. s = <<Head(s)>> \o Tail(s) /\ Head(s) \in T /\ Tail(s) \in Seq(T)
  <2>1. Head(s) \in T /\ Tail(s) \in Seq(T)
    BY HeadTailProperties
  <2>2. 1 \in 1..Len(s) /\ Head(s) = s[1]
    OBVIOUS
  <2>3. SubSeq(s, 1, 1) = <<s[1]>>
    <3> DEFINE h == SubSeq(s, 1, 1)
    <3>1. h \in Seq(T) /\ Len(h) = 1 /\ h[1] = s[1]
      <4>1. h = Upto(s, 2)
        BY DEF Upto
      <4>2. 2 \in 1..(Len(s) + 1) /\ 1 \in 1..(2 - 1) /\ 2 - 1 = 1
        BY <2>2
      <4> QED BY <4>1, <4>2, Slices
    <3>2. <<s[1]>> \in Seq(T) /\ Len(<<s[1]>>) = 1
      BY <2>1, <2>2
    <3> HIDE DEF h
    <3>3. \A i \in 1..Len(h) : h[i] = <<s[1]>>[i]
      BY <3>1
    <3>4. h = <<s[1]>>
      BY <3>1, <3>2, <3>3, SeqEqual
    <3> QED BY <3>4 DEF h
  <2>4. SubSeq(s, 1, 1) \o From(s, 1 + 1) = s
    BY <2>2, CutAnywhere
  <2>5. Tail(s) = From(s, 1 + 1)
    BY TailIsFrom
  <2> QED BY <2>1, <2>2, <2>3, <2>4, <2>5
<1>2. <<Head(s)>> \in Seq(T)
  BY <1>1
<1>3. Occurs(<<Head(s)>> \o Tail(s), S) = Occurs(<<Head(s)>>, S) + Occurs(Tail(s), S)
  BY <1>1, <1>2, OccursConcat
<1> QED BY <1>1, <1>3, OccursOne

\* A sequence has nothing of a set if no element is in it.
LEMMA OccursNone ==
    ASSUME NEW T, NEW s \in Seq(T), NEW S
    PROVE  Occurs(s, S) = 0 <=> \A i \in 1..Len(s) : s[i] \notin S
<1> DEFINE M == {i \in DOMAIN s : s[i] \in S}
<1>1. IsFiniteSet(M) /\ Occurs(s, S) = Cardinality(M)
  BY OccursType DEF Occurs
<1>2. DOMAIN s = 1..Len(s)
  OBVIOUS
<1>3. Cardinality(M) = 0 <=> M = {}
  <2> HIDE DEF M
  <2> QED BY <1>1, FS_EmptySet
<1>4. M = {} <=> \A i \in 1..Len(s) : s[i] \notin S
  BY <1>2
<1> HIDE DEF M
<1> QED BY <1>1, <1>3, <1>4

\* Inserting adds one element, wherever it is put.
LEMMA OneMore ==
    ASSUME NEW T, NEW p \in Seq(T), NEW x \in T, NEW i \in 1..(Len(p) + 1)
    PROVE  /\ InsertAt(p, i, x) \in Seq(T)
           /\ \A S : Occurs(InsertAt(p, i, x), S) = Occurs(p, S) + Occurs(<<x>>, S)
<1> DEFINE a == Upto(p, i)
           b == From(p, i)
<1>1. a \in Seq(T) /\ b \in Seq(T) /\ <<x>> \in Seq(T)
  BY Slices
<1>2. InsertAt(p, i, x) = (a \o <<x>>) \o b
  BY DEF InsertAt, Upto, From
<1>3. a \o b = p
  <2>1. 1 \in 1..(Len(p) + 1) /\ i - 1 \in (1 - 1)..Len(p) /\ Len(p) \in (i - 1)..Len(p)
        /\ (i - 1) + 1 = i
    OBVIOUS
  <2>2. SubSeq(p, 1, i - 1) \o SubSeq(p, (i - 1) + 1, Len(p)) = SubSeq(p, 1, Len(p))
    BY <2>1, ConcatAdjacentSubSeq
  <2>3. SubSeq(p, 1, Len(p)) = p
    BY SubSeqFull
  <2> QED BY <2>1, <2>2, <2>3 DEF Upto, From
<1> HIDE DEF a, b
<1>4. a \o <<x>> \in Seq(T) /\ (a \o <<x>>) \o b \in Seq(T)
  BY <1>1, ConcatProperties
<1>5. ASSUME NEW S
      PROVE  Occurs((a \o <<x>>) \o b, S) = Occurs(p, S) + Occurs(<<x>>, S)
  <2>1. Occurs((a \o <<x>>) \o b, S) = Occurs(a \o <<x>>, S) + Occurs(b, S)
    BY <1>1, <1>4, OccursConcat
  <2>2. Occurs(a \o <<x>>, S) = Occurs(a, S) + Occurs(<<x>>, S)
    BY <1>1, OccursConcat
  <2>3. Occurs(a \o b, S) = Occurs(a, S) + Occurs(b, S)
    BY <1>1, OccursConcat
  <2>4. Occurs(a, S) \in Nat /\ Occurs(b, S) \in Nat /\ Occurs(<<x>>, S) \in Nat
    BY <1>1, OccursType
  <2> DEFINE oa == Occurs(a, S)
             ob == Occurs(b, S)
             ox == Occurs(<<x>>, S)
  <2>5. Occurs((a \o <<x>>) \o b, S) = (oa + ox) + ob
    BY <2>1, <2>2
  <2>6. Occurs(p, S) = oa + ob
    BY <1>3, <2>3
  <2>7. oa \in Nat /\ ob \in Nat /\ ox \in Nat
    BY <2>4
  <2> HIDE DEF oa, ob, ox
  <2>8. (oa + ox) + ob = (oa + ob) + ox
    BY <2>7
  <2> QED BY <2>5, <2>6, <2>8 DEF ox
<1> QED BY <1>2, <1>4, <1>5

\* One more of the elements of a sequence.
LEMMA OneMoreOf ==
    ASSUME NEW T, NEW s \in Seq(T), NEW k \in 0..(Len(s) - 1)
    PROVE  /\ SubSeq(s, 1, k) \in Seq(T) /\ s[k + 1] \in T
           /\ SubSeq(s, 1, k + 1) = Append(SubSeq(s, 1, k), s[k + 1])
<1> DEFINE a == SubSeq(s, 1, k)
           x == s[k + 1]
           c == SubSeq(s, 1, k + 1)
           d == Append(a, x)
<1>1. a \in Seq(T) /\ Len(a) = k /\ \A j \in 1..k : a[j] = s[j]
  OBVIOUS
<1>2. c \in Seq(T) /\ Len(c) = k + 1 /\ \A j \in 1..(k + 1) : c[j] = s[j]
  OBVIOUS
<1>3. x \in T /\ x = s[k + 1]
  OBVIOUS
<1>4. d \in Seq(T) /\ Len(d) = k + 1 /\ \A j \in 1..(k + 1) : d[j] = s[j]
  <2> HIDE DEF a, x
  <2> QED BY <1>1, <1>3
<1>5. c = d
  <2> HIDE DEF c, d
  <2> QED BY <1>2, <1>4
<1> QED BY <1>1, <1>3, <1>5

-----------------------------------------------------------------------------
(* Sequences of sequences *)

\* A function on 1..n is a sequence with n elements.
LEMMA Filled ==
    ASSUME NEW T, NEW n \in Nat \ {0}, NEW s \in [1..n -> T]
    PROVE  s \in Seq(T) \ {<<>>} /\ Len(s) = n /\ DOMAIN s = 1..n
<1>1. s \in Seq(T) /\ Len(s) = n
  OBVIOUS
<1>2. Len(<<>>) = 0
  OBVIOUS
<1>3. s # <<>>
  BY <1>1, <1>2
<1> QED BY <1>1, <1>3

\* A sequence that is not empty.
LEMMA NotEmpty ==
    ASSUME NEW T, NEW s \in Seq(T) \ {<<>>}
    PROVE  DOMAIN s = 1..Len(s) /\ Len(s) \in Nat \ {0} /\ \A i \in 1..Len(s) : s[i] \in T
<1>1. s \in Seq(T)
  OBVIOUS
<1>2. DOMAIN s = 1..Len(s) /\ Len(s) \in Nat /\ \A i \in 1..Len(s) : s[i] \in T
  BY <1>1
<1>3. Len(s) # 0
  BY <1>1, EmptySeq
<1> QED BY <1>2, <1>3

\* The partial results of FlattenSeq: run[i] has the first i rows.
Flattens(run, rows, T) ==
    /\ run \in [1..Len(rows) -> Seq(T)]
    /\ rows # <<>> => run[1] = rows[1] /\ FlattenSeq(rows) = run[Len(rows)]
    /\ \A i \in 1..Len(rows) : i > 1 => run[i] = run[i - 1] \o rows[i]

\* FlattenSeq calls itself through a local function; that function exists.
LEMMA FlattenRuns ==
    ASSUME NEW T, NEW rows \in Seq(Seq(T))
    PROVE  \E run : Flattens(run, rows, T)
<1> DEFINE I == 1..Len(rows)
           V == Seq(T)
           flatten[i \in I] == IF i = 1 THEN rows[i] ELSE flatten[i - 1] \o rows[i]
           stop == {i \in I : i = 1}
           size == [i \in I |-> i]
           base == [i \in I |-> rows[i]]
           next == [i \in I |-> IF i = 1 THEN 1 ELSE i - 1]
           step == [p \in I \X V |-> p[2] \o rows[p[1]]]
<1>1. Len(rows) \in Nat /\ \A i \in I : rows[i] \in V
  OBVIOUS
<1>2. Recursive(I, V, size, stop, base, next, step)
  <2>1. size \in [I -> Nat] /\ stop \in SUBSET I /\ base \in [I -> V]
    BY <1>1
  <2>2. next \in [I -> I] /\ \A i \in I \ stop : size[next[i]] < size[i]
    BY <1>1
  <2>3. step \in [I \X V -> V]
    <3>1. ASSUME NEW i \in I, NEW v \in V PROVE v \o rows[i] \in V
      BY <1>1, ConcatProperties
    <3> HIDE DEF I, V
    <3> QED BY <3>1
  <2> HIDE DEF I, V, stop, step, size, base, next
  <2> QED BY <2>1, <2>2, <2>3 DEF Recursive
<1>3. PICK f \in [I -> V] :
         \A i \in I : f[i] = IF i \in stop THEN base[i] ELSE step[<<i, f[next[i]]>>]
  <2> HIDE DEF I, V, stop, size, base, next, step
  <2> QED BY <1>2, Recursion DEF Computable
<1>4. \A i \in I : f[i] = IF i = 1 THEN rows[i] ELSE f[i - 1] \o rows[i]
  <2> TAKE i \in I
  <2>1. CASE i = 1
    BY <1>3, <2>1
  <2>2. CASE i # 1
    <3>1. i \notin stop /\ next[i] = i - 1 /\ i - 1 \in I
      BY <1>1, <2>2
    <3>2. f[i - 1] \in V /\ f[i] = step[<<i, f[i - 1]>>]
      <4> HIDE DEF I, V, stop, step, base, next
      <4> QED BY <1>3, <3>1
    <3> HIDE DEF I, V
    <3> QED BY <2>2, <3>2
  <2> QED BY <2>1, <2>2
<1>5. f = [i \in I |-> IF i = 1 THEN rows[i] ELSE f[i - 1] \o rows[i]]
  <2> HIDE DEF I, V
  <2> QED BY <1>3, <1>4, ZenonT(30)
<1>6. flatten = [i \in I |-> IF i = 1 THEN rows[i] ELSE flatten[i - 1] \o rows[i]]
  <2> HIDE DEF I
  <2> QED BY <1>5, Zenon
<1>7. FlattenSeq(rows) = IF Len(rows) = 0 THEN rows ELSE flatten[Len(rows)]
  BY DEF FlattenSeq
<1> HIDE DEF flatten
<1>8. \A i \in I : flatten[i] = IF i = 1 THEN rows[i] ELSE flatten[i - 1] \o rows[i]
  <2> HIDE DEF I
  <2> QED BY <1>6, Zenon
<1>9. \A i \in I : flatten[i] \in V
  <2>1. Obeys(flatten, I, V, stop, base, next, step)
    <3>1. ASSUME NEW i \in I, i \notin stop, flatten[next[i]] \in V
          PROVE  flatten[i] = step[<<i, flatten[next[i]]>>]
      <4>1. i # 1 /\ next[i] = i - 1
        BY <3>1
      <4>2. flatten[i] = flatten[i - 1] \o rows[i]
        BY <1>8, <4>1
      <4>3. step[<<i, flatten[i - 1]>>] = flatten[i - 1] \o rows[i]
        <5> HIDE DEF I, V, next
        <5> QED BY <3>1, <4>1
      <4> QED BY <4>1, <4>2, <4>3
    <3>2. ASSUME NEW i \in I, i \in stop PROVE flatten[i] = base[i]
      BY <1>8, <3>2
    <3> HIDE DEF I, V, stop, step, base, next
    <3> QED BY <3>1, <3>2 DEF Obeys
  <2> HIDE DEF I, V, stop, step, size, base, next
  <2> QED BY <1>2, <2>1, RecursionType
<1>10. flatten \in [I -> V]
  <2> HIDE DEF I, V
  <2> QED BY <1>6, <1>9
<1>11. rows # <<>> => 1 \in I /\ Len(rows) # 0
  BY <1>1
<1>12. Flattens(flatten, rows, T)
  <2>1. \A i \in I : i > 1 => i # 1
    BY <1>1
  <2> QED BY <1>7, <1>8, <1>10, <1>11, <2>1 DEF Flattens
<1> QED BY <1>12

\* No rows, no elements.
LEMMA FlattenEmpty ==
    FlattenSeq(<<>>) = <<>>
<1>1. Len(<<>>) = 0
  OBVIOUS
<1> QED BY <1>1 DEF FlattenSeq

\* Flattened rows are a sequence, and not an empty one if no row is.
LEMMA FlattenType ==
    ASSUME NEW T, NEW rows \in Seq(Seq(T))
    PROVE  /\ FlattenSeq(rows) \in Seq(T)
           /\ rows # <<>> /\ (\A i \in 1..Len(rows) : rows[i] # <<>>) => FlattenSeq(rows) # <<>>
<1>1. CASE rows = <<>>
  <2>1. <<>> \in Seq(T) /\ FlattenSeq(rows) = <<>>
    BY <1>1, FlattenEmpty
  <2> QED BY <1>1, <2>1
<1>2. CASE rows # <<>>
  <2>1. PICK run : Flattens(run, rows, T)
    BY FlattenRuns
  <2>2. Len(rows) \in Nat /\ Len(rows) \in 1..Len(rows)
    BY <1>2
  <2>3. FlattenSeq(rows) = run[Len(rows)] /\ FlattenSeq(rows) \in Seq(T)
    BY <1>2, <2>1, <2>2 DEF Flattens
  <2>4. ASSUME \A i \in 1..Len(rows) : rows[i] # <<>> PROVE FlattenSeq(rows) # <<>>
    <3>1. CASE Len(rows) = 1
      <4>1. FlattenSeq(rows) = rows[1]
        BY <1>2, <2>1, <3>1 DEF Flattens
      <4>2. 1 \in 1..Len(rows)
        BY <2>2
      <4> QED BY <2>4, <4>1, <4>2
    <3>2. CASE Len(rows) > 1
      <4>1. run[Len(rows)] = run[Len(rows) - 1] \o rows[Len(rows)]
        BY <2>1, <2>2, <3>2 DEF Flattens
      <4>2. Len(rows) - 1 \in 1..Len(rows)
        BY <2>2, <3>2
      <4>3. run[Len(rows) - 1] \in Seq(T) /\ rows[Len(rows)] \in Seq(T) /\ rows[Len(rows)] # <<>>
        <5>1. run[Len(rows) - 1] \in Seq(T)
          BY <2>1, <4>2 DEF Flattens
        <5>2. \A i \in 1..Len(rows) : rows[i] \in Seq(T)
          OBVIOUS
        <5> QED BY <2>2, <2>4, <5>1, <5>2
      <4>4. \A a, b \in Seq(T) : b # <<>> => a \o b # <<>>
        <5> SUFFICES ASSUME NEW a \in Seq(T), NEW b \in Seq(T), b # <<>> PROVE a \o b # <<>>
          OBVIOUS
        <5>1. Len(b) # 0 /\ Len(a) \in Nat /\ Len(b) \in Nat
          OBVIOUS
        <5>2. Len(a \o b) = Len(a) + Len(b)
          BY ConcatProperties
        <5>3. Len(a \o b) # 0 /\ Len(<<>>) = 0
          BY <5>1, <5>2
        <5> QED BY <5>3
      <4> QED BY <2>3, <4>1, <4>3, <4>4
    <3>3. \A n \in Nat : n \in 1..n => n = 1 \/ n > 1
      OBVIOUS
    <3> QED BY <2>2, <3>1, <3>2, <3>3, Zenon
  <2> QED BY <2>3, <2>4
<1> QED BY <1>1, <1>2

\* If the rows of M have something K times each and the others never, all of them have it |M| * K times.
LEMMA OccursFlatten ==
    ASSUME NEW T, NEW rows \in Seq(Seq(T)), NEW S, NEW K \in Nat, NEW M \in SUBSET (1..Len(rows)),
           \A i \in M : Occurs(rows[i], S) = K,
           \A i \in 1..Len(rows) : i \notin M => Occurs(rows[i], S) = 0
    PROVE  Occurs(FlattenSeq(rows), S) = Cardinality(M) * K
<1> DEFINE Upon(n) == {i \in 1..n : i \in M}
<1>0. Upon(0) = {} /\ Cardinality({}) = 0
  BY FS_EmptySet
<1>1. CASE rows = <<>>
  <2>1. Occurs(FlattenSeq(rows), S) = 0
    <3>1. FlattenSeq(rows) = <<>>
      BY <1>1, FlattenEmpty
    <3>2. Occurs(<<>>, S) = 0
      BY OccursOne
    <3> QED BY <3>1, <3>2
  <2>2. M = {}
    BY <1>1
  <2>3. 0 * K = 0
    OBVIOUS
  <2> QED BY <1>0, <2>1, <2>2, <2>3
<1>2. CASE rows # <<>>
  <2>1. PICK run : Flattens(run, rows, T)
    BY FlattenRuns
  <2> DEFINE Right == {n \in Nat : n \in 1..Len(rows) =>
                          Occurs(run[n], S) = Cardinality(Upon(n)) * K}
  <2>2. ASSUME NEW n \in Nat
        PROVE  /\ IsFiniteSet(Upon(n)) /\ Cardinality(Upon(n)) \in Nat
               /\ Cardinality(Upon(n + 1)) = Cardinality(Upon(n)) + (IF n + 1 \in M THEN 1 ELSE 0)
    <3>1. Upon(n) \in SUBSET (1..n)
      OBVIOUS
    <3>2. IsFiniteSet(1..n)
      BY FS_Interval
    <3>3. IsFiniteSet(Upon(n))
      <4> HIDE DEF Upon
      <4> QED BY <3>1, <3>2, FS_Subset
    <3>4. CASE n + 1 \in M
      <4>1. Upon(n + 1) = Upon(n) \union {n + 1} /\ n + 1 \notin Upon(n)
        BY <3>4
      <4> HIDE DEF Upon
      <4>2. Cardinality(Upon(n) \union {n + 1}) = Cardinality(Upon(n)) + 1
        BY <3>3, <4>1, FS_AddElement
      <4> QED BY <3>3, <3>4, <4>1, <4>2, FS_CardinalityType
    <3>5. CASE n + 1 \notin M
      <4>1. Upon(n + 1) = Upon(n)
        BY <3>5
      <4>2. Cardinality(Upon(n)) \in Nat
        <5> HIDE DEF Upon
        <5> QED BY <3>3, FS_CardinalityType
      <4> HIDE DEF Upon
      <4> QED BY <3>3, <3>5, <4>1, <4>2
    <3> QED BY <3>4, <3>5
  <2>3. 0 \in Right
    OBVIOUS
  <2>4. ASSUME NEW n \in Nat, n \in Right PROVE n + 1 \in Right
    <3> SUFFICES ASSUME n + 1 \in 1..Len(rows)
                 PROVE  Occurs(run[n + 1], S) = Cardinality(Upon(n + 1)) * K
      OBVIOUS
    <3>1. Occurs(rows[n + 1], S) = IF n + 1 \in M THEN K ELSE 0
      OBVIOUS
    <3>2. CASE n = 0
      <4>1. run[n + 1] = rows[n + 1]
        BY <1>2, <2>1, <3>2 DEF Flattens
      <4>2. Cardinality(Upon(n + 1)) = IF n + 1 \in M THEN 1 ELSE 0
        <5>1. Cardinality(Upon(n)) = 0
          BY <1>0, <3>2
        <5>2. Cardinality(Upon(n + 1)) = Cardinality(Upon(n)) + (IF n + 1 \in M THEN 1 ELSE 0)
          BY <2>2
        <5> DEFINE c == Cardinality(Upon(n))
                   d == Cardinality(Upon(n + 1))
        <5>3. c = 0 /\ d = c + (IF n + 1 \in M THEN 1 ELSE 0)
          BY <5>1, <5>2
        <5> HIDE DEF c, d, Upon
        <5>4. d = IF n + 1 \in M THEN 1 ELSE 0
          BY <5>3
        <5> QED BY <5>4 DEF d
      <4> HIDE DEF Upon
      <4> QED BY <3>1, <4>1, <4>2
    <3>3. CASE n # 0
      <4>1. n \in 1..Len(rows) /\ n + 1 > 1 /\ (n + 1) - 1 = n
        BY <3>3
      <4>2. run[n + 1] = run[n] \o rows[n + 1] /\ run[n] \in Seq(T) /\ rows[n + 1] \in Seq(T)
        <5>1. rows[n + 1] \in Seq(T)
          OBVIOUS
        <5>2. run[n + 1] = run[(n + 1) - 1] \o rows[n + 1] /\ run[n] \in Seq(T)
          BY <2>1, <4>1 DEF Flattens
        <5> QED BY <4>1, <5>1, <5>2
      <4>3. Occurs(run[n + 1], S) = Occurs(run[n], S) + Occurs(rows[n + 1], S)
        BY <4>2, OccursConcat
      <4>4. Occurs(run[n], S) = Cardinality(Upon(n)) * K
        BY <2>4, <4>1
      <4> DEFINE c == Cardinality(Upon(n))
                 d == Cardinality(Upon(n + 1))
      <4>5. c \in Nat /\ d = c + (IF n + 1 \in M THEN 1 ELSE 0)
        <5> HIDE DEF Upon
        <5> QED BY <2>2
      <4>6. Occurs(run[n + 1], S) = c * K + (IF n + 1 \in M THEN K ELSE 0)
        BY <3>1, <4>3, <4>4
      <4> HIDE DEF c, d, Upon
      <4>7. Occurs(run[n + 1], S) = d * K
        <5>1. (c + 1) * K = c * K + K /\ c + 0 = c /\ c * K \in Nat
          BY <4>5
        <5>2. CASE n + 1 \in M
          BY <4>5, <4>6, <5>1, <5>2
        <5>3. CASE n + 1 \notin M
          BY <4>5, <4>6, <5>1, <5>3
        <5> QED BY <5>2, <5>3
      <4> QED BY <4>7 DEF d
    <3> QED BY <3>2, <3>3
  <2>5. \A n \in Nat : n \in Right
    <3> HIDE DEF Right
    <3> QED BY <2>3, <2>4, SetInduction
  <2>6. Len(rows) \in Nat /\ Len(rows) \in 1..Len(rows) /\ DOMAIN rows = 1..Len(rows)
    BY <1>2
  <2>7. FlattenSeq(rows) = run[Len(rows)]
    BY <1>2, <2>1 DEF Flattens
  <2>8. Occurs(run[Len(rows)], S) = Cardinality(Upon(Len(rows))) * K
    BY <2>5, <2>6
  <2>9. Upon(Len(rows)) = M
    OBVIOUS
  <2> QED BY <2>7, <2>8, <2>9
<1> QED BY <1>1, <1>2

-----------------------------------------------------------------------------
(* Sums, the greatest element and the remainder *)

\* The element that SumFunction takes next.
OneOf(s) == CHOOSE x \in s : TRUE
\* The partial sums of SumFunction: run[s] is the sum over s.
Sums(run, f) ==
    /\ run \in [SUBSET DOMAIN f -> Nat]
    /\ SumFunction(f) = run[DOMAIN f]
    /\ \A s \in SUBSET DOMAIN f :
         run[s] = IF s = {} THEN 0 ELSE f[OneOf(s)] + run[s \ {OneOf(s)}]

\* SumFunction adds its values one after the other: there is such a run.
LEMMA SumRuns ==
    ASSUME NEW S, IsFiniteSet(S), NEW f \in [S -> Nat]
    PROVE  \E run : Sums(run, f)
<1> DEFINE D == SUBSET S
           iter[s \in D] == IF s = {} THEN 0 ELSE LET x == OneOf(s) IN f[x] + iter[s \ {x}]
           stop == {s \in D : s = {}}
           size == [s \in D |-> Cardinality(s)]
           base == [s \in D |-> 0]
           next == [s \in D |-> s \ {OneOf(s)}]
           step == [p \in D \X Nat |-> IF p[1] = {} THEN 0 ELSE f[OneOf(p[1])] + p[2]]
<1>1. \A s \in D : s # {} => OneOf(s) \in s /\ OneOf(s) \in S
  BY DEF OneOf
<1>2. ASSUME NEW s \in D PROVE IsFiniteSet(s) /\ Cardinality(s) \in Nat
  BY FS_Subset, FS_CardinalityType
<1>3. Recursive(D, Nat, size, stop, base, next, step)
  <2>1. size \in [D -> Nat] /\ stop \in SUBSET D /\ base \in [D -> Nat] /\ next \in [D -> D]
    <3>1. size \in [D -> Nat]
      <4> HIDE DEF D
      <4> QED BY <1>2
    <3> QED BY <3>1
  <2>2. ASSUME NEW s \in D, s \notin stop PROVE size[next[s]] < size[s]
    <3>1. s # {} /\ next[s] = s \ {OneOf(s)} /\ next[s] \in D
      BY <2>2
    <3>2. Cardinality(s \ {OneOf(s)}) = Cardinality(s) - 1
      BY <1>1, <1>2, <3>1, FS_RemoveElement
    <3>3. size[next[s]] = Cardinality(s) - 1 /\ size[s] = Cardinality(s) /\ Cardinality(s) \in Nat
      <4> HIDE DEF D, next
      <4> QED BY <1>2, <3>1, <3>2
    <3> HIDE DEF D, next, size
    <3> QED BY <3>3
  <2>3. step \in [D \X Nat -> Nat]
    <3>1. ASSUME NEW s \in D, NEW n \in Nat, s # {} PROVE f[OneOf(s)] + n \in Nat
      BY <1>1, <3>1
    <3> HIDE DEF D
    <3> QED BY <3>1
  <2> HIDE DEF D, stop, size, base, next, step
  <2> QED BY <2>1, <2>2, <2>3 DEF Recursive
<1>4. PICK run \in [D -> Nat] :
         \A s \in D : run[s] = IF s \in stop THEN base[s] ELSE step[<<s, run[next[s]]>>]
  <2> HIDE DEF D, stop, size, base, next, step
  <2> QED BY <1>3, Recursion DEF Computable
<1>5. \A s \in D : run[s] = IF s = {} THEN 0 ELSE f[OneOf(s)] + run[s \ {OneOf(s)}]
  <2> TAKE s \in D
  <2>1. CASE s = {}
    BY <1>4, <2>1
  <2>2. CASE s # {}
    <3>1. s \notin stop /\ next[s] = s \ {OneOf(s)} /\ next[s] \in D
      BY <2>2
    <3>2. run[next[s]] \in Nat /\ run[s] = step[<<s, run[next[s]]>>]
      <4> HIDE DEF D, stop, step, base, next
      <4> QED BY <1>4, <3>1
    <3>3. step[<<s, run[next[s]]>>] = f[OneOf(s)] + run[next[s]]
      <4> HIDE DEF D, next
      <4> QED BY <2>2, <3>2
    <3> HIDE DEF D, next, step
    <3> QED BY <2>2, <3>1, <3>2, <3>3
  <2> QED BY <2>1, <2>2
<1>6. run = [s \in D |-> IF s = {} THEN 0 ELSE LET x == OneOf(s) IN f[x] + run[s \ {x}]]
  <2> HIDE DEF D
  <2> QED BY <1>4, <1>5, Zenon
<1>7. iter = [s \in D |-> IF s = {} THEN 0 ELSE LET x == OneOf(s) IN f[x] + iter[s \ {x}]]
  <2> HIDE DEF D
  <2> QED BY <1>6, Zenon
<1>8. DOMAIN f = S
  OBVIOUS
<1>9. SumFunction(f) = iter[S]
  BY <1>8, Zenon DEF SumFunction, SumFunctionOnSet, FoldFunctionOnSet, MapThenFoldSet, OneOf
<1> HIDE DEF iter
<1>10. \A s \in D : iter[s] = IF s = {} THEN 0 ELSE f[OneOf(s)] + iter[s \ {OneOf(s)}]
  <2> HIDE DEF D
  <2> QED BY <1>7, Zenon
<1>11. \A s \in D : iter[s] \in Nat
  <2>1. Obeys(iter, D, Nat, stop, base, next, step)
    <3>1. ASSUME NEW s \in D, s \notin stop, iter[next[s]] \in Nat
          PROVE  iter[s] = step[<<s, iter[next[s]]>>]
      <4>1. s # {} /\ next[s] = s \ {OneOf(s)}
        BY <3>1
      <4>2. iter[s] = f[OneOf(s)] + iter[next[s]]
        BY <1>10, <4>1
      <4>3. step[<<s, iter[next[s]]>>] = f[OneOf(s)] + iter[next[s]]
        <5> HIDE DEF D, next
        <5> QED BY <3>1, <4>1
      <4> HIDE DEF step, next
      <4> QED BY <4>2, <4>3
    <3>2. ASSUME NEW s \in D, s \in stop PROVE iter[s] = base[s]
      BY <1>10, <3>2
    <3> HIDE DEF D, stop, step, base, next
    <3> QED BY <3>1, <3>2 DEF Obeys
  <2> HIDE DEF D, stop, step, size, base, next
  <2> QED BY <1>3, <2>1, RecursionType
<1>12. iter \in [D -> Nat]
  <2> HIDE DEF D
  <2> QED BY <1>7, <1>11
<1> QED BY <1>8, <1>9, <1>10, <1>12 DEF Sums

\* The sum changes by what one of the values changes.
LEMMA SumChange ==
    ASSUME NEW S, IsFiniteSet(S), NEW f \in [S -> Nat], NEW g \in [S -> Nat], NEW x \in S,
           \A y \in S : y # x => f[y] = g[y]
    PROVE  /\ SumFunction(f) \in Nat /\ SumFunction(g) \in Nat
           /\ SumFunction(f) + g[x] = SumFunction(g) + f[x]
<1>1. DOMAIN f = S /\ DOMAIN g = S
  OBVIOUS
<1>2. PICK u : Sums(u, f)
  BY SumRuns
<1>3. PICK v : Sums(v, g)
  BY SumRuns
<1> DEFINE Same(s) == IF x \in s THEN u[s] + g[x] = v[s] + f[x] ELSE u[s] = v[s]
           Right == {n \in Nat : \A s \in SUBSET S : Cardinality(s) = n => Same(s)}
<1>4. \A s \in SUBSET S : u[s] \in Nat /\ v[s] \in Nat
  BY <1>1, <1>2, <1>3 DEF Sums
<1>5. f[x] \in Nat /\ g[x] \in Nat
  OBVIOUS
<1>6. 0 \in Right
  <2>1. ASSUME NEW s \in SUBSET S, Cardinality(s) = 0 PROVE Same(s)
    <3>1. s = {}
      <4>1. IsFiniteSet(s)
        BY FS_Subset
      <4> QED BY <2>1, <4>1, FS_EmptySet
    <3> QED BY <1>1, <1>2, <1>3, <3>1 DEF Sums
  <2> HIDE DEF Same
  <2> QED BY <2>1
<1>7. ASSUME NEW n \in Nat, n \in Right PROVE n + 1 \in Right
  <2>1. ASSUME NEW s \in SUBSET S, Cardinality(s) = n + 1 PROVE Same(s)
    <3> DEFINE y == OneOf(s)
               r == s \ {y}
    <3>1. IsFiniteSet(s) /\ s # {}
      <4>1. IsFiniteSet(s)
        BY FS_Subset
      <4>2. n + 1 # 0
        OBVIOUS
      <4> QED BY <2>1, <4>1, <4>2, FS_EmptySet
    <3>2. y \in s /\ y \in S
      BY <3>1 DEF OneOf
    <3>3. Cardinality(r) = n
      <4>1. Cardinality(r) = Cardinality(s) - 1
        BY <3>1, <3>2, FS_RemoveElement
      <4> QED BY <2>1, <4>1
    <3>4. Same(r) /\ r \in SUBSET S
      BY <1>7, <3>3
    <3>5. u[s] = f[y] + u[r] /\ v[s] = g[y] + v[r]
      BY <1>1, <1>2, <1>3, <3>1 DEF Sums
    <3>6. u[r] \in Nat /\ v[r] \in Nat /\ f[y] \in Nat /\ g[y] \in Nat
      BY <1>4, <3>2, <3>4
    <3>7. CASE x = y
      <4>1. x \notin r /\ x \in s
        BY <3>2, <3>7
      <4>2. u[r] = v[r]
        BY <3>4, <4>1
      <4> HIDE DEF y, r
      <4> QED BY <1>5, <3>5, <3>6, <3>7, <4>1, <4>2
    <3>8. CASE x # y
      <4>1. f[y] = g[y] /\ (x \in r <=> x \in s)
        BY <3>2, <3>8
      <4> HIDE DEF y, r
      <4> QED BY <1>5, <3>4, <3>5, <3>6, <4>1
    <3> QED BY <3>7, <3>8
  <2> HIDE DEF Same
  <2> QED BY <2>1
<1>8. \A n \in Nat : n \in Right
  <2> HIDE DEF Right
  <2> QED BY <1>6, <1>7, SetInduction
<1>9. Same(S)
  <2>1. Cardinality(S) \in Nat
    BY FS_CardinalityType
  <2> HIDE DEF Same
  <2> QED BY <1>8, <2>1
<1> QED BY <1>1, <1>2, <1>3, <1>4, <1>9 DEF Sums

\* Nothing but zeros adds up to zero.
LEMMA SumOfZeros ==
    ASSUME NEW S, IsFiniteSet(S), NEW f \in [S -> Nat], \A y \in S : f[y] = 0
    PROVE  SumFunction(f) = 0
<1>1. PICK u : Sums(u, f)
  BY SumRuns
<1> DEFINE Right == {n \in Nat : \A s \in SUBSET S : Cardinality(s) = n => u[s] = 0}
<1>2. 0 \in Right
  <2>1. ASSUME NEW s \in SUBSET S, Cardinality(s) = 0 PROVE u[s] = 0
    <3>1. s = {}
      <4>1. IsFiniteSet(s)
        BY FS_Subset
      <4> QED BY <2>1, <4>1, FS_EmptySet
    <3> QED BY <1>1, <3>1 DEF Sums
  <2> QED BY <2>1
<1>3. ASSUME NEW n \in Nat, n \in Right PROVE n + 1 \in Right
  <2>1. ASSUME NEW s \in SUBSET S, Cardinality(s) = n + 1 PROVE u[s] = 0
    <3> DEFINE y == OneOf(s)
               r == s \ {y}
    <3>1. IsFiniteSet(s) /\ s # {}
      <4>1. IsFiniteSet(s)
        BY FS_Subset
      <4>2. n + 1 # 0
        OBVIOUS
      <4> QED BY <2>1, <4>1, <4>2, FS_EmptySet
    <3>2. y \in s /\ y \in S
      BY <3>1 DEF OneOf
    <3>3. Cardinality(r) = n
      <4>1. Cardinality(r) = Cardinality(s) - 1
        BY <3>1, <3>2, FS_RemoveElement
      <4> QED BY <2>1, <4>1
    <3>4. u[r] = 0 /\ f[y] = 0
      BY <1>3, <3>2, <3>3
    <3>5. u[s] = f[y] + u[r]
      BY <1>1, <3>1 DEF Sums
    <3> HIDE DEF y, r
    <3> QED BY <3>4, <3>5
  <2> QED BY <2>1
<1>4. \A n \in Nat : n \in Right
  <2> HIDE DEF Right
  <2> QED BY <1>2, <1>3, SetInduction
<1>5. u[S] = 0
  BY <1>4, FS_CardinalityType
<1> QED BY <1>1, <1>5 DEF Sums

\* A sequence of one element.
LEMMA OneOfThem ==
    ASSUME NEW T, NEW e \in T
    PROVE  /\ <<e>> \in Seq(T) \ {<<>>}
           /\ \A x : Cardinality({k \in DOMAIN <<e>> : <<e>>[k] \in {e, x}}) = 1
<1>1. <<e>> \in Seq(T) \ {<<>>}
  <2>1. <<e>> \in Seq(T) /\ Len(<<e>>) = 1 /\ Len(<<>>) = 0
    OBVIOUS
  <2> QED BY <2>1
<1>2. ASSUME NEW x PROVE Cardinality({k \in DOMAIN <<e>> : <<e>>[k] \in {e, x}}) = 1
  <2>1. {k \in DOMAIN <<e>> : <<e>>[k] \in {e, x}} = {1}
    OBVIOUS
  <2> QED BY <2>1, FS_Singleton
<1> QED BY <1>1, <1>2

\* The greatest of numbers up to a bound.
LEMMA MaxIsGreatest ==
    ASSUME NEW b \in Nat, NEW I, I \subseteq 0..b, I # {}
    PROVE  Max(I) \in I /\ \A y \in I : y <= Max(I)
<1> DEFINE J == {b - x : x \in I}
<1>0. \A x \in I : x \in Nat /\ b - x \in Nat
  <2> TAKE x \in I
  <2>1. x \in 0..b
    OBVIOUS
  <2> QED BY <2>1
<1>1. J \subseteq Nat /\ J # {}
  BY <1>0
<1>2. Min(J) \in J /\ \A y \in J : Min(J) <= y
  <2> HIDE DEF J
  <2> QED BY <1>1, MinIsLeast
<1>3. PICK x \in I : Min(J) = b - x
  BY <1>2
<1>4. \A y \in I : x >= y
  <2> TAKE y \in I
  <2>1. b - y \in J
    OBVIOUS
  <2>2. b - x <= b - y
    BY <1>2, <1>3, <2>1
  <2>3. x \in Nat /\ y \in Nat
    BY <1>0
  <2> QED BY <2>2, <2>3
<1>5. Max(I) \in I /\ \A y \in I : Max(I) >= y
  BY <1>4, Zenon DEF Max
<1>6. \A y \in I : y \in Nat /\ Max(I) \in Nat
  BY <1>0, <1>5
<1> QED BY <1>5, <1>6

\* A number below W that differs from n by a multiple of W is the remainder of n.
LEMMA Remainder ==
    ASSUME NEW W \in Nat \ {0}, NEW c \in 0..(W - 1), NEW t \in Nat, NEW n \in Nat, n = c + t * W
    PROVE  c = n % W
<1> DEFINE q == n \div W
           m == n % W
<1>1. q \in Nat /\ m \in 0..(W - 1) /\ n = W * q + m
  OBVIOUS
<1> HIDE DEF q, m
<1>2. c \in Nat /\ m \in Nat /\ c < W /\ m < W
  BY <1>1
<1>3. \A x \in Nat, y \in Nat, a \in Nat, b \in Nat :
         a < W /\ b < W /\ x * W + a = y * W + b => x <= y
  <2> SUFFICES ASSUME NEW x \in Nat, NEW y \in Nat, NEW a \in Nat, NEW b \in Nat,
                      a < W, b < W, x * W + a = y * W + b, x > y
               PROVE  FALSE
    OBVIOUS
  <2>1. PICK d \in Nat : x = y + 1 + d
    <3>1. x - y - 1 \in Nat /\ x = y + 1 + (x - y - 1)
      OBVIOUS
    <3> QED BY <3>1
  <2>2. x * W = y * W + W + d * W
    <3>1. (y + 1 + d) * W = y * W + W + d * W
      OBVIOUS
    <3> QED BY <2>1, <3>1
  <2>3. d * W \in Nat /\ y * W \in Nat
    OBVIOUS
  <2> DEFINE u == d * W
             v == y * W
  <2>4. u \in Nat /\ v \in Nat /\ (v + W + u) + a = v + b
    BY <2>2, <2>3
  <2> HIDE DEF u, v
  <2> QED BY <2>4
<1>4. t * W + c = q * W + m
  <2>1. q * W = W * q /\ W * q \in Nat /\ t * W \in Nat
    BY <1>1
  <2> DEFINE u == W * q
             v == t * W
  <2>2. u \in Nat /\ v \in Nat /\ q * W = u /\ n = u + m /\ n = c + v
    BY <1>1, <2>1
  <2> HIDE DEF u, v
  <2>3. v + c = u + m
    BY <1>2, <2>2
  <2> QED BY <2>2, <2>3 DEF v
<1>5. t = q
  <2>1. t <= q
    BY <1>1, <1>2, <1>3, <1>4
  <2>2. q <= t
    BY <1>1, <1>2, <1>3, <1>4
  <2> QED BY <1>1, <2>1, <2>2
<1>6. c = m
  <2> DEFINE v == t * W
  <2>1. v \in Nat /\ v + c = v + m
    BY <1>4, <1>5
  <2> HIDE DEF v
  <2> QED BY <1>2, <2>1
<1> QED BY <1>6 DEF m

=============================================================================
