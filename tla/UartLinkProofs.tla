--------------------------- MODULE UartLinkProofs ---------------------------
(***************************************************************************)
(* UartLink for every number and every size of lines that fits the         *)
(* buffers: types, what the DUT acts on, and what the testbench takes for  *)
(* the answer.  Both directions are read the same way: what one side still *)
(* has to send, what is on the wire and the last character the other side  *)
(* collected make a sequence of whole lines, of which one is begun.        *)
(***************************************************************************)
EXTENDS UartLink, SequenceTheorems, TLAPS

-----------------------------------------------------------------------------
(* Characters and words *)

LEMMA Constants ==
  MaxLines \in Nat /\ Room \in Nat /\ Sizes \subseteq 0..Room /\ AnswerSize = 2
  BY UartAssumption DEF UartAssumption, AnswerSize

LEMMA CharIs ==
  ASSUME NEW n \in 0..MaxLines, NEW k \in 0..(Room + AnswerSize)
  PROVE  [of |-> n, at |-> k] \in Chars
  BY DEF Chars

LEMMA CharFields ==
  ASSUME NEW c \in Chars
  PROVE  /\ c = [of |-> c.of, at |-> c.at]
         /\ c.of \in 0..MaxLines /\ c.at \in 0..(Room + AnswerSize)
         /\ c.of \in Int /\ c.at \in Int
  BY Constants DEF Chars

LEMMA EolIsChar == Eol \in Chars /\ Eol.of = 0 /\ Eol.at = 0
  BY CharIs, Constants DEF Eol

\* The words of a request, and the line one makes.
LEMMA WordIs ==
  ASSUME NEW n \in 0..MaxLines, NEW size \in 0..(Room + AnswerSize)
  PROVE  /\ Word(n, size) \in Seq(Chars) /\ Len(Word(n, size)) = size
         /\ \A k \in 1..size : Word(n, size)[k] = [of |-> n, at |-> k]
<1>1. size \in Nat /\ \A k \in 1..size : k \in 0..(Room + AnswerSize)
  BY Constants
<1>2. \A k \in 1..size : [of |-> n, at |-> k] \in Chars
  BY <1>1, CharIs
<1> QED BY <1>1, <1>2 DEF Word

LEMMA NoWord == ASSUME NEW n PROVE Word(n, 0) = <<>>
  BY DEF Word

LEMMA WordGrows ==
  ASSUME NEW n \in 0..MaxLines, NEW k \in Nat, k < Room + AnswerSize
  PROVE  Append(Word(n, k), [of |-> n, at |-> k + 1]) = Word(n, k + 1)
<1> DEFINE c == [of |-> n, at |-> k + 1]
<1>1. k \in 0..(Room + AnswerSize) /\ k + 1 \in 0..(Room + AnswerSize)
  BY Constants
<1>2. c \in Chars
  BY <1>1, CharIs
<1>3. /\ Word(n, k) \in Seq(Chars) /\ Len(Word(n, k)) = k
      /\ \A i \in 1..k : Word(n, k)[i] = [of |-> n, at |-> i]
  BY <1>1, WordIs
<1>4. /\ Word(n, k + 1) \in Seq(Chars) /\ Len(Word(n, k + 1)) = k + 1
      /\ \A i \in 1..(k + 1) : Word(n, k + 1)[i] = [of |-> n, at |-> i]
  BY <1>1, WordIs
<1>5. Word(n, k + 1)[k + 1] = c
  BY <1>4
<1> HIDE DEF c
<1>6. /\ Append(Word(n, k), c) \in Seq(Chars) /\ Len(Append(Word(n, k), c)) = k + 1
      /\ \A i \in 1..k : Append(Word(n, k), c)[i] = Word(n, k)[i]
      /\ Append(Word(n, k), c)[k + 1] = c
  BY <1>2, <1>3, AppendProperties
<1>7. \A i \in 1..(k + 1) : Append(Word(n, k), c)[i] = Word(n, k + 1)[i]
  BY <1>3, <1>4, <1>5, <1>6
<1>8. Append(Word(n, k), c) = Word(n, k + 1)
  BY <1>4, <1>6, <1>7, SeqEqual
<1> QED BY <1>8 DEF c

-----------------------------------------------------------------------------
(* Two queues in a row *)

LEMMA ConcatType ==
  ASSUME NEW S, NEW a \in Seq(S), NEW b \in Seq(S)
  PROVE  a \o b \in Seq(S)
  BY ConcatProperties

LEMMA Regroups ==
  \A a, b, c \in Seq(Chars) : a \o (b \o c) = (a \o b) \o c
  BY ConcatAssociative, SMTT(30)

\* What leaves the head of the second enters the first at its tail.
LEMMA Moves ==
  ASSUME NEW S, NEW a \in Seq(S), NEW b \in Seq(S), b # <<>>
  PROVE  Append(a, Head(b)) \o Tail(b) = a \o b
<1>1. Head(b) \in S /\ Tail(b) \in Seq(S) /\ <<Head(b)>> \in Seq(S)
  BY HeadTailProperties
<1>2. Append(a, Head(b)) = a \o <<Head(b)>>
  BY <1>1, AppendIsConcat
<1>3. (a \o <<Head(b)>>) \o Tail(b) = a \o (<<Head(b)>> \o Tail(b))
  BY <1>1, ConcatAssociative
<1>4. <<Head(b)>> \o Tail(b) = b
  OBVIOUS
<1> QED BY <1>2, <1>3, <1>4

\* What leaves the head of the first leaves the head of both.
LEMMA Leaves ==
  ASSUME NEW S, NEW c \in S, NEW a \in Seq(S), NEW b \in Seq(S), a # <<>>
  PROVE  /\ Tail(<<c>> \o (a \o b)) = <<Head(a)>> \o (Tail(a) \o b)
         /\ (<<c>> \o (a \o b))[1] = c /\ (<<c>> \o (a \o b))[2] = Head(a)
         /\ Len(<<c>> \o (a \o b)) > 1
<1>1. Head(a) \in S /\ Tail(a) \in Seq(S) /\ <<Head(a)>> \in Seq(S)
  BY HeadTailProperties
<1>2. <<Head(a)>> \o Tail(a) = a
  OBVIOUS
<1>3. <<Head(a)>> \o (Tail(a) \o b) = a \o b
  BY <1>1, <1>2, ConcatAssociative
<1>4. a \o b \in Seq(S) /\ Len(a \o b) > 0 /\ (a \o b)[1] = Head(a)
  <2>1. Len(a) \in Nat \ {0} /\ Len(b) \in Nat
    OBVIOUS
  <2> QED BY <2>1, ConcatProperties
<1> DEFINE d == a \o b
<1>5. d \in Seq(S) /\ Len(d) > 0 /\ d[1] = Head(a)
  BY <1>4
<1> HIDE DEF d
<1>6. Tail(<<c>> \o d) = d /\ (<<c>> \o d)[1] = c /\ (<<c>> \o d)[2] = d[1]
  BY <1>5
<1>7. Len(<<c>> \o d) > 1
  BY <1>5
<1> QED BY <1>3, <1>5, <1>6, <1>7 DEF d

-----------------------------------------------------------------------------
(* Sequences of whole lines *)

\* d may come after c; the words have size[n] characters.
Follows(d, c, size) ==
  IF c = Eol THEN d = Eol \/ d.at = 1
  ELSE d = IF c.at < size[c.of] THEN [of |-> c.of, at |-> c.at + 1] ELSE Eol

\* Lines of the requests in size, the first of which may have lost its beginning.
Lines(t, size) ==
  /\ t # <<>> /\ t[Len(t)] = Eol
  /\ \A k \in DOMAIN t : t[k] # Eol => t[k].of \in DOMAIN size /\ t[k].at \in 1..size[t[k].of]
  /\ \A k \in 1..(Len(t) - 1) : Follows(t[k + 1], t[k], size)

\* Later lines belong to later requests.
Ordered(t) ==
  \A i, j \in DOMAIN t :
    i < j /\ t[i] # Eol /\ t[j] # Eol =>
      \/ t[i].of < t[j].of
      \/ t[i].of = t[j].of /\ t[j].at = t[i].at + (j - i)

LEMMA TailLines ==
  ASSUME NEW t \in Seq(Chars), NEW size, Len(t) > 1, Lines(t, size)
  PROVE  Lines(Tail(t), size) /\ Follows(t[2], t[1], size)
<1>1. Len(t) \in Nat /\ DOMAIN t = 1..Len(t) /\ t # <<>>
  OBVIOUS
<1> DEFINE u == Tail(t)
<1>2. /\ u \in Seq(Chars) /\ Len(u) = Len(t) - 1 /\ DOMAIN u = 1..(Len(t) - 1)
      /\ \A k \in 1..(Len(t) - 1) : u[k] = t[k + 1]
  BY <1>1, HeadTailProperties
<1> HIDE DEF u
<1>3. u # <<>> /\ u[Len(u)] = Eol
  <2>1. Len(t) - 1 \in 1..(Len(t) - 1)
    BY <1>1
  <2>2. u[Len(u)] = t[Len(t)]
    BY <1>1, <1>2, <2>1
  <2> QED BY <1>2, <2>1, <2>2 DEF Lines
<1>4. \A k \in DOMAIN u : u[k] # Eol => u[k].of \in DOMAIN size /\ u[k].at \in 1..size[u[k].of]
  BY <1>1, <1>2 DEF Lines
<1>5. ASSUME NEW k \in 1..(Len(u) - 1) PROVE Follows(u[k + 1], u[k], size)
  <2>1. k + 1 \in 1..(Len(t) - 1) /\ k \in 1..(Len(t) - 1)
    BY <1>1, <1>2
  <2>2. u[k] = t[k + 1] /\ u[k + 1] = t[(k + 1) + 1]
    BY <1>2, <2>1
  <2> QED BY <2>1, <2>2 DEF Lines
<1>6. Follows(t[2], t[1], size)
  <2>1. 1 \in 1..(Len(t) - 1) /\ 1 + 1 = 2
    BY <1>1
  <2> QED BY <2>1 DEF Lines
<1> QED BY <1>3, <1>4, <1>5, <1>6 DEF Lines, u

LEMMA TailOrdered ==
  ASSUME NEW t \in Seq(Chars), Len(t) > 1, Ordered(t)
  PROVE  Ordered(Tail(t))
<1>1. Len(t) \in Nat /\ DOMAIN t = 1..Len(t) /\ t # <<>>
  OBVIOUS
<1> DEFINE u == Tail(t)
<1>2. /\ u \in Seq(Chars) /\ Len(u) = Len(t) - 1 /\ DOMAIN u = 1..(Len(t) - 1)
      /\ \A k \in 1..(Len(t) - 1) : u[k] = t[k + 1]
  BY <1>1, HeadTailProperties
<1> HIDE DEF u
<1>3. ASSUME NEW i \in DOMAIN u, NEW j \in DOMAIN u, i < j, u[i] # Eol, u[j] # Eol
      PROVE  \/ u[i].of < u[j].of
             \/ u[i].of = u[j].of /\ u[j].at = u[i].at + (j - i)
  <2>1. i + 1 \in DOMAIN t /\ j + 1 \in DOMAIN t /\ i + 1 < j + 1
        /\ (j + 1) - (i + 1) = j - i
    BY <1>1, <1>2, <1>3
  <2>2. u[i] = t[i + 1] /\ u[j] = t[j + 1]
    BY <1>2
  <2>3. \/ t[i + 1].of < t[j + 1].of
        \/ t[i + 1].of = t[j + 1].of /\ t[j + 1].at = t[i + 1].at + ((j + 1) - (i + 1))
    BY <1>3, <2>1, <2>2 DEF Ordered
  <2> QED BY <2>1, <2>2, <2>3
<1> QED BY <1>3 DEF Ordered, u

\* More lines.
LEMMA MoreLines ==
  ASSUME NEW t \in Seq(Chars), NEW u \in Seq(Chars), NEW size,
         Lines(t, size), Lines(u, size), u[1] = Eol \/ u[1].at = 1
  PROVE  Lines(t \o u, size)
<1>1. /\ Len(t) \in Nat /\ Len(t) >= 1 /\ Len(u) \in Nat /\ Len(u) >= 1
      /\ DOMAIN t = 1..Len(t) /\ DOMAIN u = 1..Len(u)
  BY DEF Lines
<1> DEFINE v == t \o u
<1>2. /\ v \in Seq(Chars) /\ Len(v) = Len(t) + Len(u)
      /\ \A k \in 1..(Len(t) + Len(u)) : v[k] = IF k <= Len(t) THEN t[k] ELSE u[k - Len(t)]
  BY ConcatProperties
<1>3. DOMAIN v = 1..(Len(t) + Len(u))
  BY <1>2
<1> HIDE DEF v
<1>4. v # <<>> /\ v[Len(v)] = Eol
  <2>1. Len(v) \in 1..(Len(t) + Len(u)) /\ ~(Len(v) <= Len(t)) /\ Len(v) - Len(t) = Len(u)
    BY <1>1, <1>2
  <2>2. v[Len(v)] = u[Len(u)]
    BY <1>2, <2>1
  <2> QED BY <1>3, <2>1, <2>2 DEF Lines
<1>5. ASSUME NEW k \in DOMAIN v, v[k] # Eol
      PROVE  v[k].of \in DOMAIN size /\ v[k].at \in 1..size[v[k].of]
  <2>1. CASE k <= Len(t)
    BY <1>1, <1>2, <1>3, <1>5, <2>1 DEF Lines
  <2>2. CASE ~(k <= Len(t))
    <3>1. k - Len(t) \in DOMAIN u /\ v[k] = u[k - Len(t)]
      BY <1>1, <1>2, <1>3, <2>2
    <3> QED BY <1>5, <3>1 DEF Lines
  <2> QED BY <2>1, <2>2
<1>6. ASSUME NEW k \in 1..(Len(v) - 1) PROVE Follows(v[k + 1], v[k], size)
  <2>0. k \in DOMAIN v /\ k + 1 \in DOMAIN v
    BY <1>1, <1>2, <1>3
  <2>1. CASE k < Len(t)
    <3>1. v[k] = t[k] /\ v[k + 1] = t[k + 1] /\ k \in 1..(Len(t) - 1)
      BY <1>1, <1>2, <1>3, <2>0, <2>1
    <3> QED BY <3>1 DEF Lines
  <2>2. CASE k = Len(t)
    <3>1. v[k] = t[Len(t)]
      BY <1>1, <1>2, <1>3, <2>0, <2>2
    <3>2. ~(k + 1 <= Len(t)) /\ (k + 1) - Len(t) = 1
      BY <1>1, <2>2
    <3>3. v[k + 1] = u[1]
      BY <1>2, <1>3, <2>0, <3>2
    <3> QED BY <3>1, <3>3 DEF Lines, Follows
  <2>3. CASE k > Len(t)
    <3>1. /\ ~(k <= Len(t)) /\ ~(k + 1 <= Len(t))
          /\ k - Len(t) \in 1..(Len(u) - 1) /\ (k + 1) - Len(t) = (k - Len(t)) + 1
      BY <1>1, <1>2, <2>3
    <3>2. v[k] = u[k - Len(t)] /\ v[k + 1] = u[(k - Len(t)) + 1]
      BY <1>2, <1>3, <2>0, <3>1, SMTT(30)
    <3> QED BY <3>1, <3>2 DEF Lines
  <2> QED BY <1>1, <2>1, <2>2, <2>3
<1> QED BY <1>4, <1>5, <1>6 DEF Lines, v

\* The line of a word.
LEMMA WordLine ==
  ASSUME NEW n \in 1..MaxLines, NEW size, n \in DOMAIN size, size[n] \in 0..(Room + AnswerSize)
  PROVE  LET w == Append(Word(n, size[n]), Eol)
         IN  /\ w \in Seq(Chars) /\ Len(w) = size[n] + 1
             /\ \A k \in 1..size[n] : w[k] = [of |-> n, at |-> k]
             /\ w[size[n] + 1] = Eol
             /\ Lines(w, size) /\ (w[1] = Eol \/ w[1].at = 1)
             /\ Ordered(w)
<1>1. PICK s \in 0..(Room + AnswerSize) : s = size[n]
  OBVIOUS
<1> DEFINE w == Append(Word(n, s), Eol)
<1>2. s \in Nat /\ n \in 0..MaxLines
  BY Constants
<1>3. /\ w \in Seq(Chars) /\ Len(w) = s + 1 /\ w[s + 1] = Eol
      /\ \A k \in 1..s : w[k] = Word(n, s)[k]
  BY <1>2, WordIs, EolIsChar, AppendProperties
<1>4. ASSUME NEW k \in 1..s
      PROVE  w[k] = [of |-> n, at |-> k] /\ w[k].of = n /\ w[k].at = k /\ w[k] # Eol
  <2>1. w[k] = [of |-> n, at |-> k]
    BY <1>2, <1>3, WordIs
  <2>2. w[k].of = n /\ w[k].at = k
    BY <2>1
  <2> QED BY <1>2, <2>1, <2>2, EolIsChar
<1>5. DOMAIN w = 1..(s + 1)
  BY <1>2, <1>3
<1> HIDE DEF w
<1>6. w # <<>> /\ w[Len(w)] = Eol
  BY <1>2, <1>3, <1>5
<1>7. \A k \in DOMAIN w : w[k] # Eol => w[k].of \in DOMAIN size /\ w[k].at \in 1..size[w[k].of]
  <2>1. \A k \in DOMAIN w : w[k] # Eol => k \in 1..s
    BY <1>2, <1>3, <1>5
  <2>2. \A k \in 1..s : w[k].of = n /\ w[k].at = k
    BY <1>4
  <2> QED BY <1>1, <2>1, <2>2
<1>8. ASSUME NEW k \in 1..(Len(w) - 1) PROVE Follows(w[k + 1], w[k], size)
  <2>1. k \in 1..s /\ w[k] = [of |-> n, at |-> k] /\ w[k] # Eol
    BY <1>2, <1>3, <1>4
  <2>2. CASE k < s
    <3>1. w[k + 1] = [of |-> n, at |-> k + 1]
      BY <1>2, <1>4, <2>1, <2>2
    <3> QED BY <1>1, <2>1, <2>2, <3>1 DEF Follows
  <2>3. CASE k = s
    BY <1>1, <1>2, <1>3, <2>1, <2>3 DEF Follows
  <2> QED BY <1>2, <2>1, <2>2, <2>3
<1>9. Lines(w, size)
  BY <1>6, <1>7, <1>8 DEF Lines
<1>10. w[1] = Eol \/ w[1].at = 1
  <2>1. CASE s = 0
    BY <1>3, <2>1
  <2>2. CASE s # 0
    <3>1. 1 \in 1..s
      BY <1>2, <2>2
    <3> QED BY <1>4, <3>1
  <2> QED BY <2>1, <2>2
<1>11. Ordered(w)
  <2>1. ASSUME NEW i \in DOMAIN w, NEW j \in DOMAIN w, i < j, w[i] # Eol, w[j] # Eol
        PROVE  w[i].of = w[j].of /\ w[j].at = w[i].at + (j - i)
    <3>1. i \in 1..s /\ j \in 1..s
      BY <1>2, <1>3, <1>5, <2>1
    <3>2. w[i].of = n /\ w[i].at = i /\ w[j].of = n /\ w[j].at = j
      BY <1>4, <3>1
    <3> QED BY <1>2, <3>1, <3>2
  <2> QED BY <2>1 DEF Ordered
<1> QED BY <1>1, <1>3, <1>4, <1>9, <1>10, <1>11 DEF w

\* The line of a later request keeps the order.
LEMMA MoreOrdered ==
  ASSUME NEW t \in Seq(Chars), NEW u \in Seq(Chars), Ordered(t), Ordered(u),
         \A i \in DOMAIN t : \A j \in DOMAIN u :
           t[i] # Eol /\ u[j] # Eol => t[i].of < u[j].of
  PROVE  Ordered(t \o u)
<1>1. /\ Len(t) \in Nat /\ Len(u) \in Nat
      /\ DOMAIN t = 1..Len(t) /\ DOMAIN u = 1..Len(u)
  OBVIOUS
<1> DEFINE v == t \o u
<1>2. /\ v \in Seq(Chars) /\ Len(v) = Len(t) + Len(u)
      /\ \A k \in 1..(Len(t) + Len(u)) : v[k] = IF k <= Len(t) THEN t[k] ELSE u[k - Len(t)]
  BY ConcatProperties
<1>3. DOMAIN v = 1..(Len(t) + Len(u))
  BY <1>2
<1> HIDE DEF v
<1>4. ASSUME NEW i \in DOMAIN v, NEW j \in DOMAIN v, i < j, v[i] # Eol, v[j] # Eol
      PROVE  \/ v[i].of < v[j].of
             \/ v[i].of = v[j].of /\ v[j].at = v[i].at + (j - i)
  <2>1. CASE j <= Len(t)
    <3>1. i \in DOMAIN t /\ j \in DOMAIN t /\ v[i] = t[i] /\ v[j] = t[j]
      BY <1>1, <1>2, <1>3, <1>4, <2>1
    <3> QED BY <1>4, <3>1 DEF Ordered
  <2>2. CASE i <= Len(t) /\ ~(j <= Len(t))
    <3>1. i \in DOMAIN t /\ j - Len(t) \in DOMAIN u /\ v[i] = t[i] /\ v[j] = u[j - Len(t)]
      BY <1>1, <1>2, <1>3, <2>2
    <3> QED BY <1>4, <3>1
  <2>3. CASE ~(i <= Len(t)) /\ ~(j <= Len(t))
    <3>1. /\ i - Len(t) \in DOMAIN u /\ j - Len(t) \in DOMAIN u
          /\ i - Len(t) < j - Len(t) /\ (j - Len(t)) - (i - Len(t)) = j - i
      BY <1>1, <1>3, <1>4, <2>3
    <3>2. v[i] = u[i - Len(t)] /\ v[j] = u[j - Len(t)]
      BY <1>2, <1>3, <2>3
    <3>3. \/ u[i - Len(t)].of < u[j - Len(t)].of
          \/ /\ u[i - Len(t)].of = u[j - Len(t)].of
             /\ u[j - Len(t)].at = u[i - Len(t)].at + ((j - Len(t)) - (i - Len(t)))
      BY <1>4, <3>1, <3>2 DEF Ordered
    <3> QED BY <3>1, <3>2, <3>3
  <2> QED BY <1>1, <1>3, <1>4, <2>1, <2>2, <2>3
<1> QED BY <1>4 DEF Ordered, v

\* What was asked for stays so.
LEMMA SameLines ==
  ASSUME NEW t, NEW size, NEW size2, Lines(t, size),
         \A n \in DOMAIN size : n \in DOMAIN size2 /\ size2[n] = size[n]
  PROVE  Lines(t, size2)
<1>1. \A k \in DOMAIN t : t[k] # Eol => t[k].of \in DOMAIN size2 /\ t[k].at \in 1..size2[t[k].of]
  BY DEF Lines
<1>2. \A k \in 1..(Len(t) - 1) : Follows(t[k + 1], t[k], size2)
  BY DEF Lines, Follows
<1> QED BY <1>1, <1>2 DEF Lines

-----------------------------------------------------------------------------
(* The inductive invariant *)

\* TypeOK, variable by variable.
Types ==
  /\ tpc \in {"idle", "flush", "send", "read"}
  /\ op \in {"NONE", "UART_WRITE", "UART_READ", "UART_SEND_EXPECT"}
  /\ left \in Seq(Chars) /\ line \in Seq(Chars) /\ down \in Seq(Chars) /\ up \in Seq(Chars)
  /\ command \in Seq(Chars) /\ local \in Seq(Chars) /\ todo \in Seq(Chars)
  /\ dut \in {"DUT1", "DUT3"}
  /\ rx \in Seq(Chars) /\ Len(rx) <= Room
  /\ got \in [done : BOOLEAN, text : Seq(Chars)]
  /\ reads \in 0..2
  /\ asked \in Seq([size : Sizes, settled : BOOLEAN]) /\ Len(asked) <= MaxLines
  /\ ready \in BOOLEAN
  /\ dpc \in {"check", "copy", "clear", "wipe", "process", "answer"}
  /\ handled \in Seq(Seq(Chars))
  /\ dpc # "wipe" => (ready <=> command # <<>>)

\* A text that is sent to its end ends with an end of line.
Ends(text) == text # <<>> => text[Len(text)] = Eol

\* Which of the variables have a meaning where.
Shape ==
  /\ tpc # "send" => left = <<>>
  /\ tpc = "flush" => Len(asked) < MaxLines
  /\ tpc \in {"flush", "send"} => reads = 0
  /\ tpc = "read" => reads # 0
  /\ tpc # "idle" => got = Nothing
  /\ dut = "DUT3" => ~ready /\ dpc = "check"
  /\ dut = "DUT1" /\ dpc # "answer" => todo = <<>>
  /\ Ends(todo)
  /\ dpc \in {"copy", "clear"} => ready
  /\ dpc = "wipe" => ~ready
  /\ asked = <<>> => /\ down = <<>> /\ left = <<>> /\ rx = <<>> /\ up = <<>> /\ todo = <<>>
                     /\ ~ready /\ dpc = "check" /\ ~got.done /\ handled = <<>>

LEMMA TypesAre == Types => TypeOK
  BY DEF Types, TypeOK

LEMMA RequestOfType ==
  ASSUME Types, NEW text
  PROVE  RequestOf(text) \in 0..MaxLines /\ RequestOf(text) \in {0} \cup DOMAIN asked
<1>1. Len(asked) \in Nat /\ DOMAIN asked = 1..Len(asked) /\ Len(asked) <= MaxLines
  BY DEF Types
<1> DEFINE whole == {n \in DOMAIN asked : text = Word(n, asked[n].size) /\ text # <<>>}
<1>2. RequestOf(text) = IF whole = {} THEN 0 ELSE CHOOSE n \in whole : TRUE
  BY DEF RequestOf
<1>3. whole # {} => (CHOOSE n \in whole : TRUE) \in whole
  OBVIOUS
<1>4. RequestOf(text) = 0 \/ RequestOf(text) \in DOMAIN asked
  BY <1>2, <1>3
<1> HIDE DEF whole
<1> QED BY <1>1, <1>4, Constants

LEMMA EndsTail ==
  ASSUME NEW text \in Seq(Chars), text # <<>>, Ends(text)
  PROVE  Tail(text) \in Seq(Chars) /\ Ends(Tail(text)) /\ Head(text) \in Chars
<1>1. Len(text) \in Nat \ {0} /\ text[Len(text)] = Eol
  BY DEF Ends
<1>2. /\ Tail(text) \in Seq(Chars) /\ Len(Tail(text)) = Len(text) - 1 /\ Head(text) \in Chars
      /\ \A i \in 1..Len(Tail(text)) : Tail(text)[i] = text[i + 1]
  BY HeadTailProperties
<1> DEFINE u == Tail(text)
<1>3. u # <<>> => Len(u) \in 1..Len(u) /\ u[Len(u)] = text[Len(text)]
  <2>1. u # <<>> => Len(u) \in Nat \ {0}
    BY <1>2
  <2> QED BY <1>1, <1>2, <2>1
<1> QED BY <1>1, <1>2, <1>3 DEF Ends

LEMMA EndsConcat ==
  ASSUME NEW text \in Seq(Chars), NEW u \in Seq(Chars), u # <<>>, Ends(u)
  PROVE  text \o u \in Seq(Chars) /\ Ends(text \o u)
<1>1. Len(text) \in Nat /\ Len(u) \in Nat \ {0} /\ u[Len(u)] = Eol
  BY DEF Ends
<1>2. /\ text \o u \in Seq(Chars) /\ Len(text \o u) = Len(text) + Len(u)
      /\ \A i \in 1..(Len(text) + Len(u)) :
           (text \o u)[i] = IF i <= Len(text) THEN text[i] ELSE u[i - Len(text)]
  BY ConcatProperties
<1>3. /\ Len(text) + Len(u) \in 1..(Len(text) + Len(u)) /\ ~(Len(text) + Len(u) <= Len(text))
      /\ (Len(text) + Len(u)) - Len(text) = Len(u)
  BY <1>1
<1>4. (text \o u)[Len(text) + Len(u)] = u[Len(u)]
  BY <1>2, <1>3
<1> QED BY <1>1, <1>2, <1>4 DEF Ends

LEMMA EndsAppend ==
  ASSUME NEW text \in Seq(Chars)
  PROVE  /\ Append(text, Eol) \in Seq(Chars) /\ Append(text, Eol) # <<>>
         /\ Ends(Append(text, Eol))
  BY EolIsChar, AppendProperties DEF Ends

LEMMA EchoIs ==
  ASSUME Types, rx # <<>>
  PROVE  /\ Echo = Append(rx, Eol) \o <<Eol>> /\ Echo \in Seq(Chars)
         /\ Echo # <<>> /\ Ends(Echo)
<1>1. rx \in Seq(Chars) /\ <<Eol>> \in Seq(Chars) /\ <<Eol>> # <<>> /\ Ends(<<Eol>>)
  BY EolIsChar DEF Types, Ends
<1>2. <<Eol, Eol>> = <<Eol>> \o <<Eol>>
  OBVIOUS
<1>3. rx \o <<Eol, Eol>> = (rx \o <<Eol>>) \o <<Eol>>
  BY <1>1, <1>2, ConcatAssociative
<1>4. rx \o <<Eol>> = Append(rx, Eol)
  BY <1>1, EolIsChar, AppendIsConcat
<1>5. Echo = Append(rx, Eol) \o <<Eol>>
  BY <1>3, <1>4 DEF Echo
<1>6. Append(rx, Eol) \in Seq(Chars)
  BY <1>1, EolIsChar, AppendProperties
<1>7. Append(rx, Eol) \o <<Eol>> \in Seq(Chars) /\ Ends(Append(rx, Eol) \o <<Eol>>)
  BY <1>1, <1>6, EndsConcat
<1>8. Append(rx, Eol) \o <<Eol>> # <<>>
  BY <1>1, <1>6
<1> QED BY <1>5, <1>7, <1>8

LEMMA ShapeInit == Init => Types /\ Shape
<1> SUFFICES ASSUME Init PROVE Types /\ Shape
  OBVIOUS
<1>1. \A S : <<>> \in Seq(S) /\ Len(<<>>) = 0
  BY EmptySeq
<1>2. got = Nothing /\ got \in [done : BOOLEAN, text : Seq(Chars)] /\ ~got.done
  BY <1>1 DEF Init, ServiceInit, Nothing
<1>3. Types
  <2>1. /\ tpc = "idle" /\ op = "NONE" /\ left = <<>> /\ line = <<>>
        /\ reads = 0 /\ asked = <<>> /\ up = <<>>
    BY DEF Init, ServiceInit
  <2>2. /\ dut \in {"DUT1", "DUT3"} /\ down = <<>>
        /\ rx = <<>> /\ command = <<>> /\ ready = FALSE
        /\ dpc = "check" /\ local = <<>> /\ todo = <<>> /\ handled = <<>>
    BY DEF Init, DutInit
  <2>3. Len(asked) <= MaxLines /\ Len(rx) <= Room
    BY <1>1, <2>1, <2>2, Constants
  <2>4. /\ <<>> \in Seq(Chars) /\ <<>> \in Seq(Seq(Chars))
        /\ <<>> \in Seq([size : Sizes, settled : BOOLEAN])
    BY <1>1
  <2>5. /\ left \in Seq(Chars) /\ line \in Seq(Chars) /\ down \in Seq(Chars) /\ up \in Seq(Chars)
        /\ command \in Seq(Chars) /\ local \in Seq(Chars) /\ todo \in Seq(Chars)
        /\ rx \in Seq(Chars) /\ handled \in Seq(Seq(Chars))
        /\ asked \in Seq([size : Sizes, settled : BOOLEAN])
    BY <2>1, <2>2, <2>4
  <2>6. (ready <=> command # <<>>) /\ ready \in BOOLEAN
    BY <2>2, Zenon
  <2>8. reads \in 0..2
    BY <2>1
  <2>7. /\ tpc \in {"idle", "flush", "send", "read"}
        /\ op \in {"NONE", "UART_WRITE", "UART_READ", "UART_SEND_EXPECT"}
        /\ dpc \in {"check", "copy", "clear", "wipe", "process", "answer"}
    BY <2>1, <2>2
  <2> QED BY <1>2, <2>2, <2>3, <2>5, <2>6, <2>7, <2>8 DEF Types
<1>4. Shape
  BY <1>2 DEF Init, ServiceInit, DutInit, Shape, Ends
<1> QED BY <1>3, <1>4

LEMMA ShapeStep == Types /\ Shape /\ [Next]_vars => Types' /\ Shape'
<1> SUFFICES ASSUME Types, Shape, [Next]_vars PROVE Types' /\ Shape'
  OBVIOUS
<1>0. Len(asked) \in Nat /\ Nothing \in [done : BOOLEAN, text : Seq(Chars)] /\ ~Nothing.done
  BY DEF Types, Nothing
<1>1. CASE StartRead
  BY <1>0, <1>1 DEF StartRead, Types, Shape, isr, mainloop, handover
<1>2. ASSUME NEW o \in {"UART_WRITE", "UART_SEND_EXPECT"}, StartWrite(o)
      PROVE  Types' /\ Shape'
  BY <1>0, <1>2 DEF StartWrite, Types, Shape, isr, mainloop, handover
<1>3. CASE Flush
  <2>1. PICK size \in Sizes :
          /\ asked' = Append(asked, [size |-> size, settled |-> Settled])
          /\ left' = Append(Word(Len(asked) + 1, size), Eol)
    BY <1>3 DEF Flush
  <2>2. Len(asked) < MaxLines
    BY <1>3 DEF Flush, Shape
  <2>3. Len(asked) + 1 \in 0..MaxLines /\ size \in 0..(Room + AnswerSize)
    BY <1>0, <2>2, Constants
  <2>4. left' \in Seq(Chars)
    BY <2>1, <2>3, WordIs, EndsAppend
  <2>5. Settled \in BOOLEAN
    BY DEF Settled
  <2>6. [size |-> size, settled |-> Settled] \in [size : Sizes, settled : BOOLEAN]
    BY <2>5
  <2>7. /\ asked' \in Seq([size : Sizes, settled : BOOLEAN]) /\ Len(asked') <= MaxLines
        /\ asked' # <<>>
    <3> DEFINE r == [size |-> size, settled |-> Settled]
               R == [size : Sizes, settled : BOOLEAN]
    <3>1. r \in R /\ asked \in Seq(R) /\ asked' = Append(asked, r)
      BY <2>1, <2>6 DEF Types
    <3> HIDE DEF r, R
    <3>2. asked' \in Seq(R) /\ asked' # <<>> /\ Len(asked') = Len(asked) + 1
      BY <3>1, AppendProperties
    <3> QED BY <1>0, <2>2, <3>2, Constants DEF R
  <2>8. up' = <<>> /\ up' \in Seq(Chars)
    BY <1>3 DEF Flush, Flushed
  <2>9. /\ tpc = "flush" /\ tpc' = "send"
        /\ UNCHANGED <<op, line, got, reads, down, dut, rx, dpc, local, todo, handled,
                       command, ready>>
    BY <1>3 DEF Flush, isr, mainloop, handover
  <2> QED BY <2>4, <2>7, <2>8, <2>9 DEF Types, Shape
<1>4. CASE SendChar
  <2>1. Head(left) \in Chars /\ Tail(left) \in Seq(Chars)
    BY <1>4, HeadTailProperties DEF SendChar, Types
  <2>2. down' \in Seq(Chars) /\ left' \in Seq(Chars)
    BY <1>4, <2>1, AppendProperties DEF SendChar, Types
  <2> QED BY <1>4, <2>2 DEF SendChar, Types, Shape, isr, mainloop, handover
<1>5. CASE SendDone
  BY <1>5 DEF SendDone, Types, Shape, isr, mainloop, handover
<1>6. CASE ReadChar
  <2>1. Head(up) \in Chars /\ Tail(up) \in Seq(Chars) /\ up # <<>>
    BY <1>6, HeadTailProperties DEF ReadChar, Types
  <2>2. /\ tpc = "read" /\ tpc' \in {"read", "idle"} /\ line' \in Seq(Chars)
        /\ got' \in [done : BOOLEAN, text : Seq(Chars)] /\ (tpc' = "read" => got' = got)
    <3>1. CASE Head(up) = Eol
      <4>1. CASE line = <<>>
        BY <1>6, <3>1, <4>1 DEF ReadChar, Types
      <4>2. CASE line # <<>>
        <5>1. tpc' = "idle" /\ got' = [done |-> TRUE, text |-> line] /\ line' = line
          BY <1>6, <3>1, <4>2 DEF ReadChar
        <5>2. tpc = "read" /\ line \in Seq(Chars)
          BY <1>6 DEF ReadChar, Types
        <5> QED BY <5>1, <5>2
      <4> QED BY <4>1, <4>2
    <3>2. CASE Head(up) # Eol
      <4>1. line' = Append(line, Head(up)) /\ UNCHANGED <<tpc, got>> /\ tpc = "read"
        BY <1>6, <3>2 DEF ReadChar
      <4> QED BY <2>1, <4>1, AppendProperties DEF Types
    <3> QED BY <3>1, <3>2
  <2>3. /\ up' = Tail(up) /\ asked # <<>>
        /\ UNCHANGED <<op, left, reads, asked, down, dut, rx, dpc, local, todo, handled,
                       command, ready>>
    BY <1>6 DEF ReadChar, Shape, isr, mainloop, handover
  <2> QED BY <2>1, <2>2, <2>3 DEF Types, Shape
<1>7. CASE ReadTimeout
  BY <1>7 DEF ReadTimeout, Types, Shape, isr, mainloop, handover
<1>8. CASE RxInterrupt
  <2>1. /\ Head(down) \in Chars /\ Tail(down) \in Seq(Chars) /\ asked # <<>>
        /\ dpc \notin {"copy", "clear", "wipe"}
    BY <1>8, HeadTailProperties DEF RxInterrupt, Types, Shape, Locked
  <2>2. rx' \in Seq(Chars) /\ Len(rx') <= Room
    <3>1. Len(rx) \in Nat /\ rx \in Seq(Chars)
      BY DEF Types
    <3>2. CASE Head(down) = Eol
      BY <1>8, <3>2, Constants DEF RxInterrupt
    <3>3. CASE Head(down) # Eol /\ Len(rx) < Room
      <4>1. rx' = Append(rx, Head(down))
        BY <1>8, <3>3 DEF RxInterrupt, Collected
      <4> QED BY <2>1, <3>1, <3>3, <4>1, AppendProperties, Constants
    <3>4. CASE Head(down) # Eol /\ ~(Len(rx) < Room)
      <4>1. rx' = <<>>
        BY <1>8, <3>4 DEF RxInterrupt, Collected
      <4> QED BY <4>1, Constants
    <3> QED BY <3>2, <3>3, <3>4
  <2>3. \/ UNCHANGED <<command, ready>>
        \/ command' = rx /\ ready' = TRUE /\ rx # <<>>
    BY <1>8 DEF RxInterrupt, HandOver, handover
  <2>4. /\ dut = "DUT1" /\ down' = Tail(down)
        /\ UNCHANGED <<tpc, op, left, line, got, reads, asked, up, dut, dpc, local, todo, handled>>
    BY <1>8 DEF RxInterrupt, testbench, mainloop
  <2>5. Types'
    <3>1. CASE UNCHANGED <<command, ready>>
      BY <2>1, <2>2, <2>4, <3>1 DEF Types
    <3>2. CASE command' = rx /\ ready' = TRUE /\ rx # <<>>
      BY <2>1, <2>2, <2>4, <3>2 DEF Types
    <3> QED BY <2>3, <3>1, <3>2
  <2>6. Ends(todo)'
    BY <2>4 DEF Shape
  <2>7. Shape'
    BY <2>1, <2>3, <2>4, <2>6 DEF Shape
  <2> QED BY <2>5, <2>7
<1>9. CASE Check
  BY <1>9 DEF Check, Types, Shape, testbench, isr, handover
<1>10. CASE Copy
  BY <1>10 DEF Copy, Types, Shape, testbench, isr, handover
<1>11. CASE Clear
  BY <1>11 DEF Clear, Types, Shape, testbench, isr
<1>12. CASE Wipe
  BY <1>12 DEF Wipe, Types, Shape, testbench, isr
<1>13. CASE Process
  <2>1. dut = "DUT1" /\ asked # <<>>
    BY <1>13 DEF Process, Shape, Types
  <2>2. AnswerSize \in 0..(Room + AnswerSize)
    BY Constants
  <2>3. Answer(RequestOf(local)) \in Seq(Chars)
    BY <2>1, <2>2, RequestOfType, WordIs DEF Answer
  <2>4. todo' \in Seq(Chars) /\ Ends(todo')
    BY <1>13, <2>3, EndsAppend DEF Process, AnswerLine
  <2>5. handled' \in Seq(Seq(Chars))
    BY <1>13, AppendProperties DEF Process, Types
  <2>6. /\ dpc = "process" /\ dpc' = "answer"
        /\ UNCHANGED <<tpc, op, left, line, got, reads, asked, down, up, dut, rx, command, ready,
                       local>>
    BY <1>13 DEF Process, testbench, isr, handover
  <2> QED BY <2>1, <2>4, <2>5, <2>6 DEF Types, Shape
<1>14. CASE AnswerChar
  <2>1. /\ dpc = "answer" /\ todo # <<>> /\ asked # <<>> /\ dut = "DUT1"
        /\ up' = Append(up, Head(todo)) /\ todo' = Tail(todo)
        /\ dpc' = IF todo' = <<>> THEN "check" ELSE "answer"
        /\ UNCHANGED <<tpc, op, left, line, got, reads, asked, down, dut, rx, command, ready,
                       local, handled>>
    BY <1>14 DEF AnswerChar, Shape, Types, testbench, isr, handover
  <2>2. todo' \in Seq(Chars) /\ Ends(todo') /\ Head(todo) \in Chars
    BY <2>1, EndsTail DEF Types, Shape
  <2>3. up' \in Seq(Chars)
    BY <2>1, <2>2, AppendProperties DEF Types
  <2> QED BY <2>1, <2>2, <2>3 DEF Types, Shape
<1>15. CASE EchoInterrupt
  <2>1. Head(down) \in Chars /\ Tail(down) \in Seq(Chars) /\ asked # <<>>
    BY <1>15, HeadTailProperties DEF EchoInterrupt, Types, Shape
  <2>2. rx' \in Seq(Chars) /\ Len(rx') <= Room
    <3>1. Len(rx) \in Nat /\ rx \in Seq(Chars)
      BY DEF Types
    <3>2. CASE Head(down) = Eol
      BY <1>15, <3>2, Constants DEF EchoInterrupt
    <3>3. CASE Head(down) # Eol /\ Len(rx) < Room
      <4>1. rx' = Append(rx, Head(down))
        BY <1>15, <3>3 DEF EchoInterrupt
      <4> QED BY <2>1, <3>1, <3>3, <4>1, AppendProperties, Constants
    <3>4. CASE Head(down) # Eol /\ ~(Len(rx) < Room)
      BY <1>15, <3>4 DEF EchoInterrupt, Types
    <3> QED BY <3>2, <3>3, <3>4
  <2>3. todo' \in Seq(Chars) /\ Ends(todo') /\ handled' \in Seq(Seq(Chars))
    <3>1. CASE Head(down) = Eol /\ rx # <<>>
      <4>1. todo' = todo \o Echo /\ handled' = Append(handled, rx)
        BY <1>15, <3>1 DEF EchoInterrupt
      <4> QED BY <3>1, <4>1, EchoIs, EndsConcat, AppendProperties DEF Types
    <3>2. CASE Head(down) = Eol /\ rx = <<>>
      <4>1. todo' = todo \o <<>> /\ handled' = handled
        BY <1>15, <3>2 DEF EchoInterrupt, Echo
      <4>2. todo' = todo
        BY <4>1, ConcatEmptySeq DEF Types
      <4> QED BY <4>1, <4>2 DEF Types, Shape
    <3>3. CASE Head(down) # Eol
      BY <1>15, <3>3 DEF EchoInterrupt, Types, Shape
    <3> QED BY <3>1, <3>2, <3>3
  <2>4. /\ dut = "DUT3" /\ down' = Tail(down)
        /\ UNCHANGED <<tpc, op, left, line, got, reads, asked, up, dut, dpc, local, command, ready>>
    BY <1>15 DEF EchoInterrupt, testbench, handover
  <2> QED BY <2>1, <2>2, <2>3, <2>4 DEF Types, Shape
<1>16. CASE EchoChar
  <2>1. /\ todo # <<>> /\ asked # <<>> /\ dut = "DUT3"
        /\ up' = Append(up, Head(todo)) /\ todo' = Tail(todo)
        /\ UNCHANGED <<tpc, op, left, line, got, reads, asked, down, dut, rx, command, ready,
                       dpc, local, handled>>
    BY <1>16 DEF EchoChar, Shape, testbench, isr, handover
  <2>2. todo' \in Seq(Chars) /\ Ends(todo') /\ Head(todo) \in Chars
    BY <2>1, EndsTail DEF Types, Shape
  <2>3. up' \in Seq(Chars)
    BY <2>1, <2>2, AppendProperties DEF Types
  <2> QED BY <2>1, <2>2, <2>3 DEF Types, Shape
<1>17. CASE Overrun
  <2>1. /\ Len(down) > 1 /\ down' = <<Head(down)>> \o Tail(Tail(down))
        /\ UNCHANGED <<tpc, op, left, line, got, reads, asked, up, dut, rx, command, ready,
                       dpc, local, todo, handled>>
    BY <1>17 DEF Overrun, testbench, isr, mainloop, handover
  <2>2. down' \in Seq(Chars) /\ down # <<>>
    <3>0. down \in Seq(Chars) /\ Len(down) \in Nat /\ down # <<>>
      BY <2>1, EmptySeq DEF Types
    <3>1. Head(down) \in Chars /\ Tail(down) \in Seq(Chars) /\ Tail(down) # <<>> /\ down # <<>>
      <4>1. Len(Tail(down)) = Len(down) - 1 /\ Head(down) \in Chars /\ Tail(down) \in Seq(Chars)
        BY <3>0, HeadTailProperties
      <4>2. Len(Tail(down)) # 0
        BY <2>1, <3>0, <4>1
      <4> QED BY <3>0, <4>1, <4>2, EmptySeq
    <3>2. Tail(Tail(down)) \in Seq(Chars) /\ <<Head(down)>> \in Seq(Chars)
      BY <3>1, HeadTailProperties
    <3> QED BY <2>1, <3>1, <3>2, ConcatType
  <2> QED BY <2>1, <2>2 DEF Types, Shape
<1>18. CASE UNCHANGED vars
  BY <1>18 DEF vars, testbench, isr, mainloop, handover, Types, Shape
<1> QED
  BY <1>1, <1>2, <1>3, <1>4, <1>5, <1>6, <1>7, <1>8, <1>9, <1>10, <1>11, <1>12, <1>13,
     <1>14, <1>15, <1>16, <1>17, <1>18
  DEF Next, Testbench, Dut, MainLoop

\* The statics of uart_service.c, uart_app.c and uart_echo.c keep their types, no
\* buffer overflows, and command_ready says whether command_buffer holds a line.
THEOREM TypeCorrect == Spec => []TypeOK
  BY ShapeInit, ShapeStep, TypesAre, PTL DEF Spec

-----------------------------------------------------------------------------
(* To the DUT *)

\* The character that was collected last; an end of line if there is none.
Prev(text) == IF text = <<>> THEN Eol ELSE text[Len(text)]

Down  == <<Prev(rx)>> \o (down \o left)
Asked == [n \in DOMAIN asked |-> asked[n].size]

\* The whole line of a request, and a request that no character of t belongs to
\* or comes before.
Whole(text, size) ==
  /\ text # <<>> /\ text[1].of \in DOMAIN size
  /\ text = Word(text[1].of, size[text[1].of])
Past(n, t) == \A k \in DOMAIN t : t[k] # Eol => n < t[k].of

\* DUT1 is never deaf; DUT3 is not if the last line was begun on a settled link.
LastSettled == asked # <<>> /\ Last.settled
Calm        == dut = "DUT1" \/ asked = <<>> \/ Last.settled
Orderly     == dut = "DUT1" \/ \A n \in DOMAIN asked : asked[n].settled

InStream ==
  Calm => /\ Lines(Down, Asked)
          /\ rx # <<>> => rx = Word(rx[1].of, Len(rx))

\* A line begun on a settled link is the only one on the way.
OneLine ==
  LastSettled =>
    /\ \A k \in DOMAIN Down : Down[k] # Eol => Down[k].of = Len(asked)
    /\ \A k \in 2..(Len(Down) - 1) : Down[k] # Eol
    /\ Echoing => down = <<>> /\ left = <<>>
    /\ ready => command[1].of = Len(asked)
    /\ dpc \in {"clear", "wipe", "process"} => local[1].of = Len(asked)

\* Requests are handled before the one that is being processed, this one before
\* the one that was handed over, and all of them before those on the way.
InOrder ==
  Orderly =>
    /\ Ordered(Down)
    /\ \A i \in DOMAIN handled : Whole(handled[i], Asked) /\ Past(handled[i][1].of, Down)
    /\ \A i, j \in DOMAIN handled : i < j => handled[i][1].of < handled[j][1].of
    /\ dpc \in {"clear", "wipe", "process"} =>
         /\ Whole(local, Asked) /\ Past(local[1].of, Down)
         /\ \A i \in DOMAIN handled : handled[i][1].of < local[1].of
    /\ dpc = "clear" => command = local
    /\ ready =>
         /\ Whole(command, Asked) /\ Past(command[1].of, Down)
         /\ \A i \in DOMAIN handled : handled[i][1].of < command[1].of
         /\ dpc = "process" => local[1].of < command[1].of

SInv == Types /\ Shape /\ InStream /\ OneLine

LEMMA AskedIs ==
  ASSUME Types
  PROVE  /\ Len(asked) \in Nat /\ DOMAIN asked = 1..Len(asked) /\ DOMAIN Asked = 1..Len(asked)
         /\ \A n \in DOMAIN asked : /\ n \in 1..MaxLines /\ n \in 0..MaxLines /\ n \in Nat
                                    /\ Asked[n] = asked[n].size
                                    /\ Asked[n] \in 0..Room /\ Asked[n] \in 0..(Room + AnswerSize)
<1>1. /\ Len(asked) \in Nat /\ DOMAIN asked = 1..Len(asked) /\ Len(asked) <= MaxLines
      /\ \A n \in DOMAIN asked : asked[n] \in [size : Sizes, settled : BOOLEAN]
  <2> DEFINE R == [size : Sizes, settled : BOOLEAN]
  <2>1. asked \in Seq(R) /\ Len(asked) <= MaxLines
    BY DEF Types
  <2> HIDE DEF R
  <2>2. /\ Len(asked) \in Nat /\ DOMAIN asked = 1..Len(asked)
        /\ \A n \in 1..Len(asked) : asked[n] \in R
    BY <2>1
  <2> QED BY <2>1, <2>2 DEF R
<1>2. \A n \in DOMAIN asked : asked[n].size \in Sizes
  BY <1>1
<1>3. \A n \in DOMAIN asked : Asked[n] = asked[n].size
  BY DEF Asked
<1>4. \A s \in Sizes : s \in 0..Room /\ s \in 0..(Room + AnswerSize)
  BY Constants
<1>5. \A n \in 1..Len(asked) : n \in 1..MaxLines /\ n \in 0..MaxLines /\ n \in Nat
  BY <1>1, Constants
<1>6. DOMAIN Asked = DOMAIN asked
  BY DEF Asked
<1> QED BY <1>1, <1>2, <1>3, <1>4, <1>5, <1>6

LEMMA PrevType == ASSUME NEW text \in Seq(Chars) PROVE Prev(text) \in Chars
<1>1. CASE text = <<>>
  BY <1>1, EolIsChar DEF Prev
<1>2. CASE text # <<>>
  <2>1. Len(text) \in 1..Len(text)
    BY <1>2, EmptySeq
  <2> QED BY <1>2, <2>1, ElementOfSeq DEF Prev
<1> QED BY <1>1, <1>2

LEMMA DownIs ==
  ASSUME Types
  PROVE  /\ Prev(rx) \in Chars /\ down \o left \in Seq(Chars) /\ Down \in Seq(Chars)
         /\ Down[1] = Prev(rx) /\ 1 \in DOMAIN Down
         /\ Len(Down) = 1 + Len(down) + Len(left) /\ Len(Down) \in Nat
         /\ DOMAIN Down = 1..Len(Down)
<1>1. Prev(rx) \in Chars /\ down \in Seq(Chars) /\ left \in Seq(Chars)
  BY PrevType DEF Types
<1>2. down \o left \in Seq(Chars) /\ Len(down \o left) = Len(down) + Len(left)
  BY <1>1, ConcatProperties
<1>3. Len(down) \in Nat /\ Len(left) \in Nat
  BY <1>1
<1> DEFINE d == down \o left
           p == Prev(rx)
<1>4. d \in Seq(Chars) /\ p \in Chars /\ Len(d) = Len(down) + Len(left)
  BY <1>1, <1>2
<1> HIDE DEF d, p
<1>5. /\ <<p>> \o d \in Seq(Chars) /\ (<<p>> \o d)[1] = p /\ Len(<<p>> \o d) = 1 + Len(d)
  BY <1>4
<1>6. /\ Down \in Seq(Chars) /\ Down[1] = p /\ Len(Down) = 1 + Len(d)
  BY <1>5 DEF Down, d, p
<1>7. DOMAIN Down = 1..Len(Down)
  BY <1>6
<1>8. 1 \in DOMAIN Down
  BY <1>3, <1>4, <1>6, <1>7
<1> QED BY <1>3, <1>4, <1>6, <1>7, <1>8 DEF d, p

\* The testbench sends a character: what is on the way stays.
LEMMA DownKeeps ==
  ASSUME Types, rx' = rx, SendChar \/ UNCHANGED <<down, left>>
  PROVE  Down' = Down
<1>1. CASE SendChar
  <2>1. down' = Append(down, Head(left)) /\ left' = Tail(left) /\ left # <<>>
    BY <1>1 DEF SendChar
  <2>2. down' \o left' = down \o left
    <3>1. Append(down, Head(left)) \o Tail(left) = down \o left
      BY <2>1, Moves DEF Types
    <3> QED BY <2>1, <3>1, Zenon
  <2> QED BY <2>2 DEF Down
<1>2. CASE UNCHANGED <<down, left>>
  BY <1>2 DEF Down
<1> QED BY <1>1, <1>2

\* The DUT collects a character.
LEMMA DownTaken ==
  ASSUME Types, down # <<>>, down' = Tail(down), left' = left, Prev(rx)' = Head(down)
  PROVE  Down' = Tail(Down) /\ Len(Down) > 1 /\ Down[1] = Prev(rx) /\ Down[2] = Head(down)
<1>1. Prev(rx) \in Chars /\ down \in Seq(Chars) /\ left \in Seq(Chars)
  BY PrevType DEF Types
<1>2. /\ Tail(Down) = <<Head(down)>> \o (Tail(down) \o left)
      /\ Down[1] = Prev(rx) /\ Down[2] = Head(down) /\ Len(Down) > 1
  BY <1>1, Leaves DEF Down
<1>3. Down' = <<Head(down)>> \o (Tail(down) \o left)
  BY DEF Down
<1> QED BY <1>2, <1>3

\* The testbench begins a line.
LEMMA DownBegun ==
  ASSUME Types, left = <<>>, left' \in Seq(Chars), UNCHANGED <<down, rx>>
  PROVE  Down' = Down \o left'
<1>1. Prev(rx) \in Chars /\ down \in Seq(Chars) /\ <<Prev(rx)>> \in Seq(Chars)
  BY PrevType DEF Types
<1>2. Down = <<Prev(rx)>> \o down
  BY <1>1, ConcatEmptySeq DEF Down
<1>3. Down' = <<Prev(rx)>> \o (down \o left')
  BY DEF Down
<1> QED BY <1>1, <1>2, <1>3, ConcatAssociative

\* What the next character makes of the line that is being collected.
LEMMA Collects ==
  ASSUME Types, Lines(Down, Asked), rx # <<>> => rx = Word(rx[1].of, Len(rx)),
         Len(Down) > 1, Down[2] \in Chars
  PROVE  /\ Down[2] # Eol =>
              /\ Len(rx) < Room
              /\ Append(rx, Down[2]) = Word(Append(rx, Down[2])[1].of, Len(Append(rx, Down[2])))
         /\ Down[2] = Eol /\ rx # <<>> => Whole(rx, Asked)
         /\ rx # <<>> => Prev(rx).of = rx[1].of /\ Prev(rx) # Eol /\ Prev(rx).at = Len(rx)
<1>1. /\ Prev(rx) \in Chars /\ Down \in Seq(Chars) /\ Down[1] = Prev(rx) /\ 1 \in DOMAIN Down
      /\ 2 \in DOMAIN Down
  BY DownIs
<1>2. PICK c \in Chars : c = Down[2]
  OBVIOUS
<1>3. PICK p \in Chars : p = Prev(rx)
  BY <1>1
<1>4. Follows(c, p, Asked)
  BY <1>1, <1>2, <1>3, TailLines
<1>5. /\ c # Eol => c.of \in DOMAIN asked /\ c.at \in 1..Asked[c.of]
      /\ p # Eol => p.of \in DOMAIN asked /\ p.at \in 1..Asked[p.of]
  BY <1>1, <1>2, <1>3, AskedIs DEF Lines
<1>6. rx \in Seq(Chars) /\ Room \in Nat /\ AnswerSize = 2
  BY Constants DEF Types
<1>7. CASE rx = <<>>
  <2>1. p = Eol
    BY <1>3, <1>7 DEF Prev
  <2> SUFFICES ASSUME c # Eol
               PROVE  /\ Len(rx) < Room
                      /\ Append(rx, c) = Word(Append(rx, c)[1].of, Len(Append(rx, c)))
    BY <1>2, <1>7
  <2>2. c.at = 1
    BY <1>4, <2>1 DEF Follows
  <2>3. PICK n \in DOMAIN asked : n = c.of
    BY <1>5
  <2>4. n \in 0..MaxLines /\ Asked[n] \in 0..Room /\ 1 \in 1..Asked[n]
    BY <1>5, <2>2, <2>3, AskedIs
  <2>5. 0 < Room
    BY <1>6, <2>4
  <2>6. c = [of |-> n, at |-> 0 + 1]
    BY <2>2, <2>3, CharFields
  <2>7. Append(Word(n, 0), c) = Word(n, 0 + 1)
    BY <1>6, <2>4, <2>5, <2>6, WordGrows
  <2>8. Append(rx, c) = Word(n, 1)
    <3>1. 0 + 1 = 1
      OBVIOUS
    <3>2. Word(n, 0) = rx
      BY <1>7, NoWord
    <3> QED BY <2>7, <3>1, <3>2, Zenon
  <2>9. Len(Append(rx, c)) = 1 /\ Append(rx, c)[1] = c
    BY <1>7
  <2> QED BY <1>7, <2>3, <2>5, <2>8, <2>9
<1>8. CASE rx # <<>>
  <2>1. PICK l \in Nat \ {0} : l = Len(rx) /\ l <= Room
    BY <1>6, <1>8 DEF Types
  <2>2. rx[1] \in Chars
    BY <1>6, <2>1
  <2>3. PICK m \in 0..MaxLines : m = rx[1].of
    BY <2>2, CharFields
  <2>4. l \in 0..(Room + AnswerSize) /\ l \in 1..l /\ l < Room + AnswerSize
    BY <1>6, <2>1
  <2>5. rx = Word(m, l) /\ Len(rx) = l
    BY <1>8, <2>1, <2>3
  <2>6. rx[l] = [of |-> m, at |-> l]
    BY <2>4, <2>5, WordIs, ZenonT(30)
  <2>7. p = [of |-> m, at |-> l]
    BY <1>3, <1>8, <2>1, <2>6 DEF Prev
  <2>8. p.of = m /\ p.at = l /\ p # Eol
    BY <2>1, <2>7, EolIsChar
  <2>9. m \in DOMAIN asked /\ l \in 1..Asked[m] /\ Asked[m] = asked[m].size /\ Asked[m] \in 0..Room
    BY <1>5, <2>8, AskedIs
  <2>10. c = IF l < Asked[m] THEN [of |-> m, at |-> l + 1] ELSE Eol
    BY <1>4, <2>8 DEF Follows
  <2>11. ASSUME c # Eol
         PROVE  Len(rx) < Room /\ Append(rx, c) = Word(Append(rx, c)[1].of, Len(Append(rx, c)))
    <3>1. l < Asked[m] /\ c = [of |-> m, at |-> l + 1]
      BY <2>10, <2>11
    <3>2. l < Room
      BY <1>6, <2>9, <3>1
    <3>3. Append(Word(m, l), [of |-> m, at |-> l + 1]) = Word(m, l + 1)
      BY <2>4, WordGrows
    <3>4. Append(rx, c) = Word(m, l + 1)
      BY <2>5, <3>1, <3>3
    <3>5. Len(Append(rx, c)) = l + 1 /\ Append(rx, c)[1] = rx[1]
      BY <1>6, <2>1, AppendProperties
    <3> QED BY <2>1, <2>3, <3>2, <3>4, <3>5
  <2>12. ASSUME c = Eol PROVE Whole(rx, Asked)
    <3>1. ~(l < Asked[m])
      <4>1. [of |-> m, at |-> l + 1] # Eol
        BY <2>1, EolIsChar
      <4> QED BY <2>10, <2>12, <4>1
    <3>2. l = Asked[m]
      BY <1>6, <2>9, <3>1
    <3>3. m \in DOMAIN Asked
      BY <2>9, AskedIs
    <3> QED BY <1>8, <2>3, <2>5, <3>2, <3>3 DEF Whole
  <2> QED BY <1>2, <1>3, <2>1, <2>3, <2>8, <2>11, <2>12
<1> QED BY <1>7, <1>8

LEMMA DownNext ==
  ASSUME Types, down # <<>>
  PROVE  /\ Len(Down) > 1 /\ Down[1] = Prev(rx) /\ Down[2] = Head(down) /\ Head(down) \in Chars
         /\ 1 \in DOMAIN Down /\ 2 \in DOMAIN Down
<1>1. Prev(rx) \in Chars /\ down \in Seq(Chars) /\ left \in Seq(Chars)
  BY PrevType DEF Types
<1>2. Down[1] = Prev(rx) /\ Down[2] = Head(down) /\ Len(Down) > 1
  BY <1>1, Leaves DEF Down
<1>3. Head(down) \in Chars
  BY <1>1, HeadTailProperties
<1> QED BY <1>2, <1>3, DownIs

\* What the DUT's interrupt does with a character of a stream of lines.
LEMMA Takes ==
  ASSUME SInv, Calm, RxInterrupt \/ EchoInterrupt
  PROVE  /\ Down' = Tail(Down) /\ UNCHANGED <<asked, dut, left>> /\ down # <<>>
         /\ Head(down) = Eol => rx' = <<>>
         /\ Head(down) # Eol => rx' = Append(rx, Head(down)) /\ rx' # <<>>
         /\ Head(down) = Eol /\ rx # <<>> => Whole(rx, Asked)
         /\ InStream'
<1>1. /\ down # <<>> /\ down' = Tail(down) /\ UNCHANGED <<asked, dut, left>>
      /\ Head(down) = Eol => rx' = <<>>
      /\ Head(down) # Eol /\ Len(rx) < Room => rx' = Append(rx, Head(down))
  BY DEF RxInterrupt, EchoInterrupt, testbench, Collected
<1>2. /\ Len(Down) > 1 /\ Down[1] = Prev(rx) /\ Down[2] = Head(down) /\ Head(down) \in Chars
      /\ 1 \in DOMAIN Down
  BY <1>1, DownNext DEF SInv
<1>3. Types /\ Lines(Down, Asked) /\ (rx # <<>> => rx = Word(rx[1].of, Len(rx)))
  BY DEF SInv, InStream
<1>4. /\ Head(down) # Eol =>
           /\ Len(rx) < Room
           /\ Append(rx, Head(down))
                = Word(Append(rx, Head(down))[1].of, Len(Append(rx, Head(down))))
      /\ Head(down) = Eol /\ rx # <<>> => Whole(rx, Asked)
  BY <1>2, <1>3, Collects
<1>5. Head(down) # Eol => rx' = Append(rx, Head(down))
  BY <1>1, <1>4
<1>6. rx \in Seq(Chars)
  BY <1>3 DEF Types
<1>7. Prev(rx)' = Head(down) /\ (Head(down) # Eol => rx' # <<>>)
  <2>1. CASE Head(down) = Eol
    BY <1>1, <2>1 DEF Prev
  <2>2. CASE Head(down) # Eol
    <3>1. PICK c \in Chars : c = Head(down)
      BY <1>2
    <3>2. /\ Append(rx, c) # <<>> /\ Len(Append(rx, c)) = Len(rx) + 1
          /\ Append(rx, c)[Len(rx) + 1] = c
      BY <1>6, AppendProperties
    <3>3. Append(rx, c)[Len(Append(rx, c))] = c
      BY <3>2
    <3>4. Prev(Append(rx, c)) = c
      BY <3>2, <3>3 DEF Prev
    <3>5. rx' = Append(rx, c)
      BY <1>5, <2>2, <3>1
    <3>6. Prev(rx') = c
      BY <3>4, <3>5
    <3> QED BY <3>1, <3>2, <3>5, <3>6 DEF Prev
  <2> QED BY <2>1, <2>2
<1>8. Down' = Tail(Down)
  BY <1>1, <1>3, <1>7, DownTaken
<1>9. InStream'
  <2>1. Down \in Seq(Chars)
    BY <1>3, DownIs
  <2>2. Lines(Tail(Down), Asked)
    BY <1>2, <1>3, <2>1, TailLines
  <2>3. Asked' = Asked
    BY <1>1 DEF Asked
  <2>4. Lines(Down', Asked')
    BY <1>8, <2>2, <2>3
  <2>5. rx' # <<>> => rx' = Word(rx'[1].of, Len(rx'))
    <3>1. CASE Head(down) = Eol
      BY <1>1, <3>1
    <3>2. CASE Head(down) # Eol
      <4>1. PICK r : r = Append(rx, Head(down)) /\ r = Word(r[1].of, Len(r))
        BY <1>4, <3>2
      <4> QED BY <1>5, <3>2, <4>1
    <3> QED BY <3>1, <3>2
  <2> QED BY <2>4, <2>5 DEF InStream
<1> QED BY <1>1, <1>4, <1>5, <1>7, <1>8, <1>9

\* What uart_send_line adds to what is on the way.
LEMMA FlushIs ==
  ASSUME Types, Shape, Flush
  PROVE  /\ left = <<>> /\ UNCHANGED <<down, rx, dut, todo, command, ready, dpc, local, handled>>
         /\ Len(asked') = Len(asked) + 1 /\ Len(asked) + 1 \in 1..MaxLines
         /\ DOMAIN asked' = 1..(Len(asked) + 1)
         /\ \A n \in DOMAIN asked : n \in DOMAIN asked' /\ asked'[n] = asked[n]
         /\ asked'[Len(asked) + 1].settled = Settled
         /\ \A n \in DOMAIN Asked : n \in DOMAIN Asked' /\ Asked'[n] = Asked[n]
         /\ Down' = Down \o left'
         /\ left' \in Seq(Chars) /\ Lines(left', Asked') /\ Ordered(left')
         /\ left'[1] = Eol \/ left'[1].at = 1
         /\ Len(left') \in Nat /\ DOMAIN left' = 1..Len(left')
         /\ \A k \in DOMAIN left' : left'[k] # Eol => left'[k].of = Len(asked) + 1
         /\ \A k \in 1..(Len(left') - 1) : left'[k] # Eol
<1>1. PICK size \in Sizes :
        /\ asked' = Append(asked, [size |-> size, settled |-> Settled])
        /\ left' = Append(Word(Len(asked) + 1, size), Eol)
  BY DEF Flush
<1>2. /\ left = <<>> /\ Len(asked) < MaxLines
      /\ UNCHANGED <<down, rx, dut, todo, command, ready, dpc, local, handled>>
  BY DEF Flush, Shape, isr, mainloop, handover
<1>3. /\ Len(asked) \in Nat /\ DOMAIN asked = 1..Len(asked) /\ DOMAIN Asked = 1..Len(asked)
      /\ \A n \in DOMAIN asked : Asked[n] = asked[n].size
  BY AskedIs
<1>4. PICK n \in Nat : n = Len(asked) + 1 /\ n \in 1..MaxLines
  BY <1>2, <1>3, Constants
<1>5. PICK r : /\ r = [size |-> size, settled |-> Settled]
               /\ r.size = size /\ r.settled = Settled /\ asked' = Append(asked, r)
  BY <1>1
<1>6. /\ Len(asked') = n /\ DOMAIN asked' = 1..n /\ asked'[n] = r
      /\ \A i \in 1..Len(asked) : asked'[i] = asked[i]
  <2> DEFINE R == [size : Sizes, settled : BOOLEAN]
  <2>1. asked \in Seq(R) /\ r \in R
    BY <1>5 DEF Types, Settled
  <2> HIDE DEF R
  <2>2. /\ Append(asked, r) \in Seq(R) /\ Len(Append(asked, r)) = n
        /\ \A i \in 1..Len(asked) : Append(asked, r)[i] = asked[i]
        /\ Append(asked, r)[n] = r
    BY <1>4, <2>1, AppendProperties
  <2>3. DOMAIN Append(asked, r) = 1..n
    BY <2>2
  <2> QED BY <1>5, <2>2, <2>3
<1>7. \A i \in DOMAIN asked : i \in DOMAIN asked' /\ asked'[i] = asked[i]
  BY <1>3, <1>4, <1>6
<1>8. Asked' = [i \in 1..n |-> asked'[i].size]
  BY <1>6 DEF Asked
<1>9. DOMAIN Asked' = 1..n /\ Asked'[n] = size
  BY <1>4, <1>5, <1>6, <1>8
<1>10. \A i \in DOMAIN Asked : i \in DOMAIN Asked' /\ Asked'[i] = Asked[i]
  BY <1>3, <1>4, <1>6, <1>8, <1>9
<1>11. size \in 0..(Room + AnswerSize) /\ n \in DOMAIN Asked' /\ size \in Nat
  BY <1>4, <1>9, Constants
<1>12. PICK sz : sz = Asked' /\ n \in DOMAIN sz /\ sz[n] = size /\ sz[n] \in 0..(Room + AnswerSize)
  BY <1>9, <1>11
<1>13. PICK w : w = Append(Word(n, sz[n]), Eol) /\ w = left'
  BY <1>1, <1>4, <1>12
<1>14. /\ w \in Seq(Chars) /\ Len(w) = sz[n] + 1
       /\ \A k \in 1..sz[n] : w[k] = [of |-> n, at |-> k]
       /\ w[sz[n] + 1] = Eol
       /\ Lines(w, sz) /\ (w[1] = Eol \/ w[1].at = 1)
       /\ Ordered(w)
  BY <1>4, <1>12, <1>13, WordLine
<1>15. Len(w) \in Nat /\ DOMAIN w = 1..(size + 1)
  BY <1>11, <1>12, <1>14
<1>16. \A k \in DOMAIN w : w[k] # Eol => w[k].of = n
  <2> SUFFICES ASSUME NEW k \in DOMAIN w, w[k] # Eol PROVE w[k].of = n
    OBVIOUS
  <2>1. k \in 1..sz[n]
    BY <1>11, <1>12, <1>14, <1>15
  <2>2. w[k] = [of |-> n, at |-> k]
    BY <1>14, <2>1
  <2> QED BY <2>2
<1>17. \A k \in 1..(Len(w) - 1) : w[k] # Eol
  <2> SUFFICES ASSUME NEW k \in 1..(Len(w) - 1) PROVE w[k] # Eol
    OBVIOUS
  <2>1. k \in 1..sz[n] /\ k # 0
    BY <1>11, <1>12, <1>14
  <2>2. w[k] = [of |-> n, at |-> k] /\ w[k].at = k
    BY <1>14, <2>1
  <2> QED BY <2>1, <2>2, EolIsChar
<1>18. Down' = Down \o left'
  BY <1>2, <1>13, <1>14, DownBegun
<1> QED
  BY <1>2, <1>4, <1>5, <1>6, <1>7, <1>10, <1>12, <1>13, <1>14, <1>15, <1>16, <1>17, <1>18, ZenonT(40)

\* The steps that neither begin a line nor collect a character.
Aside == /\ UNCHANGED <<asked, dut, rx>>
         /\ SendChar \/ UNCHANGED <<down, left>>

LEMMA Kinds ==
  ASSUME [Next]_vars
  PROVE  \/ Flush \/ RxInterrupt \/ EchoInterrupt \/ Overrun
         \/ Aside /\ handled' = handled /\ UNCHANGED mainloop /\ UNCHANGED handover
         \/ Aside /\ (MainLoop \/ EchoChar)
<1>1. CASE StartRead \/ SendDone \/ ReadChar \/ ReadTimeout \/ SendChar
  BY <1>1 DEF StartRead, SendDone, ReadChar, ReadTimeout, SendChar, isr, mainloop, handover, Aside
<1>2. ASSUME NEW o, StartWrite(o)
      PROVE  Aside /\ handled' = handled /\ UNCHANGED mainloop /\ UNCHANGED handover
  BY <1>2 DEF StartWrite, isr, mainloop, handover, Aside
<1>3. CASE MainLoop \/ EchoChar
  BY <1>3 DEF MainLoop, Check, Copy, Clear, Wipe, Process, AnswerChar, EchoChar,
              testbench, isr, Aside
<1>4. CASE UNCHANGED vars
  BY <1>4 DEF vars, testbench, isr, mainloop, handover, Aside
<1> QED BY <1>1, <1>2, <1>3, <1>4 DEF Next, Testbench, Dut

LEMMA AsideDown == ASSUME Types, Aside PROVE Down' = Down /\ Asked' = Asked
  BY DownKeeps DEF Aside, Asked

\* DUT3 loses characters only if a line was begun while it echoed another.
LEMMA NotDeaf == ASSUME SInv, Overrun PROVE ~Calm
<1>1. down # <<>> /\ Echoing
  <2>1. Len(down) > 1 /\ Echoing
    BY DEF Overrun
  <2> QED BY <2>1, EmptySeq
<1> QED BY <1>1 DEF SInv, Shape, OneLine, LastSettled, Calm, Echoing

LEMMA CalmStays ==
  ASSUME asked' = asked, dut' = dut
  PROVE  /\ Calm' = Calm /\ LastSettled' = LastSettled /\ Orderly' = Orderly /\ Asked' = Asked
   BY DEF Calm, LastSettled, Orderly, Last, Asked

\* The link is settled when the line is begun.
LEMMA FlushSettled ==
  ASSUME SInv, Flush, LastSettled'
  PROVE  /\ down = <<>> /\ rx = <<>> /\ ~ready /\ dpc = "check" /\ ~Echoing
         /\ Down \in Seq(Chars) /\ Len(Down) = 1 /\ Down[1] = Eol /\ Lines(Down, Asked')
<1>1. Settled
  BY FlushIs DEF LastSettled, Last, SInv
<1>2. /\ down = <<>> /\ rx = <<>> /\ ~ready /\ dpc = "check" /\ ~Echoing /\ left = <<>>
  BY <1>1, FlushIs DEF Settled, SInv
<1>3. Len(down) = 0 /\ Len(left) = 0
  BY <1>2
<1>4. /\ Down \in Seq(Chars) /\ Len(Down) = 1 /\ Down[1] = Eol /\ DOMAIN Down = 1..1
  BY <1>2, <1>3, DownIs DEF SInv, Prev
<1>5. Lines(Down, Asked')
  BY <1>4, SMTT(30) DEF Lines
<1> QED BY <1>2, <1>4, <1>5

LEMMA InStreamStep == ASSUME SInv, [Next]_vars PROVE InStream'
<1>1. CASE Flush
  <2> SUFFICES ASSUME Calm' PROVE InStream'
    BY DEF InStream
  <2>1. /\ rx' = rx /\ dut' = dut /\ Down' = Down \o left'
        /\ \A n \in DOMAIN Asked : n \in DOMAIN Asked' /\ Asked'[n] = Asked[n]
        /\ left' \in Seq(Chars) /\ Lines(left', Asked') /\ (left'[1] = Eol \/ left'[1].at = 1)
        /\ asked' # <<>>
    <3>1. Len(asked') = Len(asked) + 1 /\ Len(asked) \in Nat
      BY <1>1, FlushIs, AskedIs DEF SInv
    <3>2. asked' # <<>>
      BY <3>1
    <3> QED BY <1>1, <3>2, FlushIs DEF SInv
  <2>2. Down \in Seq(Chars)
    BY DownIs DEF SInv
  <2>3. CASE LastSettled'
    <3>1. rx = <<>> /\ Lines(Down, Asked')
      BY <1>1, <2>3, FlushSettled
    <3>2. Lines(Down \o left', Asked')
      BY <2>1, <2>2, <3>1, MoreLines
    <3> QED BY <2>1, <3>1, <3>2 DEF InStream
  <2>4. CASE ~LastSettled'
    <3>1. dut = "DUT1"
      BY <2>1, <2>4 DEF Calm, LastSettled
    <3>2. Lines(Down, Asked) /\ (rx # <<>> => rx = Word(rx[1].of, Len(rx)))
      BY <3>1 DEF SInv, InStream, Calm
    <3>3. Lines(Down, Asked')
      BY <2>1, <3>2, SameLines
    <3>4. Lines(Down \o left', Asked')
      BY <2>1, <2>2, <3>3, MoreLines
    <3> QED BY <2>1, <3>2, <3>4 DEF InStream
  <2> QED BY <2>3, <2>4
<1>2. CASE RxInterrupt \/ EchoInterrupt
  <2>1. asked' = asked /\ dut' = dut
    BY <1>2 DEF RxInterrupt, EchoInterrupt, testbench
  <2>2. CASE Calm
    BY <1>2, <2>2, Takes
  <2>3. CASE ~Calm
    BY <2>1, <2>3, CalmStays DEF InStream
  <2> QED BY <2>2, <2>3
<1>3. CASE Overrun
  <2>1. asked' = asked /\ dut' = dut
    BY <1>3 DEF Overrun, testbench, isr
  <2> QED BY <1>3, <2>1, NotDeaf, CalmStays DEF InStream
<1>4. CASE Aside
  <2>1. Down' = Down /\ Asked' = Asked /\ rx' = rx
    BY <1>4, AsideDown DEF SInv, Aside
  <2>2. Calm' = Calm
    BY <1>4, CalmStays DEF Aside
  <2> QED BY <2>1, <2>2 DEF SInv, InStream
<1> QED BY <1>1, <1>2, <1>3, <1>4, Kinds

LEMMA OneLineStep == ASSUME SInv, [Next]_vars PROVE OneLine'
<1> SUFFICES ASSUME LastSettled' PROVE OneLine'
  BY DEF OneLine
<1>0. Types /\ Shape
  BY DEF SInv
<1>1. CASE Flush
  <2>1. /\ down = <<>> /\ rx = <<>> /\ ~ready /\ dpc = "check" /\ ~Echoing
        /\ Down \in Seq(Chars) /\ Len(Down) = 1 /\ Down[1] = Eol
    BY <1>1, FlushSettled
  <2>2. /\ UNCHANGED <<dut, todo, command, ready, dpc, local>>
        /\ Len(asked') = Len(asked) + 1 /\ Down' = Down \o left' /\ left' \in Seq(Chars)
        /\ Len(left') \in Nat /\ DOMAIN left' = 1..Len(left')
        /\ \A k \in DOMAIN left' : left'[k] # Eol => left'[k].of = Len(asked) + 1
        /\ \A k \in 1..(Len(left') - 1) : left'[k] # Eol
    BY <1>0, <1>1, FlushIs
  <2>3. PICK v, w \in Seq(Chars) :
          /\ w = left' /\ v = Down' /\ v \in Seq(Chars) /\ Len(v) = 1 + Len(w)
          /\ \A k \in 1..(1 + Len(w)) : v[k] = IF k <= 1 THEN Down[k] ELSE w[k - 1]
    <3>1. PICK w \in Seq(Chars), d \in Seq(Chars) : w = left' /\ d = Down
      BY <2>1, <2>2
    <3>2. /\ d \o w \in Seq(Chars) /\ Len(d \o w) = Len(d) + Len(w)
          /\ \A k \in 1..(Len(d) + Len(w)) :
               (d \o w)[k] = IF k <= Len(d) THEN d[k] ELSE w[k - Len(d)]
      BY ConcatProperties
    <3>3. Down' = d \o w
      BY <2>2, <3>1
    <3>4. Len(d) = 1
      BY <2>1, <3>1
    <3>5. PICK v \in Seq(Chars) : v = d \o w
      BY <3>2
    <3>6. Len(v) = 1 + Len(w)
          /\ \A k \in 1..(1 + Len(w)) : v[k] = IF k <= 1 THEN Down[k] ELSE w[k - 1]
      BY <3>1, <3>2, <3>4, <3>5
    <3>7. v = Down' /\ w = left'
      BY <3>1, <3>3, <3>5
    <3> QED BY <3>6, <3>7
  <2>4. Len(w) \in Nat /\ DOMAIN v = 1..(1 + Len(w))
    BY <2>3
  <2>5. ASSUME NEW k \in DOMAIN v, v[k] # Eol PROVE v[k].of = Len(asked) + 1
    <3>1. k # 1
      BY <2>1, <2>3, <2>4, <2>5
    <3>2. k - 1 \in 1..Len(w) /\ v[k] = w[k - 1]
      BY <2>3, <2>4, <3>1
    <3> QED BY <2>2, <2>3, <2>5, <3>2
  <2>6. ASSUME NEW k \in 2..(Len(v) - 1) PROVE v[k] # Eol
    <3>1. k - 1 \in 1..(Len(w) - 1) /\ v[k] = w[k - 1]
      BY <2>3, <2>4
    <3> QED BY <2>2, <2>3, <3>1
  <2>7. ~Echoing'
    BY <2>1, <2>2 DEF Echoing
  <2> QED BY <2>1, <2>2, <2>3, <2>5, <2>6, <2>7 DEF OneLine
<1>2. CASE RxInterrupt \/ EchoInterrupt
  <2>1. asked' = asked /\ dut' = dut
    BY <1>2 DEF RxInterrupt, EchoInterrupt, testbench
  <2>2. LastSettled /\ Calm
    BY <2>1, CalmStays DEF LastSettled, Calm
  <2>3. /\ Down' = Tail(Down) /\ left' = left /\ down # <<>>
        /\ (Head(down) = Eol /\ rx # <<>> => Whole(rx, Asked))
    BY <1>2, <2>2, Takes
  <2>4. /\ Len(Down) > 1 /\ Down[1] = Prev(rx) /\ Down[2] = Head(down) /\ Head(down) \in Chars
        /\ Down \in Seq(Chars) /\ 1 \in DOMAIN Down
    BY <1>0, <2>3, DownNext, DownIs
  <2>5. PICK u, v \in Seq(Chars) :
          /\ u = Down' /\ v = Down /\ Len(v) \in Nat /\ Len(v) > 1
          /\ DOMAIN v = 1..Len(v) /\ DOMAIN u = 1..(Len(v) - 1) /\ Len(u) = Len(v) - 1
          /\ \A i \in 1..(Len(v) - 1) : u[i] = v[i + 1]
    <3>1. PICK v \in Seq(Chars) : v = Down
      BY <2>4
    <3>2. /\ Tail(v) \in Seq(Chars) /\ Len(Tail(v)) = Len(v) - 1 /\ v # <<>>
          /\ \A i \in 1..Len(Tail(v)) : Tail(v)[i] = v[i + 1]
      BY <2>4, <3>1, HeadTailProperties, EmptySeq
    <3>3. DOMAIN v = 1..Len(v) /\ DOMAIN Tail(v) = 1..Len(Tail(v)) /\ Len(v) \in Nat
      BY <3>2
    <3> QED BY <2>3, <2>4, <3>1, <3>2, <3>3
  <2>6. /\ \A k \in DOMAIN v : v[k] # Eol => v[k].of = Len(asked)
        /\ \A k \in 2..(Len(v) - 1) : v[k] # Eol
        /\ Echoing => down = <<>> /\ left = <<>>
        /\ ready => command[1].of = Len(asked)
        /\ dpc \in {"clear", "wipe", "process"} => local[1].of = Len(asked)
    BY <2>2, <2>5 DEF SInv, OneLine
  <2>7. \A k \in DOMAIN u : u[k] # Eol => u[k].of = Len(asked)
    <3> SUFFICES ASSUME NEW k \in DOMAIN u, u[k] # Eol PROVE u[k].of = Len(asked)
      OBVIOUS
    <3>1. k + 1 \in DOMAIN v /\ u[k] = v[k + 1]
      BY <2>5
    <3> QED BY <2>6, <3>1
  <2>8. \A k \in 2..(Len(u) - 1) : u[k] # Eol
    <3> SUFFICES ASSUME NEW k \in 2..(Len(u) - 1) PROVE u[k] # Eol
      OBVIOUS
    <3>1. k + 1 \in 2..(Len(v) - 1) /\ u[k] = v[k + 1]
      BY <2>5
    <3> QED BY <2>6, <3>1
  <2>9. CASE RxInterrupt
    <3>1. /\ dut = "DUT1" /\ UNCHANGED <<dpc, local>>
          /\ \/ UNCHANGED <<command, ready>>
             \/ Head(down) = Eol /\ rx # <<>> /\ command' = rx /\ ready' = TRUE
      BY <2>9 DEF RxInterrupt, HandOver, handover, mainloop
    <3>2. ready' => command'[1].of = Len(asked)
      <4>1. CASE UNCHANGED <<command, ready>>
        BY <2>6, <4>1
      <4>2. CASE Head(down) = Eol /\ rx # <<>> /\ command' = rx /\ ready' = TRUE
        <5>1. Lines(Down, Asked) /\ (rx # <<>> => rx = Word(rx[1].of, Len(rx)))
          BY <2>2 DEF SInv, InStream
        <5>2. Prev(rx).of = rx[1].of /\ Prev(rx) # Eol
          BY <1>0, <2>4, <4>2, <5>1, Collects
        <5>3. Prev(rx).of = Len(asked)
          BY <2>4, <2>5, <2>6, <5>2
        <5> QED BY <4>2, <5>2, <5>3
      <4> QED BY <3>1, <4>1, <4>2
    <3>3. ~Echoing'
      BY <2>1, <3>1 DEF Echoing
    <3> QED BY <2>1, <2>5, <2>6, <2>7, <2>8, <3>1, <3>2, <3>3 DEF OneLine
  <2>10. CASE EchoInterrupt
    <3>1. /\ dut = "DUT3" /\ ~Echoing /\ UNCHANGED <<command, ready, dpc, local>>
          /\ Head(down) # Eol => todo' = todo
      BY <2>10 DEF EchoInterrupt, handover
    <3>2. Echoing' => down' = <<>> /\ left' = <<>>
      <4>1. CASE Head(down) # Eol
        BY <2>1, <3>1, <4>1 DEF Echoing
      <4>2. CASE Head(down) = Eol
        <5>1. ~(2 \in 2..(Len(v) - 1))
          BY <2>4, <2>5, <2>6, <4>2
        <5>2. Len(v) = 2
          BY <2>5, <5>1
        <5>3. /\ down \in Seq(Chars) /\ left \in Seq(Chars) /\ Len(left) \in Nat
              /\ Len(down) \in Nat \ {0}
          BY <1>0, <2>3, EmptySeq DEF Types
        <5>4. 2 = 1 + Len(down) + Len(left)
          BY <1>0, <2>5, <5>2, DownIs
        <5>5. Len(down) = 1 /\ Len(left) = 0
          <6>1. PICK x \in Nat \ {0}, y \in Nat : x = Len(down) /\ y = Len(left)
            BY <5>3
          <6>2. 2 = 1 + x + y
            BY <5>4, <6>1
          <6>3. x = 1 /\ y = 0
            BY <6>2
          <6> QED BY <6>1, <6>3
        <5>6. Tail(down) \in Seq(Chars) /\ Len(Tail(down)) = 0
          BY <2>3, <5>3, <5>5, HeadTailProperties
        <5>7. down' = Tail(down)
          BY <2>10 DEF EchoInterrupt
        <5> QED BY <2>3, <5>3, <5>5, <5>6, <5>7, EmptySeq
      <4> QED BY <4>1, <4>2
    <3> QED BY <2>1, <2>5, <2>6, <2>7, <2>8, <3>1, <3>2 DEF OneLine
  <2> QED BY <1>2, <2>9, <2>10
<1>3. CASE Overrun
  <2>1. asked' = asked /\ dut' = dut
    BY <1>3 DEF Overrun, testbench, isr
  <2> QED BY <1>3, <2>1, NotDeaf, CalmStays DEF LastSettled, Calm
<1>4. ASSUME Aside, Echoing' => Echoing, ready' => command'[1].of = Len(asked),
             dpc' \in {"clear", "wipe", "process"} => local'[1].of = Len(asked)
      PROVE  OneLine'
  <2>1. Down' = Down /\ asked' = asked /\ LastSettled
    BY <1>0, <1>4, AsideDown, CalmStays DEF Aside
  <2>2. /\ \A k \in DOMAIN Down : Down[k] # Eol => Down[k].of = Len(asked)
        /\ \A k \in 2..(Len(Down) - 1) : Down[k] # Eol
        /\ Echoing => down = <<>> /\ left = <<>>
    BY <2>1 DEF SInv, OneLine
  <2>3. Echoing' => down' = <<>> /\ left' = <<>>
    BY <1>4, <2>2 DEF Aside, SendChar
  <2> QED BY <1>4, <2>1, <2>2, <2>3 DEF OneLine
<1>5. CASE Aside /\ (MainLoop \/ EchoChar \/ UNCHANGED <<mainloop, handover>>)
  <2>1. LastSettled /\ dut' = dut
    BY <1>5, CalmStays DEF Aside
  <2>2. /\ ready => command[1].of = Len(asked)
        /\ dpc \in {"clear", "wipe", "process"} => local[1].of = Len(asked)
    BY <2>1 DEF SInv, OneLine
  <2>3. CASE UNCHANGED <<mainloop, handover>>
    BY <1>4, <1>5, <2>1, <2>2, <2>3 DEF mainloop, handover, Echoing
  <2>4. CASE EchoChar
    <3>1. /\ todo \in Seq(Chars) /\ todo # <<>> /\ todo' = Tail(todo)
          /\ UNCHANGED <<dut, dpc, local, command, ready>>
      BY <1>0, <2>4 DEF EchoChar, Types, isr, handover
    <3>2. Len(todo') = Len(todo) - 1 /\ Len(todo) \in Nat
      BY <3>1, HeadTailProperties
    <3> QED BY <1>4, <1>5, <2>2, <3>1, <3>2 DEF Echoing
  <2>5. CASE MainLoop
    <3>1. ~Echoing'
      BY <1>0, <2>1, <2>5 DEF MainLoop, Check, Copy, Clear, Wipe, Process, AnswerChar,
                              Shape, Types, Echoing
    <3>2. CASE Copy
      <4>1. local' = command /\ ready /\ UNCHANGED <<command, ready>>
        BY <1>0, <3>2 DEF Copy, Shape, handover
      <4> QED BY <1>4, <1>5, <2>2, <3>1, <4>1
    <3>3. CASE Check \/ Clear \/ Process \/ AnswerChar
      <4>1. /\ local' = local /\ command' = command /\ (ready' => ready)
            /\ dpc' \in {"clear", "wipe", "process"} => dpc \in {"clear", "wipe", "process"}
        BY <3>3 DEF Check, Clear, Process, AnswerChar, handover
      <4> QED BY <1>4, <1>5, <2>2, <3>1, <4>1
    <3>4. CASE Wipe
      <4>1. local' = local /\ ~ready' /\ dpc = "wipe"
        BY <1>0, <3>4 DEF Wipe, Shape
      <4> QED BY <1>4, <1>5, <2>2, <3>1, <4>1
    <3> QED BY <2>5, <3>2, <3>3, <3>4 DEF MainLoop
  <2> QED BY <1>5, <2>3, <2>4, <2>5
<1> QED BY <1>1, <1>2, <1>3, <1>5, Kinds

-----------------------------------------------------------------------------
(* In order, and once *)

LEMMA OrderlyIsCalm == ASSUME Types, Orderly PROVE Calm
<1>1. asked # <<>> => Len(asked) \in DOMAIN asked
  BY AskedIs DEF Types
<1> QED BY <1>1 DEF Orderly, Calm, Last

LEMMA WholeIs ==
  ASSUME Types, NEW text, Whole(text, Asked)
  PROVE  /\ text # <<>> /\ text[1].of \in DOMAIN asked /\ text[1].of \in Int
         /\ Len(text) = Asked[text[1].of] /\ Asked[text[1].of] \in Int
<1>1. PICK n \in DOMAIN asked : n = text[1].of /\ text = Word(n, Asked[n]) /\ text # <<>>
  BY AskedIs DEF Whole
<1>2. n \in 0..MaxLines /\ n \in Nat /\ Asked[n] \in 0..(Room + AnswerSize)
  BY AskedIs
<1>3. PICK s \in 0..(Room + AnswerSize) : s = Asked[n]
  BY <1>2
<1>4. Len(Word(n, s)) = s /\ s \in Int
  BY <1>2, WordIs, Constants
<1>5. text = Word(n, s)
  BY <1>1, <1>3
<1>6. Len(text) = s
  BY <1>4, <1>5, Zenon
<1>7. PICK k : k = text[1].of
  OBVIOUS
<1>8. k = n
  BY <1>1, <1>7, Zenon
<1>9. n \in Int /\ Asked[n] = s /\ n \in DOMAIN asked
  BY <1>2, <1>3
<1>10. k \in DOMAIN asked /\ k \in Int /\ Len(text) = Asked[k] /\ Asked[k] \in Int
  BY <1>4, <1>6, <1>8, <1>9, Zenon
<1> QED BY <1>1, <1>7, <1>10, Zenon

\* What is past stays past.
LEMMA PastTail ==
  ASSUME NEW v \in Seq(Chars), Len(v) > 1, NEW n, Past(n, v)
  PROVE  Past(n, Tail(v))
<1>1. Len(v) \in Nat /\ DOMAIN v = 1..Len(v) /\ v # <<>>
  OBVIOUS
<1>2. /\ Tail(v) \in Seq(Chars) /\ DOMAIN Tail(v) = 1..(Len(v) - 1)
      /\ \A i \in 1..(Len(v) - 1) : Tail(v)[i] = v[i + 1] /\ i + 1 \in DOMAIN v
  BY <1>1, HeadTailProperties
<1>3. \A k \in DOMAIN Tail(v) : Tail(v)[k] # Eol => n < Tail(v)[k].of
  BY <1>2 DEF Past
<1> QED BY <1>3 DEF Past

\* A line that is complete is past, and after what was past before.
LEMMA CompleteIsPast ==
  ASSUME Types, Ordered(Down), Lines(Down, Asked), rx # <<>> => rx = Word(rx[1].of, Len(rx)),
         down # <<>>, Whole(rx, Asked)
  PROVE  /\ Past(rx[1].of, Tail(Down))
         /\ \A n : Past(n, Down) => n < rx[1].of
<1>1. /\ Len(Down) > 1 /\ Down[1] = Prev(rx) /\ Down[2] = Head(down) /\ Head(down) \in Chars
      /\ 1 \in DOMAIN Down /\ rx # <<>>
  BY DownNext, WholeIs
<1>2. Prev(rx).of = rx[1].of /\ Prev(rx) # Eol /\ Prev(rx).at = Len(rx)
  BY <1>1, Collects
<1>3. PICK m \in DOMAIN asked : /\ m = rx[1].of /\ m \in Int /\ Len(rx) = Asked[m]
                                /\ Asked[m] \in Int
  BY WholeIs
<1>4. PICK v \in Seq(Chars) :
        /\ v = Down /\ Len(v) > 1 /\ v[1].of = m /\ v[1] # Eol /\ v[1].at = Asked[m]
        /\ 1 \in DOMAIN v
  BY <1>1, <1>2, <1>3, DownIs
<1>5. Len(v) \in Nat /\ DOMAIN v = 1..Len(v) /\ v # <<>>
  BY <1>4
<1>6. /\ Tail(v) \in Seq(Chars) /\ DOMAIN Tail(v) = 1..(Len(v) - 1)
      /\ \A i \in 1..(Len(v) - 1) : Tail(v)[i] = v[i + 1] /\ i + 1 \in DOMAIN v
  BY <1>5, HeadTailProperties
<1>7. ASSUME NEW k \in DOMAIN Tail(v), Tail(v)[k] # Eol PROVE m < Tail(v)[k].of
  <2>1. PICK d \in Chars : d = Tail(v)[k] /\ d = v[k + 1] /\ k + 1 \in DOMAIN v /\ d # Eol
    BY <1>6, <1>7
  <2>2. k \in Nat \ {0} /\ 1 < k + 1 /\ (k + 1) - 1 = k
    BY <1>5, <1>6
  <2>3. m < d.of \/ (m = d.of /\ d.at = Asked[m] + ((k + 1) - 1))
    BY <1>4, <2>1, <2>2 DEF Ordered
  <2>4. d.at \in 1..Asked[d.of]
    BY <1>4, <2>1 DEF Lines
  <2>5. CASE m = d.of /\ d.at = Asked[m] + ((k + 1) - 1)
    <3>1. PICK s \in Int : s = Asked[m]
      BY <1>3
    <3>2. d.at \in 1..s /\ d.at = s + k
      BY <2>2, <2>4, <2>5, <3>1
    <3> QED BY <2>2, <3>2
  <2> QED BY <2>1, <2>3, <2>5
<1>8. \A n : Past(n, v) => n < m
  BY <1>4 DEF Past
<1> QED BY <1>3, <1>4, <1>7, <1>8 DEF Past

\* One more line is handled.
LEMMA HandledOn ==
  ASSUME NEW S, NEW h \in Seq(S), NEW text, NEW size, NEW t,
         \A i \in DOMAIN h : /\ Whole(h[i], size) /\ Past(h[i][1].of, t)
                             /\ h[i][1].of < text[1].of,
         \A i, j \in DOMAIN h : i < j => h[i][1].of < h[j][1].of,
         Whole(text, size), Past(text[1].of, t)
  PROVE  LET h2 == Append(h, text)
         IN  /\ \A i \in DOMAIN h2 : Whole(h2[i], size) /\ Past(h2[i][1].of, t)
             /\ \A i, j \in DOMAIN h2 : i < j => h2[i][1].of < h2[j][1].of
             /\ \A i \in DOMAIN h2 : (i \in DOMAIN h /\ h2[i] = h[i]) \/ h2[i] = text
<1>1. Len(h) \in Nat /\ DOMAIN h = 1..Len(h)
  OBVIOUS
<1>2. PICK h2 : h2 = Append(h, text)
  OBVIOUS
<1>3. /\ DOMAIN h2 = 1..(Len(h) + 1) /\ h2[Len(h) + 1] = text
      /\ \A i \in 1..Len(h) : h2[i] = h[i]
  <2> DEFINE R == S \cup {text}
  <2>1. h \in Seq(R) /\ text \in R
    BY SeqMonotonic
  <2> HIDE DEF R
  <2>2. /\ Append(h, text) \in Seq(R) /\ Len(Append(h, text)) = Len(h) + 1
        /\ \A i \in 1..Len(h) : Append(h, text)[i] = h[i]
        /\ Append(h, text)[Len(h) + 1] = text
    BY <2>1, AppendProperties
  <2> QED BY <1>2, <2>2
<1>4. ASSUME NEW i \in DOMAIN h2
      PROVE  (i \in DOMAIN h /\ h2[i] = h[i]) \/ (i = Len(h) + 1 /\ h2[i] = text)
  BY <1>1, <1>3
<1>5. \A i \in DOMAIN h2 : Whole(h2[i], size) /\ Past(h2[i][1].of, t)
  BY <1>4
<1>6. ASSUME NEW i \in DOMAIN h2, NEW j \in DOMAIN h2, i < j PROVE h2[i][1].of < h2[j][1].of
  <2>1. i \in DOMAIN h /\ h2[i] = h[i]
    BY <1>1, <1>3, <1>6
  <2>2. CASE j \in DOMAIN h /\ h2[j] = h[j]
    BY <1>6, <2>1, <2>2
  <2>3. CASE h2[j] = text
    BY <2>1, <2>3
  <2> QED BY <1>4, <2>2, <2>3
<1> QED BY <1>2, <1>4, <1>5, <1>6

LEMMA InOrderStep == ASSUME SInv, InOrder, [Next]_vars PROVE InOrder'
<1> SUFFICES ASSUME Orderly' PROVE InOrder'
  BY DEF InOrder
<1>0. Types /\ Shape
  BY DEF SInv
<1>1. CASE Flush
  <2>1. /\ UNCHANGED <<dut, rx, command, ready, dpc, local, handled>>
        /\ \A n \in DOMAIN asked : n \in DOMAIN asked' /\ asked'[n] = asked[n]
        /\ \A n \in DOMAIN Asked : n \in DOMAIN Asked' /\ Asked'[n] = Asked[n]
        /\ Down' = Down \o left' /\ left' \in Seq(Chars) /\ Ordered(left')
        /\ \A k \in DOMAIN left' : left'[k] # Eol => left'[k].of = Len(asked) + 1
    BY <1>0, <1>1, FlushIs
  <2>2. Orderly /\ Calm
    <3>1. Orderly
      BY <2>1 DEF Orderly
    <3> QED BY <1>0, <3>1, OrderlyIsCalm
  <2>3. PICK d \in Seq(Chars), w \in Seq(Chars) : d = Down /\ w = left' /\ Down' = d \o w
    BY <1>0, <2>1, DownIs
  <2>4. Len(asked) \in Nat /\ DOMAIN Asked = 1..Len(asked) /\ DOMAIN asked = 1..Len(asked)
    BY <1>0, AskedIs
  <2>5. \A i \in DOMAIN d : d[i] # Eol => d[i].of \in 1..Len(asked)
    BY <2>2, <2>3, <2>4 DEF SInv, InStream, Lines
  <2>6. \A j \in DOMAIN w : w[j] # Eol => w[j].of = Len(asked) + 1
    BY <2>1, <2>3
  <2>7. Ordered(d \o w)
    <3>1. \A i \in DOMAIN d : \A j \in DOMAIN w : d[i] # Eol /\ w[j] # Eol => d[i].of < w[j].of
      BY <2>4, <2>5, <2>6
    <3>2. Ordered(d) /\ Ordered(w)
      BY <2>1, <2>2, <2>3 DEF InOrder
    <3> QED BY <3>1, <3>2, MoreOrdered
  <2>8. ASSUME NEW text, Whole(text, Asked), Past(text[1].of, Down)
        PROVE  Whole(text, Asked') /\ Past(text[1].of, Down')
    <3>1. Whole(text, Asked')
      BY <2>1, <2>8 DEF Whole
    <3>2. PICK n \in 1..Len(asked) : n = text[1].of /\ Past(n, d)
      BY <2>3, <2>4, <2>8 DEF Whole
    <3>3. PICK v : v = d \o w
      OBVIOUS
    <3>4. /\ DOMAIN v = 1..(Len(d) + Len(w)) /\ Len(d) \in Nat /\ Len(w) \in Nat
          /\ \A k \in 1..(Len(d) + Len(w)) : v[k] = IF k <= Len(d) THEN d[k] ELSE w[k - Len(d)]
          /\ DOMAIN d = 1..Len(d) /\ DOMAIN w = 1..Len(w)
      <4>1. /\ v \in Seq(Chars) /\ Len(v) = Len(d) + Len(w)
            /\ \A k \in 1..(Len(d) + Len(w)) : v[k] = IF k <= Len(d) THEN d[k] ELSE w[k - Len(d)]
        BY <3>3, ConcatProperties
      <4> QED BY <4>1
    <3>5. ASSUME NEW k \in DOMAIN v, v[k] # Eol PROVE n < v[k].of
      <4>1. CASE k <= Len(d)
        <5>1. k \in DOMAIN d /\ v[k] = d[k]
          BY <3>4, <4>1
        <5> QED BY <3>2, <3>5, <5>1 DEF Past
      <4>2. CASE ~(k <= Len(d))
        <5>1. k - Len(d) \in DOMAIN w /\ v[k] = w[k - Len(d)]
          BY <3>4, <4>2
        <5>2. v[k].of = Len(asked) + 1
          BY <2>6, <3>5, <5>1
        <5> QED BY <2>4, <3>2, <5>2
      <4> QED BY <4>1, <4>2
    <3>6. Past(n, v)
      BY <3>5 DEF Past
    <3> QED BY <2>3, <3>1, <3>2, <3>3, <3>6
  <2>9. Ordered(Down')
    BY <2>3, <2>7
  <2> QED BY <2>1, <2>2, <2>8, <2>9 DEF InOrder
<1>2. CASE RxInterrupt \/ EchoInterrupt
  <2>1. asked' = asked /\ dut' = dut /\ Asked' = Asked
    BY <1>2 DEF RxInterrupt, EchoInterrupt, testbench, Asked
  <2>2. Orderly /\ Calm
    BY <1>0, <2>1, CalmStays, OrderlyIsCalm
  <2>3. /\ Down' = Tail(Down) /\ down # <<>>
        /\ Head(down) = Eol /\ rx # <<>> => Whole(rx, Asked)
    BY <1>2, <2>2, Takes
  <2>4. PICK v \in Seq(Chars) : v = Down /\ Len(v) > 1 /\ Down' = Tail(v)
    BY <1>0, <2>3, DownNext, DownIs
  <2>5. Ordered(Down')
    BY <2>2, <2>4, TailOrdered DEF InOrder
  <2>6. \A n : Past(n, Down) => Past(n, Down')
    BY <2>4, PastTail
  <2>7. Head(down) = Eol /\ rx # <<>> =>
          /\ Whole(rx, Asked) /\ Past(rx[1].of, Down')
          /\ \A n : Past(n, Down) => n < rx[1].of
    BY <1>0, <2>2, <2>3, CompleteIsPast DEF InOrder, SInv, InStream
  <2>8. CASE RxInterrupt
    <3>1. /\ UNCHANGED <<dpc, local, handled>> /\ dpc \notin {"clear", "wipe", "copy"}
          /\ \/ UNCHANGED <<command, ready>>
             \/ Head(down) = Eol /\ rx # <<>> /\ command' = rx /\ ready' = TRUE
      BY <2>8 DEF RxInterrupt, HandOver, handover, mainloop, Locked
    <3>2. CASE UNCHANGED <<command, ready>>
      BY <2>1, <2>2, <2>5, <2>6, <3>1, <3>2 DEF InOrder
    <3>3. CASE Head(down) = Eol /\ rx # <<>> /\ command' = rx /\ ready' = TRUE
      <4>1. /\ \A i \in DOMAIN handled : Past(handled[i][1].of, Down)
            /\ dpc = "process" => Past(local[1].of, Down)
        BY <2>2 DEF InOrder
      <4>2. /\ Whole(command', Asked') /\ Past(command'[1].of, Down')
            /\ \A i \in DOMAIN handled : handled[i][1].of < command'[1].of
            /\ dpc = "process" => local[1].of < command'[1].of
        BY <2>1, <2>7, <3>3, <4>1
      <4> QED BY <2>1, <2>2, <2>5, <2>6, <3>1, <3>3, <4>2 DEF InOrder
    <3> QED BY <3>1, <3>2, <3>3
  <2>9. CASE EchoInterrupt
    <3>1. /\ UNCHANGED <<dpc, local, command, ready>> /\ ~ready /\ dpc = "check"
          /\ \/ handled' = handled
             \/ Head(down) = Eol /\ rx # <<>> /\ handled' = Append(handled, rx)
      BY <1>0, <2>9 DEF EchoInterrupt, handover, Shape
    <3>2. CASE handled' = handled
      BY <2>1, <2>2, <2>5, <2>6, <3>1, <3>2 DEF InOrder
    <3>3. CASE Head(down) = Eol /\ rx # <<>> /\ handled' = Append(handled, rx)
      <4>1. handled \in Seq(Seq(Chars))
        BY <1>0 DEF Types
      <4>2. /\ \A i \in DOMAIN handled : /\ Whole(handled[i], Asked) /\ Past(handled[i][1].of, Down')
                                         /\ handled[i][1].of < rx[1].of
            /\ \A i, j \in DOMAIN handled : i < j => handled[i][1].of < handled[j][1].of
            /\ Whole(rx, Asked) /\ Past(rx[1].of, Down')
        BY <2>2, <2>6, <2>7, <3>3 DEF InOrder
      <4>3. PICK h2 : h2 = Append(handled, rx)
        OBVIOUS
      <4>4. /\ \A i \in DOMAIN h2 : Whole(h2[i], Asked) /\ Past(h2[i][1].of, Down')
            /\ \A i, j \in DOMAIN h2 : i < j => h2[i][1].of < h2[j][1].of
        BY <4>1, <4>2, <4>3, HandledOn, ZenonT(40)
      <4> QED BY <2>1, <2>5, <3>1, <3>3, <4>3, <4>4 DEF InOrder
    <3> QED BY <3>1, <3>2, <3>3
  <2> QED BY <1>2, <2>8, <2>9
<1>3. CASE Overrun
  <2>1. asked' = asked /\ dut' = dut
    BY <1>3 DEF Overrun, testbench, isr
  <2> QED BY <1>0, <1>3, <2>1, NotDeaf, CalmStays, OrderlyIsCalm
<1>4. CASE Aside /\ (MainLoop \/ EchoChar \/ UNCHANGED <<mainloop, handover>>)
  <2>1. Down' = Down /\ Asked' = Asked /\ Orderly
    BY <1>0, <1>4, AsideDown, CalmStays DEF Aside
  <2>2. CASE UNCHANGED <<mainloop, handover>> \/ EchoChar
    <3>1. UNCHANGED <<dpc, local, handled, command, ready>>
      BY <2>2 DEF mainloop, handover, EchoChar
    <3> QED BY <2>1, <3>1 DEF InOrder
  <2>3. CASE Check \/ AnswerChar
    <3>1. UNCHANGED <<local, handled, command, ready>> /\ dpc' \in {"copy", "check", "answer"}
      BY <2>3 DEF Check, AnswerChar, handover
    <3> QED BY <2>1, <3>1 DEF InOrder
  <2>4. CASE Copy
    <3>1. UNCHANGED <<handled, command, ready>> /\ dpc' = "clear" /\ local' = command /\ ready
      BY <1>0, <2>4 DEF Copy, handover, Shape
    <3> QED BY <2>1, <3>1 DEF InOrder
  <2>5. CASE Clear
    <3>1. UNCHANGED <<handled, command, local>> /\ dpc' = "wipe" /\ ~ready' /\ dpc = "clear"
      BY <2>5 DEF Clear
    <3> QED BY <2>1, <3>1 DEF InOrder
  <2>6. CASE Wipe
    <3>1. UNCHANGED <<handled, local, ready>> /\ dpc' = "process" /\ ~ready /\ dpc = "wipe"
      BY <1>0, <2>6 DEF Wipe, Shape
    <3> QED BY <2>1, <3>1 DEF InOrder
  <2>7. CASE Process
    <3>1. /\ UNCHANGED <<command, ready, local>> /\ dpc' = "answer" /\ dpc = "process"
          /\ handled' = Append(handled, local)
      BY <2>7 DEF Process, handover
    <3>2. handled \in Seq(Seq(Chars))
      BY <1>0 DEF Types
    <3>3. /\ \A i \in DOMAIN handled : /\ Whole(handled[i], Asked) /\ Past(handled[i][1].of, Down)
                                       /\ handled[i][1].of < local[1].of
          /\ \A i, j \in DOMAIN handled : i < j => handled[i][1].of < handled[j][1].of
          /\ Whole(local, Asked) /\ Past(local[1].of, Down)
      BY <2>1, <3>1 DEF InOrder
    <3>4. PICK h2 : h2 = Append(handled, local)
      OBVIOUS
    <3>5. /\ \A i \in DOMAIN h2 : Whole(h2[i], Asked) /\ Past(h2[i][1].of, Down)
          /\ \A i, j \in DOMAIN h2 : i < j => h2[i][1].of < h2[j][1].of
          /\ \A i \in DOMAIN h2 : (i \in DOMAIN handled /\ h2[i] = handled[i]) \/ h2[i] = local
      BY <3>2, <3>3, <3>4, HandledOn
    <3>6. ready => /\ Whole(command, Asked) /\ Past(command[1].of, Down)
                   /\ \A i \in DOMAIN h2 : h2[i][1].of < command[1].of
      BY <2>1, <3>1, <3>5 DEF InOrder
    <3>7. handled' = h2
      BY <3>1, <3>4
    <3> QED BY <2>1, <3>1, <3>5, <3>6, <3>7 DEF InOrder
  <2> QED BY <1>4, <2>2, <2>3, <2>4, <2>5, <2>6, <2>7 DEF MainLoop
<1> QED BY <1>1, <1>2, <1>3, <1>4, Kinds

LEMMA StreamInit == Init => SInv /\ InOrder
<1> SUFFICES ASSUME Init PROVE SInv /\ InOrder
  OBVIOUS
<1>1. Types /\ Shape
  BY ShapeInit
<1>2. /\ asked = <<>> /\ left = <<>> /\ down = <<>> /\ rx = <<>> /\ ready = FALSE
      /\ dpc = "check" /\ handled = <<>>
  BY DEF Init, ServiceInit, DutInit
<1>3. Len(down) = 0 /\ Len(left) = 0
  BY <1>2
<1>4. PICK v \in Seq(Chars) : v = Down /\ Len(v) = 1 /\ v[1] = Eol /\ DOMAIN v = 1..1
  BY <1>1, <1>2, <1>3, DownIs DEF Prev
<1>5. Lines(v, Asked)
  BY <1>4, SMTT(30) DEF Lines
<1>6. Ordered(v)
  BY <1>4 DEF Ordered
<1>7. InStream
  BY <1>2, <1>4, <1>5 DEF InStream
<1>8. ~LastSettled
  BY <1>2 DEF LastSettled
<1>9. InOrder
  BY <1>2, <1>4, <1>6 DEF InOrder
<1> QED BY <1>1, <1>7, <1>8, <1>9 DEF SInv, OneLine

LEMMA StreamStep == SInv /\ InOrder /\ [Next]_vars => SInv' /\ InOrder'
  BY ShapeStep, InStreamStep, OneLineStep, InOrderStep DEF SInv

\* A whole line is that of one request only.
LEMMA RequestOfWhole ==
  ASSUME Types, NEW text, Whole(text, Asked)
  PROVE  RequestOf(text) = text[1].of /\ RequestOf(text) \in DOMAIN asked /\ RequestOf(text) # 0
<1>1. PICK m \in DOMAIN asked : m = text[1].of /\ text = Word(m, Asked[m]) /\ text # <<>>
  BY AskedIs DEF Whole
<1> DEFINE whole == {n \in DOMAIN asked : text = Word(n, asked[n].size) /\ text # <<>>}
<1>2. m \in whole
  BY <1>1, AskedIs
<1>3. ASSUME NEW n \in whole PROVE n = m
  <2>1. PICK s \in 0..(Room + AnswerSize) : s = asked[n].size /\ n \in 0..MaxLines
    BY AskedIs
  <2>2. text = Word(n, s) /\ text # <<>>
    BY <2>1
  <2>3. s \in Nat
    BY <2>1, Constants
  <2>4. s # 0
    BY <2>2, NoWord
  <2>5. 1 \in 1..s
    BY <2>3, <2>4
  <2>6. Word(n, s)[1] = [of |-> n, at |-> 1]
    BY <2>1, <2>5, WordIs
  <2>7. PICK c : c = text[1]
    OBVIOUS
  <2>8. c = [of |-> n, at |-> 1]
    BY <2>2, <2>6, <2>7
  <2>9. c.of = n
    BY <2>8
  <2>10. c.of = m
    BY <1>1, <2>7
  <2> QED BY <2>9, <2>10
<1>4. RequestOf(text) = CHOOSE n \in whole : TRUE
  BY <1>2 DEF RequestOf
<1>5. (CHOOSE n \in whole : TRUE) \in whole
  BY <1>2, Zenon
<1>6. RequestOf(text) = m
  BY <1>3, <1>4, <1>5, Zenon
<1>7. m # 0
  BY <1>1, AskedIs
<1> QED BY <1>1, <1>6, <1>7, Zenon

\* DUT1's main loop acts on whole lines, in order and once each, at whatever
\* point its receive interrupt takes the next characters and lines (uart_app.c:57-97,
\* 126-145); so does DUT3's interrupt (uart_echo.c:28), as long as no line is begun
\* before it has finished the echo of the last one.
THEOREM HandledInOrder == Spec => []WholeLinesOnce
<1>1. SInv /\ InOrder => WholeLinesOnce
  <2> SUFFICES ASSUME SInv, InOrder, Orderly
               PROVE  /\ \A i \in DOMAIN handled : RequestOf(handled[i]) # 0
                      /\ \A i, j \in DOMAIN handled :
                           i < j => RequestOf(handled[i]) < RequestOf(handled[j])
    BY DEF WholeLinesOnce, Orderly
  <2>1. /\ \A i \in DOMAIN handled : Whole(handled[i], Asked)
        /\ \A i, j \in DOMAIN handled : i < j => handled[i][1].of < handled[j][1].of
    BY DEF InOrder
  <2>2. \A i \in DOMAIN handled : RequestOf(handled[i]) = handled[i][1].of /\ RequestOf(handled[i]) # 0
    BY <2>1, RequestOfWhole DEF SInv
  <2> QED BY <2>1, <2>2
<1> QED BY <1>1, StreamInit, StreamStep, PTL DEF Spec

-----------------------------------------------------------------------------
(* To the testbench *)

Up      == <<IF tpc = "read" THEN Prev(line) ELSE Eol>> \o (up \o todo)
Answers == [n \in DOMAIN asked |-> IF dut = "DUT1" THEN AnswerSize ELSE asked[n].size]

\* The answer to a line begun on a settled link can still be read, whole.
Awaited ==
  /\ LastSettled
  /\ tpc = "send" \/ (tpc = "idle" /\ reads = 0) \/ (tpc = "read" /\ reads = 1)

\* Then nothing else comes.
Reading ==
  Awaited =>
    /\ Lines(Up, Answers)
    /\ \A k \in DOMAIN Up : Up[k] # Eol => Up[k].of = Len(asked)
    /\ tpc = "read" /\ line # <<>> => line = Word(Len(asked), Len(line))

LEMMA LastIs ==
  ASSUME Types, asked # <<>>
  PROVE  /\ Len(asked) \in DOMAIN asked /\ Len(asked) \in 1..MaxLines
         /\ Len(asked) \in DOMAIN Answers /\ Answers[Len(asked)] \in 0..(Room + AnswerSize)
         /\ Answer(Len(asked)) = Word(Len(asked), Answers[Len(asked)])
         /\ dut = "DUT3" => Answers[Len(asked)] = Asked[Len(asked)]
<1>1. PICK n \in Nat : n = Len(asked)
  BY AskedIs
<1>2. n # 0
  BY <1>1 DEF Types
<1>3. n \in DOMAIN asked
  BY <1>1, <1>2, AskedIs
<1>4. n \in 1..MaxLines /\ Asked[n] = asked[n].size /\ Asked[n] \in 0..(Room + AnswerSize)
  BY <1>3, AskedIs
<1>5. DOMAIN Answers = DOMAIN asked
      /\ Answers[n] = IF dut = "DUT1" THEN AnswerSize ELSE asked[n].size
  BY <1>3 DEF Answers
<1>6. Answers[n] \in 0..(Room + AnswerSize)
  <2>1. CASE dut = "DUT1"
    BY <1>5, <2>1, Constants
  <2>2. CASE dut # "DUT1"
    BY <1>4, <1>5, <2>2
  <2> QED BY <2>1, <2>2
<1>7. Answer(n) = Word(n, Answers[n])
  BY <1>5 DEF Answer
<1>8. dut = "DUT3" => Answers[n] = Asked[n]
  BY <1>4, <1>5
<1> QED BY <1>1, <1>3, <1>4, <1>5, <1>6, <1>7, <1>8, SMTT(30)

LEMMA UpIs ==
  ASSUME Types
  PROVE  /\ Up \in Seq(Chars) /\ up \o todo \in Seq(Chars) /\ 1 \in DOMAIN Up
         /\ Up[1] = IF tpc = "read" THEN Prev(line) ELSE Eol
         /\ Up[1] \in Chars
         /\ Len(Up) = 1 + Len(up) + Len(todo) /\ DOMAIN Up = 1..Len(Up)
<1>1. PICK p \in Chars : p = IF tpc = "read" THEN Prev(line) ELSE Eol
  BY PrevType, EolIsChar DEF Types
<1>2. up \in Seq(Chars) /\ todo \in Seq(Chars) /\ Len(up) \in Nat /\ Len(todo) \in Nat
  BY DEF Types
<1>3. up \o todo \in Seq(Chars) /\ Len(up \o todo) = Len(up) + Len(todo)
  BY <1>2, ConcatProperties
<1>4. PICK d \in Seq(Chars) : d = up \o todo
  BY <1>3
<1>5. /\ <<p>> \o d \in Seq(Chars) /\ (<<p>> \o d)[1] = p /\ Len(<<p>> \o d) = 1 + Len(d)
  OBVIOUS
<1>6. Up = <<p>> \o d
  BY <1>1, <1>4 DEF Up
<1>7. DOMAIN Up = 1..Len(Up)
  BY <1>5, <1>6
<1>8. Len(Up) = 1 + Len(up) + Len(todo) /\ 1 \in 1..Len(Up)
  BY <1>2, <1>3, <1>4, <1>5, <1>6
<1> QED BY <1>1, <1>3, <1>5, <1>6, <1>7, <1>8

\* A character of a line of one request: it goes on, or it is complete.
LEMMA Reads ==
  ASSUME NEW text \in Seq(Chars), NEW t \in Seq(Chars), NEW size, NEW n \in 1..MaxLines,
         n \in DOMAIN size, size[n] \in 0..(Room + AnswerSize),
         Lines(t, size), Len(t) > 1, t[1] = Prev(text),
         \A k \in DOMAIN t : t[k] # Eol => t[k].of = n,
         text # <<>> => text = Word(n, Len(text))
  PROVE  /\ t[2] # Eol => Append(text, t[2]) = Word(n, Len(Append(text, t[2])))
         /\ t[2] = Eol /\ text # <<>> => text = Word(n, size[n])
<1>1. Len(t) \in Nat /\ DOMAIN t = 1..Len(t) /\ 1 \in DOMAIN t /\ 2 \in DOMAIN t
  OBVIOUS
<1>2. PICK c \in Chars, p \in Chars : c = t[2] /\ p = t[1]
  BY <1>1
<1>3. Follows(c, p, size)
  BY <1>2, TailLines
<1>4. /\ c # Eol => c.of = n /\ c.at \in 1..size[n]
      /\ p # Eol => p.of = n /\ p.at \in 1..size[n]
  BY <1>1, <1>2 DEF Lines
<1>5. PICK s \in Nat : s = size[n] /\ s <= Room + AnswerSize
  BY Constants
<1>6. n \in 0..MaxLines
  OBVIOUS
<1>7. Len(Append(text, c)) = Len(text) + 1 /\ Len(text) \in Nat
  BY AppendProperties
<1>8. CASE text = <<>>
  <2> SUFFICES ASSUME c # Eol PROVE Append(text, c) = Word(n, Len(Append(text, c)))
    BY <1>2, <1>8
  <2>1. p = Eol
    BY <1>2, <1>8 DEF Prev
  <2>2. c.at = 1
    BY <1>3, <2>1 DEF Follows
  <2>3. c = [of |-> n, at |-> 0 + 1] /\ 0 < Room + AnswerSize
    <3>1. 1 <= s
      BY <1>4, <1>5, <2>2
    <3>2. c = [of |-> n, at |-> 1]
      BY <1>4, <2>2, CharFields
    <3> QED BY <1>5, <3>1, <3>2, Constants
  <2>4. Append(Word(n, 0), c) = Word(n, 0 + 1)
    BY <1>6, <2>3, WordGrows
  <2>5. Word(n, 0) = text /\ Len(Append(text, c)) = 0 + 1
    BY <1>7, <1>8, NoWord
  <2> QED BY <2>4, <2>5, Zenon
<1>9. CASE text # <<>>
  <2>1. PICK l \in Nat \ {0} : l = Len(text)
    BY <1>9
  <2>2. text = Word(n, l)
    BY <1>9, <2>1
  <2>3. Word(n, l)[l] = [of |-> n, at |-> l]
    <3>1. l \in 1..l
      BY <2>1
    <3> QED BY <3>1 DEF Word
  <2>4. p = [of |-> n, at |-> l]
    <3>1. p = text[l]
      BY <1>2, <1>9, <2>1 DEF Prev
    <3> QED BY <2>2, <2>3, <3>1
  <2>5. p # Eol /\ p.of = n /\ p.at = l
    BY <2>1, <2>4, EolIsChar
  <2>6. l \in 1..s
    BY <1>4, <1>5, <2>5
  <2>7. c = IF l < s THEN [of |-> n, at |-> l + 1] ELSE Eol
    BY <1>3, <1>5, <2>5 DEF Follows
  <2>8. ASSUME c # Eol PROVE Append(text, c) = Word(n, Len(Append(text, c)))
    <3>1. l < s /\ c = [of |-> n, at |-> l + 1]
      BY <2>7, <2>8
    <3>2. l < Room + AnswerSize
      BY <1>5, <3>1, Constants
    <3>3. Append(Word(n, l), c) = Word(n, l + 1)
      BY <1>6, <3>1, <3>2, WordGrows
    <3>4. Len(Append(text, c)) = l + 1
      BY <1>7, <2>1
    <3> QED BY <2>2, <3>3, <3>4
  <2>9. ASSUME c = Eol PROVE text = Word(n, size[n])
    <3>1. [of |-> n, at |-> l + 1] # Eol
      BY <2>1, EolIsChar
    <3>2. l = s
      BY <2>6, <2>7, <2>9, <3>1
    <3> QED BY <1>5, <2>2, <3>2
  <2> QED BY <1>2, <2>8, <2>9
<1> QED BY <1>8, <1>9

LEMMA UpNext ==
  ASSUME Types, tpc = "read", up # <<>>
  PROVE  /\ Len(Up) > 1 /\ Up[1] = Prev(line) /\ Up[2] = Head(up) /\ Head(up) \in Chars
         /\ Tail(Up) = <<Head(up)>> \o (Tail(up) \o todo)
<1>1. Prev(line) \in Chars /\ up \in Seq(Chars) /\ todo \in Seq(Chars)
  BY PrevType DEF Types
<1>2. Up = <<Prev(line)>> \o (up \o todo)
  BY DEF Up
<1>3. Head(up) \in Chars
  BY <1>1, HeadTailProperties
<1> QED BY <1>1, <1>2, <1>3, Leaves

\* What uart_read_line makes of the next character.
LEMMA ReadsMine ==
  ASSUME Types, Reading, Awaited, tpc = "read", up # <<>>
  PROVE  /\ Head(up) # Eol => Append(line, Head(up)) = Word(Len(asked), Len(Append(line, Head(up))))
         /\ Head(up) = Eol /\ line # <<>> => line = Answer(Len(asked))
<1>1. asked # <<>>
  BY DEF Awaited, LastSettled
<1>2. PICK n \in 1..MaxLines :
        /\ n = Len(asked) /\ n \in DOMAIN Answers /\ Answers[n] \in 0..(Room + AnswerSize)
        /\ Answer(Len(asked)) = Word(n, Answers[n])
  BY <1>1, LastIs
<1>3. PICK t \in Seq(Chars), size \in {Answers} : t = Up /\ size = Answers
  BY UpIs
<1>4. /\ Len(t) > 1 /\ t[1] = Prev(line) /\ t[2] = Head(up)
  BY <1>3, UpNext
<1>5. /\ Lines(t, size) /\ \A k \in DOMAIN t : t[k] # Eol => t[k].of = n
      /\ line # <<>> => line = Word(n, Len(line))
  BY <1>2, <1>3 DEF Reading
<1>6. line \in Seq(Chars)
  BY DEF Types
<1>7. /\ t[2] # Eol => Append(line, t[2]) = Word(n, Len(Append(line, t[2])))
      /\ t[2] = Eol /\ line # <<>> => line = Word(n, size[n])
  BY <1>2, <1>3, <1>4, <1>5, <1>6, Reads
<1> QED BY <1>2, <1>3, <1>4, <1>7

LEMMA UpWith ==
  ASSUME Types, NEW w \in Seq(Chars)
  PROVE  <<IF tpc = "read" THEN Prev(line) ELSE Eol>> \o (up \o (todo \o w)) = Up \o w
<1>1. PICK e : e = <<IF tpc = "read" THEN Prev(line) ELSE Eol>>
  OBVIOUS
<1>2. (IF tpc = "read" THEN Prev(line) ELSE Eol) \in Chars
  BY PrevType, EolIsChar DEF Types
<1>3. e \in Seq(Chars)
  BY <1>1, <1>2
<1>4. up \in Seq(Chars) /\ todo \in Seq(Chars)
  BY DEF Types
<1>5. e \o (up \o (todo \o w)) = (e \o (up \o todo)) \o w
  <2>1. PICK d \in Seq(Chars) : d = up \o todo
    BY <1>4, ConcatType
  <2>2. e \o (d \o w) = (e \o d) \o w
    BY <1>3, Regroups, Zenon
  <2>3. up \o (todo \o w) = (up \o todo) \o w
    BY <1>4, Regroups, Zenon
  <2> QED BY <2>1, <2>2, <2>3, Zenon
<1>6. Up = e \o (up \o todo)
  BY <1>1 DEF Up
<1> QED BY <1>1, <1>5, <1>6, Zenon

\* The DUT sends more.
LEMMA ReadingGrows ==
  ASSUME Types, Reading, Awaited, UNCHANGED <<asked, dut, tpc, line, up>>,
         NEW w \in Seq(Chars), todo' = todo \o w, Lines(w, Answers), w[1] = Eol \/ w[1].at = 1,
         \A k \in DOMAIN w : w[k] # Eol => w[k].of = Len(asked)
  PROVE  Reading'
<1>1. PICK t \in Seq(Chars) : t = Up
  BY UpIs
<1>6. Up' = t \o w
  BY <1>1, UpWith DEF Up
<1>7. /\ Lines(t, Answers) /\ \A k \in DOMAIN t : t[k] # Eol => t[k].of = Len(asked)
      /\ tpc = "read" /\ line # <<>> => line = Word(Len(asked), Len(line))
  BY <1>1 DEF Reading
<1>8. PICK v : v = t \o w
  OBVIOUS
<1>9. Lines(v, Answers)
  BY <1>7, <1>8, MoreLines
<1>10. ASSUME NEW k \in DOMAIN v, v[k] # Eol PROVE v[k].of = Len(asked)
  <2>1. /\ DOMAIN v = 1..(Len(t) + Len(w)) /\ Len(t) \in Nat /\ Len(w) \in Nat
        /\ DOMAIN t = 1..Len(t) /\ DOMAIN w = 1..Len(w)
        /\ \A i \in 1..(Len(t) + Len(w)) : v[i] = IF i <= Len(t) THEN t[i] ELSE w[i - Len(t)]
    <3>1. /\ v \in Seq(Chars) /\ Len(v) = Len(t) + Len(w)
          /\ \A i \in 1..(Len(t) + Len(w)) : v[i] = IF i <= Len(t) THEN t[i] ELSE w[i - Len(t)]
      BY <1>8, ConcatProperties
    <3> QED BY <3>1
  <2>2. CASE k <= Len(t)
    <3>1. k \in DOMAIN t /\ v[k] = t[k]
      BY <2>1, <2>2
    <3> QED BY <1>7, <1>10, <3>1
  <2>3. CASE ~(k <= Len(t))
    <3>1. k - Len(t) \in DOMAIN w /\ v[k] = w[k - Len(t)]
      BY <2>1, <2>3
    <3> QED BY <1>10, <3>1
  <2> QED BY <2>2, <2>3
<1>11. Answers' = Answers /\ Up' = v
  BY <1>6, <1>8 DEF Answers
<1> QED BY <1>7, <1>9, <1>10, <1>11 DEF Reading

LEMMA ReadingKeeps ==
  ASSUME Reading, Awaited, UNCHANGED <<asked, dut>>, Up' = Up,
         tpc' = "read" /\ line' # <<>> => tpc = "read" /\ line' = line
  PROVE  Reading'
<1>1. Answers' = Answers
  BY DEF Answers
<1> QED BY <1>1 DEF Reading

\* The line that was begun last, when it is complete.
LEMMA LineIsLast ==
  ASSUME SInv, LastSettled, EchoInterrupt, Head(down) = Eol, rx # <<>>
  PROVE  Whole(rx, Asked) /\ rx[1].of = Len(asked)
<1>1. Calm /\ Types
  BY DEF LastSettled, Calm, SInv
<1>2. down # <<>> /\ Whole(rx, Asked)
  BY <1>1, Takes
<1>3. /\ Len(Down) > 1 /\ Down[1] = Prev(rx) /\ Down[2] = Head(down) /\ Head(down) \in Chars
      /\ 1 \in DOMAIN Down
  BY <1>1, <1>2, DownNext
<1>4. Lines(Down, Asked) /\ rx = Word(rx[1].of, Len(rx))
  BY <1>1 DEF SInv, InStream
<1>5. Prev(rx).of = rx[1].of /\ Prev(rx) # Eol
  BY <1>1, <1>3, <1>4, Collects
<1>6. Prev(rx).of = Len(asked)
  BY <1>3, <1>5 DEF SInv, OneLine
<1> QED BY <1>2, <1>5, <1>6

\* An end of line alone is nobody's.
LEMMA EolLine ==
  ASSUME NEW size
  PROVE  /\ <<Eol>> \in Seq(Chars) /\ Lines(<<Eol>>, size) /\ <<Eol>>[1] = Eol
         /\ \A k \in DOMAIN <<Eol>> : <<Eol>>[k] = Eol
<1>0. PICK c \in Chars : c = Eol
  BY EolIsChar
<1>1. PICK t : t = <<Eol>> /\ t \in Seq(Chars) /\ Len(t) = 1 /\ DOMAIN t = 1..1 /\ t[1] = Eol
  <2>1. <<c>> \in Seq(Chars) /\ Len(<<c>>) = 1 /\ <<c>>[1] = c
    OBVIOUS
  <2>2. DOMAIN <<c>> = 1..1
    BY <2>1
  <2>3. PICK t : t = <<c>>
    OBVIOUS
  <2> QED BY <1>0, <2>1, <2>2, <2>3
<1>2. Lines(t, size)
  BY <1>1 DEF Lines
<1> QED BY <1>1, <1>2

\* What DUT1 answers, and DUT3, to the line that was begun last.
LEMMA AnswerLineIs ==
  ASSUME Types, asked # <<>>
  PROVE  LET w == AnswerLine(Len(asked))
         IN  /\ w \in Seq(Chars) /\ Lines(w, Answers) /\ (w[1] = Eol \/ w[1].at = 1)
             /\ \A k \in DOMAIN w : w[k] # Eol => w[k].of = Len(asked)
<1>1. PICK n \in 1..MaxLines, size \in {Answers} :
        /\ n = Len(asked) /\ size = Answers /\ n \in DOMAIN size
        /\ size[n] \in 0..(Room + AnswerSize) /\ Answer(Len(asked)) = Word(n, size[n])
  BY LastIs
<1>2. PICK w : w = Append(Word(n, size[n]), Eol)
  OBVIOUS
<1>3. w = AnswerLine(Len(asked))
  BY <1>1, <1>2 DEF AnswerLine
<1>4. /\ w \in Seq(Chars) /\ Len(w) = size[n] + 1
      /\ \A k \in 1..size[n] : w[k] = [of |-> n, at |-> k]
      /\ w[size[n] + 1] = Eol
      /\ Lines(w, size) /\ (w[1] = Eol \/ w[1].at = 1)
  BY <1>1, <1>2, WordLine
<1>5. ASSUME NEW k \in DOMAIN w, w[k] # Eol PROVE w[k].of = n
  <2>1. PICK s \in Nat : s = size[n]
    BY <1>1, Constants
  <2>0. DOMAIN w = 1..(s + 1) /\ w[s + 1] = Eol
    <3>1. w \in Seq(Chars) /\ Len(w) = s + 1
      BY <1>4, <2>1
    <3> QED BY <1>4, <2>1, <3>1
  <2>2. k \in 1..s
    BY <1>5, <2>0
  <2>3. w[k] = [of |-> n, at |-> k]
    BY <1>4, <2>1, <2>2
  <2> QED BY <2>3
<1> QED BY <1>1, <1>3, <1>4, <1>5

LEMMA EchoLineIs ==
  ASSUME Types, asked # <<>>, dut = "DUT3", Whole(rx, Asked), rx[1].of = Len(asked)
  PROVE  /\ Echo \in Seq(Chars) /\ Lines(Echo, Answers) /\ (Echo[1] = Eol \/ Echo[1].at = 1)
         /\ \A k \in DOMAIN Echo : Echo[k] # Eol => Echo[k].of = Len(asked)
<1>1. Answer(Len(asked)) = Word(Len(asked), Asked[Len(asked)]) /\ rx # <<>>
  BY LastIs DEF Whole
<1>2. rx = Answer(Len(asked))
  <2>1. PICK n : n = Len(asked)
    OBVIOUS
  <2>2. rx = Word(rx[1].of, Asked[rx[1].of]) /\ rx[1].of = n
    BY <2>1 DEF Whole
  <2>3. rx = Word(n, Asked[n])
    BY <2>2, Zenon
  <2> QED BY <1>1, <2>1, <2>3
<1>3. PICK w \in Seq(Chars) :
        /\ w = Append(rx, Eol) /\ Lines(w, Answers) /\ (w[1] = Eol \/ w[1].at = 1)
        /\ \A k \in DOMAIN w : w[k] # Eol => w[k].of = Len(asked)
  BY <1>2, AnswerLineIs DEF AnswerLine
<1>4. PICK e \in Seq(Chars) :
        /\ e = <<Eol>> /\ Lines(e, Answers) /\ e[1] = Eol /\ \A k \in DOMAIN e : e[k] = Eol
  BY EolLine
<1>5. PICK v \in Seq(Chars) : v = w \o e
  BY ConcatType
<1>6. Echo = v
  BY <1>1, <1>3, <1>4, <1>5, EchoIs
<1>7. Lines(v, Answers)
  BY <1>3, <1>4, <1>5, MoreLines
<1>8. /\ DOMAIN v = 1..(Len(w) + Len(e)) /\ Len(w) \in Nat /\ Len(e) \in Nat /\ Len(w) # 0
      /\ DOMAIN w = 1..Len(w) /\ DOMAIN e = 1..Len(e)
      /\ \A i \in 1..(Len(w) + Len(e)) : v[i] = IF i <= Len(w) THEN w[i] ELSE e[i - Len(w)]
  <2>1. /\ v \in Seq(Chars) /\ Len(v) = Len(w) + Len(e)
        /\ \A i \in 1..(Len(w) + Len(e)) : v[i] = IF i <= Len(w) THEN w[i] ELSE e[i - Len(w)]
    BY <1>5, ConcatProperties
  <2>2. Len(w) # 0
    BY <1>3, EmptySeq DEF Lines
  <2> QED BY <2>1, <2>2
<1>9. v[1] = Eol \/ v[1].at = 1
  <2>1. v[1] = w[1]
    BY <1>8
  <2> QED BY <1>3, <2>1
<1>10. ASSUME NEW k \in DOMAIN v, v[k] # Eol PROVE v[k].of = Len(asked)
  <2>1. CASE k <= Len(w)
    <3>1. k \in DOMAIN w /\ v[k] = w[k]
      BY <1>8, <2>1
    <3> QED BY <1>3, <1>10, <3>1
  <2>2. CASE ~(k <= Len(w))
    <3>1. k - Len(w) \in DOMAIN e /\ v[k] = e[k - Len(w)]
      BY <1>8, <2>2
    <3> QED BY <1>4, <1>10, <3>1
  <2> QED BY <2>1, <2>2
<1> QED BY <1>6, <1>7, <1>9, <1>10

\* The requests DUT1 answers.
LEMMA ProcessIs ==
  ASSUME SInv, InOrder, LastSettled, Process
  PROVE  /\ RequestOf(local) = Len(asked) /\ todo' = AnswerLine(Len(asked)) /\ todo = <<>>
         /\ UNCHANGED <<asked, dut, tpc, line, up, reads, got>>
<1>1. /\ dpc = "process" /\ Types /\ todo' = AnswerLine(RequestOf(local))
      /\ UNCHANGED <<asked, dut, tpc, line, up, reads, got>>
  BY DEF SInv, Process, testbench, isr
<1>2. dut = "DUT1" /\ todo = <<>>
  BY <1>1 DEF SInv, Shape, Types
<1>3. Whole(local, Asked)
  BY <1>1, <1>2 DEF InOrder, Orderly
<1>4. local[1].of = Len(asked)
  BY <1>1 DEF SInv, OneLine
<1>5. RequestOf(local) = local[1].of
  BY <1>1, <1>3, RequestOfWhole
<1> QED BY <1>1, <1>2, <1>4, <1>5

LEMMA ReadingStep == ASSUME SInv, InOrder, Reading, [Next]_vars PROVE Reading'
<1> SUFFICES ASSUME Awaited' PROVE Reading'
  BY DEF Reading
<1>0. Types /\ Shape
  BY DEF SInv
<1>1. CASE Flush
  <2>1. /\ down = <<>> /\ rx = <<>> /\ ~ready /\ dpc = "check" /\ ~Echoing
    BY <1>1, FlushSettled DEF Awaited
  <2>2. tpc' = "send" /\ up' = <<>> /\ todo' = todo
    BY <1>1 DEF Flush, Flushed, mainloop
  <2>3. todo \in Seq(Chars) /\ Ends(todo) /\ Len(todo) <= 1 /\ Len(todo) \in Nat
    <3>1. dut = "DUT1" => todo = <<>>
      BY <1>0, <2>1 DEF Shape
    <3>2. todo \in Seq(Chars) /\ Ends(todo) /\ Len(todo) \in Nat
      BY <1>0 DEF Shape, Types
    <3>3. dut = "DUT3" => Len(todo) <= 1
      BY <2>1, <3>2 DEF Echoing
    <3> QED BY <1>0, <3>1, <3>2, <3>3 DEF Types
  <2>4. PICK u \in Seq(Chars) : u = <<>> \o todo /\ u = todo
    BY <2>3, ConcatEmptySeq
  <2>5. DOMAIN u = 1..Len(u) /\ \A k \in DOMAIN u : u[k] = Eol
    BY <2>3, <2>4 DEF Ends
  <2>6. PICK c \in Chars : c = Eol
    BY EolIsChar
  <2>7. PICK t \in Seq(Chars) : t = <<c>> \o u
    <3>1. <<c>> \in Seq(Chars)
      OBVIOUS
    <3> QED BY <3>1, ConcatType
  <2>8. Len(t) = 1 + Len(u) /\ DOMAIN t = 1..Len(t) /\ t[1] = c
        /\ \A k \in 2..Len(t) : t[k] = u[k - 1]
    BY <2>7
  <2>9. \A k \in DOMAIN t : t[k] = Eol
    <3> SUFFICES ASSUME NEW k \in DOMAIN t PROVE t[k] = Eol
      OBVIOUS
    <3>1. CASE k = 1
      BY <2>6, <2>8, <3>1
    <3>2. CASE k # 1
      <4>1. k \in 2..Len(t) /\ k - 1 \in DOMAIN u
        BY <2>5, <2>8, <3>2
      <4> QED BY <2>5, <2>8, <4>1
    <3> QED BY <3>1, <3>2
  <2>10. Up' = t
    <3>1. Up' = <<Eol>> \o (<<>> \o todo)
      BY <2>2 DEF Up
    <3> QED BY <2>4, <2>6, <2>7, <3>1, Zenon
  <2>11. ASSUME NEW size PROVE Lines(t, size)
    <3>1. t # <<>> /\ Len(t) \in DOMAIN t
      BY <2>8, EmptySeq
    <3>2. \A k \in 1..(Len(t) - 1) : k \in DOMAIN t /\ k + 1 \in DOMAIN t
      BY <2>8
    <3> QED BY <2>9, <3>1, <3>2 DEF Lines, Follows
  <2> QED BY <2>2, <2>9, <2>10, <2>11 DEF Reading
<1>2. CASE StartRead
  <2>1. /\ tpc = "idle" /\ tpc' = "read" /\ line' = <<>> /\ reads' = (IF reads = 0 THEN 1 ELSE 2)
        /\ UNCHANGED <<asked, dut, up, todo>>
    BY <1>2 DEF StartRead, isr, mainloop
  <2>2. reads = 0 /\ LastSettled
    <3>1. reads' = 1
      BY <2>1 DEF Awaited
    <3>2. reads = 0
      BY <2>1, <3>1
    <3> QED BY <2>1, <3>2, CalmStays DEF Awaited
  <2>3. Awaited
    BY <2>1, <2>2 DEF Awaited
  <2>4. Up' = Up
    BY <2>1 DEF Up, Prev
  <2> QED BY <2>1, <2>3, <2>4, ReadingKeeps
<1>3. CASE SendDone
  <2>1. tpc = "send" /\ line' = <<>> /\ UNCHANGED <<asked, dut, up, todo>>
    BY <1>3 DEF SendDone, isr, mainloop
  <2>2. Awaited
    BY <2>1, CalmStays DEF Awaited
  <2>3. Up' = Up
    BY <2>1 DEF Up, Prev
  <2> QED BY <2>1, <2>2, <2>3, ReadingKeeps
<1>4. CASE ReadChar
  <2>1. /\ tpc = "read" /\ up # <<>> /\ up' = Tail(up) /\ UNCHANGED <<reads, asked, dut, todo>>
    BY <1>4 DEF ReadChar, isr, mainloop
  <2>2. tpc' = "read" /\ reads = 1 /\ LastSettled
    <3>1. tpc' \in {"idle", "read"} /\ reads # 0
      BY <1>0, <1>4, <2>1 DEF ReadChar, Shape
    <3> QED BY <2>1, <3>1, CalmStays DEF Awaited
  <2>3. Awaited
    BY <2>1, <2>2 DEF Awaited
  <2>4. /\ Len(Up) > 1 /\ Head(up) \in Chars
        /\ Tail(Up) = <<Head(up)>> \o (Tail(up) \o todo)
    BY <1>0, <2>1, UpNext
  <2>5. /\ Prev(line') = Head(up)
        /\ line' # <<>> => line' = Word(Len(asked), Len(line'))
    <3>1. CASE Head(up) = Eol
      <4>1. line' = line /\ line = <<>>
        BY <1>4, <2>2, <3>1 DEF ReadChar
      <4> QED BY <3>1, <4>1 DEF Prev
    <3>2. CASE Head(up) # Eol
      <4>1. PICK c \in Chars, l \in Seq(Chars) : c = Head(up) /\ l = line
        BY <1>0, <2>4 DEF Types
      <4>2. line' = Append(l, c)
        BY <1>4, <3>2, <4>1 DEF ReadChar
      <4>3. /\ Append(l, c) # <<>> /\ Len(Append(l, c)) = Len(l) + 1
            /\ Append(l, c)[Len(l) + 1] = c
        BY AppendProperties
      <4>4. Prev(Append(l, c)) = c
        BY <4>3 DEF Prev
      <4>5. Append(l, c) = Word(Len(asked), Len(Append(l, c)))
        BY <1>0, <2>1, <2>3, <3>2, <4>1, ReadsMine
      <4> QED BY <4>1, <4>2, <4>4, <4>5
    <3> QED BY <3>1, <3>2
  <2>6. Up' = <<Prev(line')>> \o (Tail(up) \o todo)
    BY <2>1, <2>2 DEF Up, Prev
  <2>7. PICK t \in Seq(Chars), size \in {Answers} : t = Up /\ size = Answers /\ Up' = Tail(t)
    <3>1. Up' = Tail(Up)
      BY <2>4, <2>5, <2>6
    <3> QED BY <1>0, <3>1, UpIs
  <2>8. Lines(t, size) /\ \A k \in DOMAIN t : t[k] # Eol => t[k].of = Len(asked)
    BY <2>3, <2>7 DEF Reading
  <2>9. Lines(Tail(t), size)
    BY <2>4, <2>7, <2>8, TailLines
  <2>10. \A k \in DOMAIN Tail(t) : Tail(t)[k] # Eol => Tail(t)[k].of = Len(asked)
    <3>1. Len(t) \in Nat /\ DOMAIN t = 1..Len(t) /\ t # <<>>
      BY <2>4, <2>7, EmptySeq
    <3>2. /\ Tail(t) \in Seq(Chars) /\ DOMAIN Tail(t) = 1..(Len(t) - 1)
          /\ \A i \in 1..(Len(t) - 1) : Tail(t)[i] = t[i + 1] /\ i + 1 \in DOMAIN t
      BY <3>1, HeadTailProperties
    <3> QED BY <2>8, <3>2
  <2>11. Answers' = Answers /\ asked' = asked
    BY <2>1 DEF Answers
  <2>12. /\ Lines(Up', Answers')
         /\ \A k \in DOMAIN Up' : Up'[k] # Eol => Up'[k].of = Len(asked')
    BY <2>7, <2>9, <2>10, <2>11
  <2>13. line' # <<>> => line' = Word(Len(asked'), Len(line'))
    BY <2>5, <2>11
  <2> QED BY <2>12, <2>13 DEF Reading
<1>5. CASE SendChar \/ RxInterrupt \/ Check \/ Copy \/ Clear \/ Wipe \/ Overrun \/ UNCHANGED vars
  <2>1. UNCHANGED <<tpc, line, reads, asked, dut, up, todo>>
    BY <1>5 DEF SendChar, RxInterrupt, Check, Copy, Clear, Wipe, Overrun,
                vars, testbench, isr, mainloop
  <2>2. Awaited /\ Up' = Up
    BY <2>1, CalmStays DEF Awaited, Up, Prev
  <2> QED BY <2>1, <2>2, ReadingKeeps
<1>6. CASE AnswerChar \/ EchoChar
  <2>1. /\ UNCHANGED <<tpc, line, reads, asked, dut>> /\ todo # <<>>
        /\ up' = Append(up, Head(todo)) /\ todo' = Tail(todo)
    BY <1>6 DEF AnswerChar, EchoChar, testbench, isr
  <2>2. Awaited
    BY <2>1, CalmStays DEF Awaited
  <2>3. Append(up, Head(todo)) \o Tail(todo) = up \o todo
    BY <1>0, <2>1, Moves DEF Types
  <2>4. up' \o todo' = up \o todo
    BY <2>1, <2>3, Zenon
  <2>5. Up' = Up
    BY <2>1, <2>4 DEF Up, Prev
  <2> QED BY <2>1, <2>2, <2>5, ReadingKeeps
<1>7. CASE Process
  <2>1. LastSettled
    <3>1. asked' = asked
      BY <1>7 DEF Process, testbench
    <3> QED BY <3>1 DEF Awaited, LastSettled, Last
  <2>2. /\ todo' = AnswerLine(Len(asked)) /\ todo = <<>>
        /\ UNCHANGED <<asked, dut, tpc, line, up, reads>>
    BY <1>7, <2>1, ProcessIs
  <2>3. Awaited
    BY <2>1, <2>2 DEF Awaited
  <2>4. PICK w \in Seq(Chars) :
          /\ w = AnswerLine(Len(asked)) /\ Lines(w, Answers) /\ (w[1] = Eol \/ w[1].at = 1)
          /\ \A k \in DOMAIN w : w[k] # Eol => w[k].of = Len(asked)
    BY <1>0, <2>1, AnswerLineIs DEF LastSettled
  <2>5. todo' = todo \o w
    BY <2>2, <2>4, ConcatEmptySeq
  <2> QED BY <1>0, <2>2, <2>3, <2>4, <2>5, ReadingGrows
<1>8. CASE EchoInterrupt
  <2>1. dut = "DUT3" /\ UNCHANGED <<asked, dut, tpc, line, up, reads>>
    BY <1>8 DEF EchoInterrupt, testbench
  <2>2. Awaited /\ LastSettled
    BY <2>1, CalmStays DEF Awaited
  <2>3. CASE Head(down) # Eol \/ rx = <<>>
    <3>1. todo' = todo
      <4>1. todo' = todo \/ todo' = todo \o <<>>
        BY <1>8, <2>3 DEF EchoInterrupt, Echo
      <4>2. todo \o <<>> = todo
        BY <1>0, ConcatEmptySeq DEF Types
      <4> QED BY <4>1, <4>2
    <3>2. Up' = Up
      BY <2>1, <3>1 DEF Up, Prev
    <3> QED BY <2>1, <2>2, <3>2, ReadingKeeps
  <2>4. CASE Head(down) = Eol /\ rx # <<>>
    <3>1. todo' = todo \o Echo
      BY <1>8, <2>4 DEF EchoInterrupt
    <3>2. Whole(rx, Asked) /\ rx[1].of = Len(asked)
      BY <1>8, <2>2, <2>4, LineIsLast
    <3>3. PICK w \in Seq(Chars) :
            /\ w = Echo /\ Lines(w, Answers) /\ (w[1] = Eol \/ w[1].at = 1)
            /\ \A k \in DOMAIN w : w[k] # Eol => w[k].of = Len(asked)
      BY <1>0, <2>1, <2>2, <3>2, EchoLineIs DEF LastSettled
    <3>4. todo' = todo \o w
      BY <3>1, <3>3
    <3> QED BY <1>0, <2>1, <2>2, <3>3, <3>4, ReadingGrows
  <2> QED BY <2>3, <2>4
<1>9. CASE ReadTimeout
  BY <1>0, <1>9 DEF ReadTimeout, Awaited, Shape
<1>10. ASSUME NEW o, StartWrite(o) PROVE Reading'
  BY <1>10 DEF StartWrite, Awaited
<1> QED
  BY <1>1, <1>2, <1>3, <1>4, <1>5, <1>6, <1>7, <1>8, <1>9, <1>10
  DEF Next, Testbench, Dut, MainLoop

LEMMA MineStep == ASSUME SInv, Reading, AnswerIsMine, [Next]_vars PROVE AnswerIsMine'
<1>0. Types /\ Shape
  BY DEF SInv
<1>1. CASE ~got'.done
  BY <1>1 DEF AnswerIsMine
<1>2. CASE UNCHANGED <<got, reads, asked, dut>>
  BY <1>2 DEF AnswerIsMine, Last, Answer, Word
<1>3. CASE ReadChar /\ Head(up) = Eol /\ line # <<>>
  <2>1. /\ tpc = "read" /\ up # <<>> /\ got' = [done |-> TRUE, text |-> line]
        /\ UNCHANGED <<reads, asked, dut>>
    BY <1>3 DEF ReadChar, isr
  <2>2. asked # <<>>
    BY <1>0, <2>1 DEF Shape
  <2>3. ASSUME reads = 1, Last.settled PROVE got'.text = Answer(Len(asked))
    <3>1. Awaited
      BY <2>1, <2>2, <2>3 DEF Awaited, LastSettled
    <3> QED BY <1>0, <1>3, <2>1, <3>1, ReadsMine
  <2> QED BY <2>1, <2>3 DEF AnswerIsMine, Last, Answer, Word
<1>4. CASE ReadChar /\ ~(Head(up) = Eol /\ line # <<>>)
  <2>1. got' = got /\ got = Nothing
    BY <1>0, <1>4 DEF ReadChar, Shape
  <2> QED BY <1>1, <2>1 DEF Nothing
<1>5. CASE StartRead \/ Flush \/ SendDone \/ ReadTimeout
  <2>1. ~got'.done
    BY <1>0, <1>5 DEF StartRead, Flush, SendDone, ReadTimeout, Shape, Nothing
  <2> QED BY <1>1, <2>1
<1>6. ASSUME NEW o, StartWrite(o) PROVE AnswerIsMine'
  <2>1. ~got'.done
    BY <1>6 DEF StartWrite, Nothing
  <2> QED BY <1>1, <2>1
<1>7. CASE SendChar \/ Dut \/ Overrun \/ UNCHANGED vars
  <2>1. UNCHANGED <<got, reads, asked, dut>>
    BY <1>7 DEF SendChar, Dut, RxInterrupt, MainLoop, Check, Copy, Clear, Wipe, Process,
                AnswerChar, EchoInterrupt, EchoChar, Overrun, vars, testbench, isr
  <2> QED BY <1>2, <2>1
<1> QED BY <1>3, <1>4, <1>5, <1>6, <1>7 DEF Next, Testbench

\* If nothing was under way when the last line was begun (uart_flush_rx,
\* uart_service.c:88-133), whatever a service call returns as read first after it is
\* the answer to it and all of it, whatever timed out in between.
THEOREM MineIsRead == Spec => []AnswerIsMine
<1>1. Init => Reading /\ AnswerIsMine
  BY DEF Init, ServiceInit, Reading, Awaited, LastSettled, AnswerIsMine, Nothing
<1>2. /\ SInv /\ InOrder /\ Reading /\ AnswerIsMine /\ [Next]_vars
      => Reading' /\ AnswerIsMine'
  BY ReadingStep, MineStep
<1> QED BY <1>1, <1>2, StreamInit, StreamStep, PTL DEF Spec

=============================================================================
