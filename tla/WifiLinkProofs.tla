--------------------------- MODULE WifiLinkProofs ---------------------------
(***************************************************************************)
(* WifiLink for every number of sessions, calls and characters and every   *)
(* size of the buffer: main() gets whole lines, and server and sessions    *)
(* keep the promise of RequestReply.                                       *)
(***************************************************************************)
EXTENDS WifiLink, TLAPS

-----------------------------------------------------------------------------
(* Characters and lines *)

LEMMA CharFields ==
  ASSUME NEW s, NEW n, NEW k
  PROVE  /\ Char(s, n, k).of = <<s, n>> /\ Char(s, n, k).of[1] = s
         /\ Char(s, n, k).of[2] = n /\ Char(s, n, k).at = k
  BY DEF Char

LEMMA EolFields == Eol.at = 0 /\ Eol.of[1] = NoSession
  BY DEF Eol

Places == UNION {1..z : z \in Sizes}

\* A character is the end of a line or stands somewhere in a line.
LEMMA CharsAre ==
  ASSUME NEW c \in Chars
  PROVE  \/ c = Eol
         \/ /\ c # Eol /\ c = Char(c.of[1], c.of[2], c.at)
            /\ c.of[1] \in Sessions /\ c.of[2] \in 1..MaxLines /\ c.at \in Nat \ {0}
            /\ c.of \in Commands /\ c.of = <<c.of[1], c.of[2]>>
<1>1. CASE c # Eol
  <2>1. PICK x \in Commands, k \in Places : c = Char(x[1], x[2], k)
    BY <1>1 DEF Chars, Places
  <2>2. k \in Nat \ {0}
    BY WifiAssumption DEF Places, WifiAssumption
  <2>3. x[1] \in Sessions /\ x[2] \in 1..MaxLines /\ x = <<x[1], x[2]>>
    BY DEF Commands
  <2> QED BY <1>1, <2>1, <2>2, <2>3, CharFields
<1> QED BY <1>1

LEMMA CharIsChar ==
  ASSUME NEW s \in Sessions, NEW n \in 1..MaxLines, NEW z \in Sizes, NEW k \in 1..z
  PROVE  Char(s, n, k) \in Chars /\ Char(s, n, k) # Eol
<1>1. <<s, n>> \in Commands /\ k \in Places
  BY DEF Commands, Places
<1>2. Char(s, n, k) = Char(<<s, n>>[1], <<s, n>>[2], k)
  OBVIOUS
<1>3. Char(s, n, k) \in Chars
  BY <1>1, <1>2 DEF Chars, Places
<1>4. Char(s, n, k) # Eol
  BY CharFields, EolFields, WifiAssumption DEF WifiAssumption
<1> QED BY <1>3, <1>4

LEMMA EolIsChar == Eol \in Chars
  BY DEF Chars

\* A line as it is sent, its end included.
LEMMA Sent ==
  ASSUME NEW s \in Sessions, NEW n \in 1..MaxLines, NEW z \in Sizes
  PROVE  /\ Append(Line(s, n, z), Eol) \in Seq(Chars)
         /\ Len(Append(Line(s, n, z), Eol)) = z + 1
         /\ \A i \in 1..z : Append(Line(s, n, z), Eol)[i] = Char(s, n, i)
         /\ Append(Line(s, n, z), Eol)[z + 1] = Eol
<1>1. z \in Nat \ {0}
  BY WifiAssumption DEF WifiAssumption
<1>2. \A k \in 1..z : Char(s, n, k) \in Chars
  BY CharIsChar
<1> DEFINE l == Line(s, n, z)
<1>3. l \in Seq(Chars) /\ Len(l) = z /\ \A i \in 1..z : l[i] = Char(s, n, i)
  BY <1>1, <1>2 DEF Line
<1> HIDE DEF l
<1>4. /\ Append(l, Eol) \in Seq(Chars) /\ Len(Append(l, Eol)) = z + 1
      /\ \A i \in 1..z : Append(l, Eol)[i] = l[i]
      /\ Append(l, Eol)[z + 1] = Eol
  BY <1>1, <1>3, EolIsChar
<1> QED BY <1>3, <1>4 DEF l

\* The server's buffer holds the beginning of a line, one character more each time.
LEMMA TakenFields ==
  ASSUME NEW s, NEW n, NEW k \in Nat \ {0}
  PROVE  /\ Taken(s, n, k) # <<>> /\ Taken(s, n, k)[1] = Char(s, n, 1)
         /\ Len(Taken(s, n, k)) = IF k < Room THEN k ELSE Room
<1>1. Room \in Nat \ {0}
  BY WifiAssumption DEF WifiAssumption
<1> DEFINE m == IF k < Room THEN k ELSE Room
<1>2. m \in Nat \ {0}
  BY <1>1
<1>3. Taken(s, n, k) = Line(s, n, m)
  BY DEF Taken
<1> HIDE DEF m
<1>4. Line(s, n, m) # <<>> /\ Line(s, n, m)[1] = Char(s, n, 1) /\ Len(Line(s, n, m)) = m
  BY <1>2 DEF Line
<1> QED BY <1>3, <1>4 DEF m

LEMMA LineGrows ==
  ASSUME NEW s, NEW n, NEW k \in Nat
  PROVE  Append(Line(s, n, k), Char(s, n, k + 1)) = Line(s, n, k + 1)
<1> DEFINE S == {Char(s, n, i) : i \in 1..(k + 1)}
           l == Line(s, n, k)
<1>1. l \in Seq(S) /\ Len(l) = k /\ \A i \in 1..k : l[i] = Char(s, n, i)
  BY DEF Line
<1>2. Char(s, n, k + 1) \in S
  OBVIOUS
<1> HIDE DEF S, l
<1> DEFINE a == Append(l, Char(s, n, k + 1))
<1>3. a \in Seq(S) /\ Len(a) = k + 1
  BY <1>1, <1>2
<1>4. (\A i \in 1..k : a[i] = l[i]) /\ a[k + 1] = Char(s, n, k + 1)
  BY <1>1, <1>2
<1> HIDE DEF a
<1>5. a = [i \in 1..(k + 1) |-> a[i]]
  BY <1>3
<1>6. \A i \in 1..(k + 1) : a[i] = Char(s, n, i)
  BY <1>1, <1>4
<1>7. a = Line(s, n, k + 1)
  BY <1>5, <1>6 DEF Line
<1> QED BY <1>7 DEF a, l

LEMMA CollectedFirst ==
  ASSUME NEW s, NEW n, buf = <<>>
  PROVE  Collected(Char(s, n, 1)) = Taken(s, n, 1)
<1>1. Room \in Nat \ {0}
  BY WifiAssumption DEF WifiAssumption
<1>2. Taken(s, n, 1) = Line(s, n, 1)
  BY <1>1 DEF Taken
<1>3. Collected(Char(s, n, 1)) = Append(<<>>, Char(s, n, 1))
  BY <1>1 DEF Collected
<1>4. Line(s, n, 0) = <<>>
  BY DEF Line
<1>5. Append(Line(s, n, 0), Char(s, n, 0 + 1)) = Line(s, n, 0 + 1)
  BY LineGrows, 0 \in Nat
<1>6. 0 + 1 = 1
  OBVIOUS
<1> QED BY <1>2, <1>3, <1>4, <1>5, <1>6

LEMMA CollectedNext ==
  ASSUME NEW s, NEW n, NEW k \in Nat \ {0}, buf = Taken(s, n, k)
  PROVE  Collected(Char(s, n, k + 1)) = Taken(s, n, k + 1)
<1>1. Room \in Nat \ {0}
  BY WifiAssumption DEF WifiAssumption
<1>2. CASE k < Room
  <2>1. buf = Line(s, n, k) /\ Len(buf) = k /\ Taken(s, n, k + 1) = Line(s, n, k + 1)
    BY <1>1, <1>2, TakenFields DEF Taken
  <2> QED BY <1>2, <2>1, LineGrows DEF Collected
<1>3. CASE ~(k < Room)
  <2>1. Len(buf) = Room /\ Taken(s, n, k + 1) = Taken(s, n, k)
    BY <1>1, <1>3, TakenFields DEF Taken
  <2> QED BY <1>1, <2>1 DEF Collected
<1> QED BY <1>2, <1>3

\* The first element leaves: the others move up by one.
LEMMA TailShifts ==
  ASSUME NEW S, NEW q \in Seq(S), q # <<>>
  PROVE  /\ Tail(q) \in Seq(S) /\ Len(Tail(q)) = Len(q) - 1 /\ Head(q) = q[1]
         /\ 1 \in DOMAIN q
         /\ \A i \in DOMAIN Tail(q) :
              i \in Nat /\ i >= 1 /\ i + 1 \in DOMAIN q /\ Tail(q)[i] = q[i + 1]
<1>1. Len(q) \in Nat /\ Len(q) >= 1 /\ DOMAIN q = 1..Len(q)
  OBVIOUS
<1>2. Tail(q) \in Seq(S) /\ Len(Tail(q)) = Len(q) - 1 /\ Head(q) = q[1]
  OBVIOUS
<1>3. DOMAIN Tail(q) = 1..(Len(q) - 1)
  BY <1>1, <1>2
<1>4. \A i \in 1..(Len(q) - 1) : Tail(q)[i] = q[i + 1]
  BY <1>1
<1> QED BY <1>1, <1>2, <1>3, <1>4

-----------------------------------------------------------------------------
(* The inductive invariant *)

\* TypeOK but for who is served.
Types ==
  /\ spc \in {"read", "exec", "reply"}
  /\ client \in Sessions \cup {NoSession}
  /\ buf \in Seq(Chars) /\ Len(buf) <= Room
  /\ queue \in Seq(Sessions) /\ Len(queue) <= Backlog
  /\ handled \in Seq(Seq(Chars))
  /\ peer \in [Sessions -> {"new", "open", "closed", "vanished"}]
  /\ stream \in [Sessions -> Seq(Chars)]
  /\ cpc \in [Sessions -> {"idle", "send", "wait"}]
  /\ left \in [Sessions -> Seq(Chars)]
  /\ calls \in [Sessions -> 0..MaxLines]
  /\ replies \in [Sessions -> Seq(Commands)]
  /\ got \in [Sessions -> Sessions \X (0..MaxLines)]

\* A client and those in the queue were opened, and while a line is executed and
\* answered its session is the client.
Connected ==
  /\ client # NoSession => peer[client] # "new"
  /\ \A i \in DOMAIN queue : peer[queue[i]] # "new"
  /\ spc # "read" => /\ client # NoSession
                     /\ handled # <<>> /\ handled[Len(handled)][1].of[1] = client

\* b comes after a.
Follows(a, b) ==
  \/ a = Eol /\ b.at = 1
  \/ a # Eol /\ b = Eol /\ a.at \in Sizes
  \/ a # Eol /\ b # Eol /\ b.of = a.of /\ b.at = a.at + 1

\* The server has the beginning of a line of s.
Partial(s) == client = s /\ buf # <<>>

HandledBefore(s, n) ==
  \A j \in DOMAIN handled : handled[j][1].of[1] = s => handled[j][1].of[2] < n

\* The line in the buffer was not handled yet, and its next character comes next.
Collecting ==
  buf # <<>> =>
    /\ client # NoSession
    /\ \E n \in 1..calls[client], k \in Nat \ {0} :
         /\ buf = Taken(client, n, k)
         /\ stream[client] # <<>> => Follows(Char(client, n, k), stream[client][1])
         /\ HandledBefore(client, n)

\* n is more than the number of every line of s the server has seen.
Newer(s, n) == HandledBefore(s, n) /\ (Partial(s) => buf[1].of[2] < n)

\* The characters on their way are those of lines in the order of their numbers;
\* only the rest of the line in the buffer does not begin with a beginning.
Arriving(s) ==
  /\ \A i \in DOMAIN stream[s] :
       stream[s][i] # Eol => stream[s][i].of[1] = s /\ stream[s][i].of[2] <= calls[s]
  /\ \A i \in DOMAIN stream[s] : i > 1 => Follows(stream[s][i - 1], stream[s][i])
  /\ \A i \in DOMAIN stream[s] : stream[s][i].at = 1 =>
       /\ Newer(s, stream[s][i].of[2])
       /\ \A j \in DOMAIN stream[s] :
            j < i /\ stream[s][j] # Eol => stream[s][j].of[2] < stream[s][i].of[2]
  /\ stream[s] # <<>> /\ ~Partial(s) => stream[s][1].at = 1

LastOf(q) == q[Len(q)]

\* The last character that s sent was the end of a line, or was none.
Ended(s) == IF stream[s] = <<>> THEN ~Partial(s) ELSE LastOf(stream[s]) = Eol

\* It was the b-th of the line of the call.
SentUpTo(s, b) == IF stream[s] = <<>> THEN client = s /\ buf = Taken(s, calls[s], b)
                                      ELSE LastOf(stream[s]) = Char(s, calls[s], b)

\* What s has yet to send is the rest of the line of its call.
Rest(s, b) ==
  /\ calls[s] >= 1 /\ left[s] # <<>> /\ b + Len(left[s]) - 1 \in Sizes
  /\ \A i \in DOMAIN left[s] :
       left[s][i] = IF i = Len(left[s]) THEN Eol ELSE Char(s, calls[s], b + i)

Sending(s) ==
  peer[s] \in {"new", "open"} =>
    IF cpc[s] # "send" THEN Ended(s)
    ELSE \E b \in Nat :
           /\ Rest(s, b)
           /\ IF b > 0 THEN SentUpTo(s, b)
              ELSE /\ Ended(s) /\ Newer(s, calls[s])
                   /\ \A i \in DOMAIN stream[s] :
                        stream[s][i] # Eol => stream[s][i].of[2] < calls[s]

\* What was answered was handled.
Answered(s) ==
  \A i \in DOMAIN replies[s] :
    /\ replies[s][i][1] = s
    /\ \E j \in DOMAIN handled : handled[j][1].of = replies[s][i]

WInv ==
  /\ Types /\ Connected /\ WholeLines /\ Collecting
  /\ \A s \in Sessions : Arriving(s) /\ Sending(s) /\ Answered(s)

LEMMA WInvTypes == WInv => TypeOK
  BY DEF WInv, Types, Connected, TypeOK

LEMMA WInit == Init => WInv
<1> SUFFICES ASSUME Init PROVE WInv
  OBVIOUS
<1>1. Types
  BY WifiAssumption DEF Init, Types, WifiAssumption, Backlog
<1>2. Connected /\ WholeLines /\ Collecting
  BY DEF Init, Connected, WholeLines, Collecting
<1>3. ASSUME NEW s \in Sessions PROVE Arriving(s) /\ Sending(s) /\ Answered(s)
  BY DEF Init, Arriving, Sending, Answered, Ended, Partial
<1> QED BY <1>1, <1>2, <1>3 DEF WInv

\* What a handled line begins with.
LEMMA HandledFields ==
  ASSUME WInv, NEW j \in DOMAIN handled
  PROVE  \E s \in Sessions : \E n \in 1..calls[s], z \in Sizes :
           /\ handled[j] = Taken(s, n, z) /\ handled[j] # <<>>
           /\ handled[j][1].of = <<s, n>>
           /\ handled[j][1].of[1] = s /\ handled[j][1].of[2] = n
<1>1. PICK s \in Sessions, n \in 1..MaxLines, z \in Sizes :
        n <= calls[s] /\ handled[j] = Taken(s, n, z)
  BY DEF WInv, WholeLines
<1>2. n \in 1..calls[s]
  BY <1>1 DEF WInv, Types
<1>3. z \in Nat \ {0}
  BY WifiAssumption DEF WifiAssumption
<1> QED BY <1>1, <1>2, <1>3, TakenFields, CharFields

\* The line in the buffer, and a character that arrives.
LEMMA BufFields ==
  ASSUME WInv, buf # <<>>
  PROVE  /\ client \in Sessions
         /\ \E n \in 1..calls[client], k \in Nat \ {0} :
              /\ buf = Taken(client, n, k)
              /\ buf[1].of = <<client, n>> /\ buf[1].of[1] = client /\ buf[1].of[2] = n
              /\ stream[client] # <<>> => Follows(Char(client, n, k), stream[client][1])
              /\ HandledBefore(client, n)
<1>1. PICK n \in 1..calls[client], k \in Nat \ {0} :
         /\ buf = Taken(client, n, k)
         /\ stream[client] # <<>> => Follows(Char(client, n, k), stream[client][1])
         /\ HandledBefore(client, n)
  BY DEF WInv, Collecting
<1>2. client \in Sessions
  BY DEF WInv, Collecting, Types
<1> QED BY <1>1, <1>2, TakenFields, CharFields

LEMMA ArrivedFields ==
  ASSUME WInv, NEW s \in Sessions, NEW i \in DOMAIN stream[s], stream[s][i] # Eol
  PROVE  /\ stream[s][i] \in Chars
         /\ stream[s][i] = Char(s, stream[s][i].of[2], stream[s][i].at)
         /\ stream[s][i].of[2] \in 1..calls[s] /\ stream[s][i].at \in Nat \ {0}
         /\ stream[s][i].of = <<s, stream[s][i].of[2]>>
<1> DEFINE c == stream[s][i]
<1>1. stream[s] \in Seq(Chars)
  BY DEF WInv, Types
<1>2. c \in Chars
  BY <1>1
<1>3. c.of[1] = s /\ c.of[2] <= calls[s] /\ calls[s] \in 0..MaxLines
  BY DEF WInv, Arriving, Types
<1> HIDE DEF c
<1>4. /\ c = Char(c.of[1], c.of[2], c.at) /\ c.of[2] \in 1..MaxLines /\ c.at \in Nat \ {0}
      /\ c.of = <<c.of[1], c.of[2]>>
  BY <1>2, CharsAre DEF c
<1>5. c.of[2] \in 1..calls[s]
  BY <1>3, <1>4
<1> QED BY <1>2, <1>3, <1>4, <1>5 DEF c

-----------------------------------------------------------------------------
(* Steps that disturb little *)

\* The parts of the invariant about s survive whatever leaves its characters, or
\* discards those on their way, handles nothing of it and adds nothing to its
\* partial line.
Untouched(s) ==
  /\ stream'[s] \in {stream[s], <<>>} /\ calls[s] <= calls'[s]
  /\ \A j \in DOMAIN handled' :
       handled'[j][1].of[1] = s => j \in DOMAIN handled /\ handled'[j] = handled[j]
  /\ Partial(s)' => Partial(s) /\ buf' = buf
  /\ stream'[s] # <<>> /\ Partial(s) => Partial(s)'

LEMMA ArrivingFrame ==
  ASSUME WInv, Types', NEW s \in Sessions, Untouched(s)
  PROVE  Arriving(s)'
<1>1. CASE stream'[s] = <<>>
  BY <1>1 DEF Arriving
<1>2. CASE stream'[s] # <<>> /\ stream'[s] = stream[s]
  <2>1. Arriving(s)
    BY DEF WInv
  <2>2. \A n : Newer(s, n) => Newer(s, n)'
    BY DEF Untouched, Newer, HandledBefore
  <2>3. \A i \in DOMAIN stream[s] : stream[s][i] # Eol => stream[s][i].of[2] <= calls'[s]
    <3>1. ASSUME NEW i \in DOMAIN stream[s], stream[s][i] # Eol
          PROVE  stream[s][i].of[2] <= calls'[s]
      <4>1. stream[s][i].of[2] \in 1..calls[s]
        BY <3>1, ArrivedFields
      <4>2. calls[s] \in Int /\ calls'[s] \in Int /\ calls[s] <= calls'[s]
        BY DEF WInv, Types, Untouched
      <4> QED BY <4>1, <4>2
    <3> QED BY <3>1
  <2>4. ~Partial(s)' => ~Partial(s)
    BY <1>2 DEF Untouched
  <2> QED BY <1>2, <2>1, <2>2, <2>3, <2>4 DEF Arriving
<1> QED BY <1>1, <1>2 DEF Untouched

LEMMA SendingFrame ==
  ASSUME WInv, NEW s \in Sessions, Untouched(s),
         peer'[s] \in {"new", "open"} =>
           /\ peer[s] \in {"new", "open"}
           /\ stream'[s] = stream[s] /\ calls'[s] = calls[s] /\ left'[s] = left[s]
           /\ cpc'[s] = cpc[s] \/ (cpc[s] # "send" /\ cpc'[s] # "send")
           /\ client = s => client' = s /\ buf' = buf
  PROVE  Sending(s)'
<1> SUFFICES ASSUME peer'[s] \in {"new", "open"} PROVE Sending(s)'
  BY DEF Sending
<1>1. /\ stream'[s] = stream[s] /\ calls'[s] = calls[s] /\ left'[s] = left[s]
      /\ cpc'[s] = cpc[s] \/ (cpc[s] # "send" /\ cpc'[s] # "send")
      /\ client = s => client' = s /\ buf' = buf
      /\ peer[s] \in {"new", "open"} /\ Sending(s)
  BY DEF WInv
<1>2. Ended(s) => Ended(s)'
  BY <1>1 DEF Ended, Untouched
<1>3. CASE cpc[s] # "send"
  BY <1>1, <1>2, <1>3 DEF Sending
<1>4. CASE cpc[s] = "send"
  <2>1. PICK b \in Nat :
           /\ Rest(s, b)
           /\ IF b > 0 THEN SentUpTo(s, b)
              ELSE /\ Ended(s) /\ Newer(s, calls[s])
                   /\ \A i \in DOMAIN stream[s] :
                        stream[s][i] # Eol => stream[s][i].of[2] < calls[s]
    BY <1>1, <1>4 DEF Sending
  <2>2. Rest(s, b)'
    BY <1>1, <2>1 DEF Rest
  <2>3. SentUpTo(s, b) => SentUpTo(s, b)'
    BY <1>1 DEF SentUpTo
  <2>4. Newer(s, calls[s]) => Newer(s, calls[s])'
    BY <1>1 DEF Untouched, Newer, HandledBefore
  <2> QED BY <1>1, <1>2, <1>4, <2>1, <2>2, <2>3, <2>4 DEF Sending
<1> QED BY <1>3, <1>4

LEMMA AnsweredFrame ==
  ASSUME WInv, NEW s \in Sessions, replies'[s] \in {replies[s], <<>>},
         \A j \in DOMAIN handled : j \in DOMAIN handled' /\ handled'[j] = handled[j]
  PROVE  Answered(s)'
  BY DEF WInv, Answered

LEMMA WholeFrame ==
  ASSUME WInv, Types', handled' = handled, \A s \in Sessions : calls[s] <= calls'[s]
  PROVE  WholeLines'
<1>1. ASSUME NEW i \in DOMAIN handled
      PROVE  \E s \in Sessions, n \in 1..MaxLines, z \in Sizes :
               n <= calls'[s] /\ handled[i] = Taken(s, n, z)
  <2>1. PICK s \in Sessions, n \in 1..MaxLines, z \in Sizes :
          n <= calls[s] /\ handled[i] = Taken(s, n, z)
    BY DEF WInv, WholeLines
  <2>2. calls[s] \in Int /\ calls'[s] \in Int /\ calls[s] <= calls'[s]
    BY DEF WInv, Types
  <2> QED BY <2>1, <2>2
<1> QED BY <1>1 DEF WInv, WholeLines

LEMMA CollectingFrame ==
  ASSUME WInv, Types', handled' = handled,
         buf' # <<>> => /\ buf' = buf /\ client' = client
                        /\ \/ stream'[client] = <<>>
                           \/ stream[client] # <<>> /\ stream'[client] # <<>>
                              /\ stream'[client][1] = stream[client][1]
                        /\ calls[client] <= calls'[client]
  PROVE  Collecting'
<1> SUFFICES ASSUME buf' # <<>> PROVE Collecting'
  BY DEF Collecting
<1>1. PICK n \in 1..calls[client], k \in Nat \ {0} :
         /\ buf = Taken(client, n, k)
         /\ stream[client] # <<>> => Follows(Char(client, n, k), stream[client][1])
         /\ HandledBefore(client, n)
  BY DEF WInv, Collecting
<1>2. client \in Sessions /\ client # NoSession
  BY DEF WInv, Collecting, Types
<1>3. n \in 1..calls'[client]
  <2>1. calls[client] \in Int /\ calls'[client] \in Int /\ calls[client] <= calls'[client]
    BY <1>2 DEF WInv, Types
  <2> QED BY <1>1, <2>1
<1>4. HandledBefore(client, n)'
  BY <1>1 DEF HandledBefore
<1>5. stream'[client] # <<>> => Follows(Char(client, n, k), stream'[client][1])
  BY <1>1
<1> QED BY <1>1, <1>2, <1>3, <1>4, <1>5 DEF Collecting

LEMMA CallsKept ==
  ASSUME WInv, calls' = calls
  PROVE  \A s \in Sessions : calls[s] <= calls'[s]
<1>1. \A s \in Sessions : calls[s] \in Int
  BY DEF WInv, Types
<1> QED BY <1>1

\* Steps of the server that take no character, and of the sessions that send none.
LEMMA AcceptStep == ASSUME WInv, Accept PROVE WInv'
<1>1. /\ spc = "read" /\ client = NoSession /\ queue # <<>> /\ buf = <<>>
      /\ client' = queue[1] /\ queue' = Tail(queue)
      /\ UNCHANGED <<spc, buf, handled, session>>
  BY DEF Accept, WInv, Collecting
<1>2. queue \in Seq(Sessions) /\ queue' \in Seq(Sessions) /\ Len(queue') = Len(queue) - 1
      /\ 1 \in DOMAIN queue /\ queue[1] \in Sessions
  BY <1>1, TailShifts DEF WInv, Types
<1>3. Types'
  BY <1>1, <1>2 DEF WInv, Types, Backlog, session
<1>4. Connected'
  <2>1. \A i \in DOMAIN queue : peer[queue[i]] # "new"
    BY DEF WInv, Connected
  <2>2. \A i \in DOMAIN queue' : i + 1 \in DOMAIN queue /\ queue'[i] = queue[i + 1]
    BY <1>1, <1>2, TailShifts DEF WInv, Types
  <2>3. peer[queue[1]] # "new"
    BY <1>2, <2>1
  <2> QED BY <1>1, <2>1, <2>2, <2>3 DEF Connected, session
<1>5. ASSUME NEW s \in Sessions PROVE Untouched(s)
  BY <1>1 DEF WInv, Types, Untouched, Partial, session
<1>6. ASSUME NEW s \in Sessions PROVE Arriving(s)' /\ Sending(s)' /\ Answered(s)'
  <2>1. client # s
    BY <1>1, WifiAssumption DEF WifiAssumption
  <2> QED BY <1>1, <1>3, <1>5, <2>1, ArrivingFrame, SendingFrame, AnsweredFrame DEF session
<1>7. WholeLines'
  BY <1>1, <1>3, CallsKept, WholeFrame DEF session
<1>8. Collecting'
  BY <1>1 DEF Collecting
<1> QED BY <1>3, <1>4, <1>6, <1>7, <1>8 DEF WInv

LEMMA RecvEndStep == ASSUME WInv, RecvEnd PROVE WInv'
<1>1. /\ spc = "read" /\ client # NoSession /\ peer[client] \in {"closed", "vanished"}
      /\ stream[client] = <<>> /\ client' = NoSession /\ buf' = <<>>
      /\ UNCHANGED <<spc, queue, handled, session>>
  BY DEF RecvEnd, ClientClosed, IndexReset
<1>2. Types'
  <2>1. buf' \in Seq(Chars) /\ Len(buf') <= Room
    BY <1>1, WifiAssumption DEF WifiAssumption
  <2> QED BY <1>1, <2>1 DEF WInv, Types, session
<1>3. Connected'
  BY <1>1 DEF WInv, Connected, session
<1>4. ASSUME NEW s \in Sessions PROVE Untouched(s)
  BY <1>1 DEF WInv, Types, Untouched, Partial, session
<1>5. ASSUME NEW s \in Sessions PROVE Arriving(s)' /\ Sending(s)' /\ Answered(s)'
  <2>1. peer'[s] \in {"new", "open"} => client # s
    BY <1>1 DEF session
  <2> QED BY <1>1, <1>2, <1>4, <2>1, ArrivingFrame, SendingFrame, AnsweredFrame DEF session
<1>6. WholeLines'
  BY <1>1, <1>2, CallsKept, WholeFrame DEF session
<1>7. Collecting'
  BY <1>1 DEF Collecting
<1> QED BY <1>2, <1>3, <1>5, <1>6, <1>7 DEF WInv

LEMMA ExecuteStep == ASSUME WInv, Execute PROVE WInv'
<1>1. /\ spc = "exec" /\ spc' = "reply"
      /\ UNCHANGED <<client, buf, queue, handled, session>>
  BY DEF Execute
<1>2. Types'
  BY <1>1 DEF WInv, Types, session
<1>3. Connected'
  BY <1>1 DEF WInv, Connected, session
<1>4. ASSUME NEW s \in Sessions PROVE Untouched(s)
  BY <1>1 DEF WInv, Types, Untouched, Partial, session
<1>5. ASSUME NEW s \in Sessions PROVE Arriving(s)' /\ Sending(s)' /\ Answered(s)'
  BY <1>1, <1>2, <1>4, ArrivingFrame, SendingFrame, AnsweredFrame DEF session
<1>6. WholeLines'
  BY <1>1, <1>2, CallsKept, WholeFrame DEF session
<1>7. Collecting'
  BY <1>1 DEF WInv, Collecting, HandledBefore, session
<1> QED BY <1>2, <1>3, <1>5, <1>6, <1>7 DEF WInv

LEMMA ReplyStep == ASSUME WInv, Reply PROVE WInv'
<1> DEFINE text == handled[Len(handled)]
<1>1. /\ spc = "reply" /\ spc' = "read"
      /\ UNCHANGED <<client, buf, queue, handled, peer, cpc, left, calls, got>>
      /\ \/ /\ peer[client] = "open" /\ stream' = stream
            /\ replies' = [replies EXCEPT ![client] = Append(@, text[1].of)]
         \/ /\ peer[client] = "closed" /\ replies' = replies
            /\ stream' \in {stream, [stream EXCEPT ![client] = <<>>]}
         \/ peer[client] = "vanished" /\ replies' = replies /\ stream' = stream
  <2>1. client \in Sessions /\ peer[client] \in {"open", "closed", "vanished"}
    BY DEF Reply, WInv, Connected, Types
  <2> QED BY <2>1 DEF Reply
<1>2. /\ client \in Sessions /\ Len(handled) \in DOMAIN handled /\ text[1].of[1] = client
      /\ handled \in Seq(Seq(Chars))
  BY <1>1 DEF WInv, Connected, Types
<1>3. text[1].of \in Commands /\ text[1].of[1] = client
  <2>1. PICK s \in Sessions : \E n \in 1..calls[s], z \in Sizes : text[1].of = <<s, n>>
    BY <1>2, HandledFields
  <2>2. PICK n \in 1..calls[s] : text[1].of = <<s, n>>
    BY <2>1
  <2>3. calls[s] \in 0..MaxLines /\ MaxLines \in Nat
    BY WifiAssumption DEF WInv, Types, WifiAssumption
  <2>4. n \in 1..MaxLines
    BY <2>3
  <2> QED BY <1>2, <2>2, <2>4 DEF Commands
<1>4. stream' \in [Sessions -> Seq(Chars)]
  <2>1. stream \in [Sessions -> Seq(Chars)] /\ <<>> \in Seq(Chars)
    BY DEF WInv, Types
  <2>2. CASE stream' = stream
    BY <2>1, <2>2
  <2>3. CASE stream' = [stream EXCEPT ![client] = <<>>]
    BY <1>2, <2>1, <2>3
  <2> QED BY <1>1, <2>2, <2>3
<1>5. replies' \in [Sessions -> Seq(Commands)]
  <2>1. replies \in [Sessions -> Seq(Commands)]
    BY DEF WInv, Types
  <2> HIDE DEF text
  <2>2. Append(replies[client], text[1].of) \in Seq(Commands)
    BY <1>2, <1>3, <2>1
  <2> QED BY <1>1, <1>2, <2>1, <2>2
<1>6. Types'
  BY <1>1, <1>4, <1>5 DEF WInv, Types
<1>7. Connected'
  BY <1>1 DEF WInv, Connected
<1>8. ASSUME NEW s \in Sessions
      PROVE  /\ stream'[s] \in {stream[s], <<>>}
             /\ peer[s] \in {"new", "open"} => stream'[s] = stream[s]
  BY <1>1, <1>2 DEF WInv, Types
<1>9. ASSUME NEW s \in Sessions PROVE Untouched(s)
  BY <1>1, <1>8, CallsKept DEF Untouched, Partial
<1>10. ASSUME NEW s \in Sessions PROVE Arriving(s)' /\ Sending(s)'
  BY <1>1, <1>6, <1>8, <1>9, ArrivingFrame, SendingFrame
<1>11. ASSUME NEW s \in Sessions PROVE Answered(s)'
  <2>1. CASE replies'[s] = replies[s]
    BY <1>1, <2>1, AnsweredFrame
  <2>2. CASE replies'[s] # replies[s]
    <3> HIDE DEF text
    <3>1. s = client /\ replies'[s] = Append(replies[s], text[1].of)
      <4>1. replies \in [Sessions -> Seq(Commands)]
        BY DEF WInv, Types
      <4>2. replies' = [replies EXCEPT ![client] = Append(@, text[1].of)]
        BY <1>1, <2>2
      <4> QED BY <1>2, <2>2, <4>1, <4>2
    <3>2. replies[s] \in Seq(Commands) /\ Answered(s)
      BY DEF WInv, Types
    <3>3. \A i \in DOMAIN replies'[s] :
             \/ i \in DOMAIN replies[s] /\ replies'[s][i] = replies[s][i]
             \/ replies'[s][i] = text[1].of
      BY <1>3, <3>1, <3>2
    <3>4. \E j \in DOMAIN handled : handled[j][1].of = text[1].of
      BY <1>2 DEF text
    <3> QED BY <1>1, <1>3, <3>1, <3>2, <3>3, <3>4 DEF Answered
  <2> QED BY <2>1, <2>2
<1>12. WholeLines'
  BY <1>1, <1>6, CallsKept, WholeFrame
<1>13. Collecting'
  <2>1. client # NoSession => client \in Sessions
    BY <1>2
  <2>2. stream'[client] = stream[client] \/ stream'[client] = <<>>
    BY <1>2, <1>8
  <2>3. CASE stream'[client] = <<>>
    BY <1>1, <1>2, <1>6, <2>3, CallsKept, CollectingFrame
  <2>4. CASE stream'[client] = stream[client] /\ stream'[client] # <<>>
    BY <1>1, <1>2, <1>6, <2>4, CallsKept, CollectingFrame
  <2> QED BY <2>2, <2>3, <2>4
<1> QED BY <1>6, <1>7, <1>10, <1>11, <1>12, <1>13 DEF WInv

\* A step of a session that sends nothing.
LEMMA OpenStep == ASSUME WInv, NEW s \in Sessions, Open(s) PROVE WInv'
<1>1. /\ peer[s] = "new" /\ Len(queue) < Backlog
      /\ peer' = [peer EXCEPT ![s] = "open"] /\ queue' = Append(queue, s)
      /\ UNCHANGED <<spc, client, buf, handled, stream, cpc, left, calls, replies, got>>
  BY DEF Open
<1>2. queue \in Seq(Sessions) /\ peer \in [Sessions -> {"new", "open", "closed", "vanished"}]
  BY DEF WInv, Types
<1>3. /\ queue' \in Seq(Sessions) /\ Len(queue') = Len(queue) + 1
      /\ \A i \in DOMAIN queue' : queue'[i] = s \/ (i \in DOMAIN queue /\ queue'[i] = queue[i])
      /\ \A i \in DOMAIN queue : queue[i] \in Sessions
  BY <1>1, <1>2
<1>4. Types'
  <2>1. Len(queue') <= Backlog
    BY <1>1, <1>2, <1>3 DEF Backlog
  <2> QED BY <1>1, <1>2, <1>3, <2>1 DEF WInv, Types, Backlog
<1>5. \A t \in Sessions : peer[t] # "new" => peer'[t] # "new"
  BY <1>1, <1>2
<1>6. Connected'
  <2>1. peer'[s] # "new"
    BY <1>1, <1>2
  <2>2. client' # NoSession => peer'[client] # "new"
    BY <1>1, <1>5 DEF WInv, Connected, Types
  <2>3. \A i \in DOMAIN queue' : peer'[queue'[i]] # "new"
    BY <1>3, <1>5, <2>1 DEF WInv, Connected
  <2> QED BY <1>1, <2>2, <2>3 DEF WInv, Connected
<1>7. ASSUME NEW t \in Sessions PROVE Untouched(t)
  BY <1>1, CallsKept DEF Untouched, Partial
<1>8. ASSUME NEW t \in Sessions PROVE Arriving(t)' /\ Sending(t)' /\ Answered(t)'
  <2>1. peer'[t] \in {"new", "open"} => peer[t] \in {"new", "open"}
    BY <1>1, <1>2
  <2> QED BY <1>1, <1>4, <1>7, <2>1, ArrivingFrame, SendingFrame, AnsweredFrame
<1>9. WholeLines'
  BY <1>1, <1>4, CallsKept, WholeFrame
<1>10. Collecting'
  BY <1>1 DEF WInv, Collecting, HandledBefore
<1> QED BY <1>4, <1>6, <1>8, <1>9, <1>10 DEF WInv

LEMMA ReadLineStep == ASSUME WInv, NEW s \in Sessions, ReadLine(s) PROVE WInv'
<1>1. /\ peer[s] = "open" /\ cpc[s] = "wait" /\ replies[s] # <<>>
      /\ replies' = [replies EXCEPT ![s] = Tail(@)]
      /\ \/ /\ got' = [got EXCEPT ![s] = Head(replies[s])]
            /\ cpc' = [cpc EXCEPT ![s] = "idle"]
         \/ UNCHANGED <<got, cpc>>
      /\ UNCHANGED <<server, peer, stream, left, calls>>
  BY DEF ReadLine
<1>2. /\ replies \in [Sessions -> Seq(Commands)] /\ cpc \in [Sessions -> {"idle", "send", "wait"}]
      /\ got \in [Sessions -> Sessions \X (0..MaxLines)]
  BY DEF WInv, Types
<1>3. replies[s] \in Seq(Commands)
  BY <1>2
<1>4. /\ Tail(replies[s]) \in Seq(Commands) /\ Head(replies[s]) = replies[s][1]
      /\ 1 \in DOMAIN replies[s] /\ replies[s][1] \in Commands
      /\ \A i \in DOMAIN Tail(replies[s]) :
           i + 1 \in DOMAIN replies[s] /\ Tail(replies[s])[i] = replies[s][i + 1]
  BY <1>1, <1>3, TailShifts
<1>5. Commands \subseteq Sessions \X (0..MaxLines)
  BY WifiAssumption DEF Commands, WifiAssumption
<1>6. Types'
  <2>1. replies' \in [Sessions -> Seq(Commands)]
    BY <1>1, <1>2, <1>4
  <2>2. cpc' \in [Sessions -> {"idle", "send", "wait"}]
    BY <1>1, <1>2
  <2>3. got' \in [Sessions -> Sessions \X (0..MaxLines)]
    BY <1>1, <1>2, <1>4, <1>5
  <2> QED BY <1>1, <2>1, <2>2, <2>3 DEF WInv, Types, server
<1>7. Connected'
  BY <1>1 DEF WInv, Connected, server
<1>8. ASSUME NEW t \in Sessions PROVE Untouched(t)
  BY <1>1, CallsKept DEF Untouched, Partial, server
<1>9. ASSUME NEW t \in Sessions PROVE Arriving(t)' /\ Sending(t)' /\ Answered(t)'
  <2>1. cpc'[t] = cpc[t] \/ (cpc[t] # "send" /\ cpc'[t] # "send")
    BY <1>1, <1>2
  <2>2. Arriving(t)' /\ Sending(t)'
    BY <1>1, <1>6, <1>8, <2>1, ArrivingFrame, SendingFrame DEF server
  <2>3. handled' = handled /\ Answered(t)
    BY <1>1 DEF WInv, server
  <2>4. CASE t # s
    <3>1. replies'[t] = replies[t]
      BY <1>1, <1>2, <2>4
    <3> QED BY <2>2, <2>3, <3>1 DEF Answered
  <2>5. CASE t = s
    <3>1. replies'[t] = Tail(replies[t])
      BY <1>1, <1>2, <2>5
    <3>2. \A i \in DOMAIN replies'[t] :
            i + 1 \in DOMAIN replies[t] /\ replies'[t][i] = replies[t][i + 1]
      BY <1>4, <2>5, <3>1
    <3>3. Answered(t)'
      BY <2>3, <3>2 DEF Answered
    <3> QED BY <2>2, <3>3
  <2> QED BY <2>4, <2>5
<1>10. WholeLines'
  BY <1>1, <1>6, CallsKept, WholeFrame DEF server
<1>11. Collecting'
  BY <1>1 DEF WInv, Collecting, HandledBefore, server
<1> QED BY <1>6, <1>7, <1>9, <1>10, <1>11 DEF WInv

LEMMA GiveUpStep == ASSUME WInv, NEW s \in Sessions, GiveUp(s) PROVE WInv'
<1>1. /\ peer[s] = "open" /\ cpc[s] = "wait" /\ cpc' = [cpc EXCEPT ![s] = "idle"]
      /\ UNCHANGED <<server, peer, stream, left, calls, replies, got>>
  BY DEF GiveUp
<1>2. cpc \in [Sessions -> {"idle", "send", "wait"}]
  BY DEF WInv, Types
<1>3. Types'
  BY <1>1, <1>2 DEF WInv, Types, server
<1>4. Connected'
  BY <1>1 DEF WInv, Connected, server
<1>5. ASSUME NEW t \in Sessions PROVE Untouched(t)
  BY <1>1, CallsKept DEF Untouched, Partial, server
<1>6. ASSUME NEW t \in Sessions PROVE Arriving(t)' /\ Sending(t)' /\ Answered(t)'
  <2>1. cpc'[t] = cpc[t] \/ (cpc[t] # "send" /\ cpc'[t] # "send")
    BY <1>1, <1>2
  <2> QED BY <1>1, <1>3, <1>5, <2>1, ArrivingFrame, SendingFrame, AnsweredFrame DEF server
<1>7. WholeLines'
  BY <1>1, <1>3, CallsKept, WholeFrame DEF server
<1>8. Collecting'
  BY <1>1 DEF WInv, Collecting, HandledBefore, server
<1> QED BY <1>3, <1>4, <1>6, <1>7, <1>8 DEF WInv

\* A session ends: what it sent may be lost with it.
LEMMA EndStep ==
  ASSUME WInv, NEW s \in Sessions, Close(s) \/ Vanish(s)
  PROVE  WInv'
<1>1. /\ peer[s] = "open" /\ \E end \in {"closed", "vanished"} : peer' = [peer EXCEPT ![s] = end]
      /\ stream' \in {stream, [stream EXCEPT ![s] = <<>>]}
      /\ UNCHANGED <<server, cpc, left, calls, replies, got>>
  BY DEF Close, Vanish
<1>2. /\ peer \in [Sessions -> {"new", "open", "closed", "vanished"}]
      /\ stream \in [Sessions -> Seq(Chars)]
  BY DEF WInv, Types
<1>3. Types'
  <2>1. peer' \in [Sessions -> {"new", "open", "closed", "vanished"}]
    BY <1>1, <1>2
  <2>2. stream' \in [Sessions -> Seq(Chars)]
    <3>1. <<>> \in Seq(Chars)
      OBVIOUS
    <3>2. CASE stream' = stream
      BY <1>2, <3>2
    <3>3. CASE stream' = [stream EXCEPT ![s] = <<>>]
      BY <1>2, <3>1, <3>3
    <3> QED BY <1>1, <3>2, <3>3
  <2> QED BY <1>1, <2>1, <2>2 DEF WInv, Types, server
<1>4. Connected'
  <2>1. \A t \in Sessions : peer[t] # "new" => peer'[t] # "new"
    BY <1>1, <1>2
  <2>2. client # NoSession => peer'[client] # "new"
    BY <2>1 DEF WInv, Connected, Types
  <2>3. \A i \in DOMAIN queue : peer'[queue[i]] # "new"
    BY <2>1 DEF WInv, Connected, Types
  <2> QED BY <1>1, <2>2, <2>3 DEF WInv, Connected, server
<1>5. ASSUME NEW t \in Sessions
      PROVE  /\ stream'[t] \in {stream[t], <<>>}
             /\ peer'[t] \in {"new", "open"} => t # s /\ peer'[t] = peer[t] /\ stream'[t] = stream[t]
  BY <1>1, <1>2
<1>6. ASSUME NEW t \in Sessions PROVE Untouched(t)
  BY <1>1, <1>5, CallsKept DEF Untouched, Partial, server
<1>7. ASSUME NEW t \in Sessions PROVE Arriving(t)' /\ Sending(t)' /\ Answered(t)'
  BY <1>1, <1>3, <1>5, <1>6, ArrivingFrame, SendingFrame, AnsweredFrame DEF server
<1>8. WholeLines'
  BY <1>1, <1>3, CallsKept, WholeFrame DEF server
<1>9. Collecting'
  <2> SUFFICES ASSUME buf # <<>> PROVE Collecting'
    BY <1>1 DEF Collecting, server
  <2>1. client \in Sessions
    BY BufFields
  <2>2. stream'[client] = stream[client] \/ stream'[client] = <<>>
    BY <1>5, <2>1
  <2>3. CASE stream'[client] = <<>>
    BY <1>1, <1>3, <2>1, <2>3, CallsKept, CollectingFrame DEF server
  <2>4. CASE stream'[client] = stream[client] /\ stream'[client] # <<>>
    BY <1>1, <1>3, <2>1, <2>4, CallsKept, CollectingFrame DEF server
  <2> QED BY <2>2, <2>3, <2>4
<1> QED BY <1>3, <1>4, <1>7, <1>8, <1>9 DEF WInv

-----------------------------------------------------------------------------
(* The server takes a character *)

\* It belongs to the line in the buffer, or begins one, or ends the one there.
LEMMA Received ==
  ASSUME WInv, RecvChar
  PROVE  /\ spc = "read" /\ client \in Sessions /\ client # NoSession
         /\ stream[client] \in Seq(Chars) /\ stream[client] # <<>>
         /\ stream' = [stream EXCEPT ![client] = Tail(@)]
         /\ stream'[client] = Tail(stream[client])
         /\ UNCHANGED <<client, queue, peer, cpc, left, calls, replies, got>>
         /\ \/ /\ stream[client][1] # Eol /\ spc' = spc /\ handled' = handled
               /\ stream[client][1] =
                    Char(client, stream[client][1].of[2], stream[client][1].at)
               /\ stream[client][1].of[2] \in 1..calls[client]
               /\ stream[client][1].at \in Nat \ {0}
               /\ buf' = Taken(client, stream[client][1].of[2], stream[client][1].at)
               /\ HandledBefore(client, stream[client][1].of[2])
            \/ /\ stream[client][1] = Eol /\ buf # <<>> /\ spc' = "exec"
               /\ handled' = Append(handled, buf) /\ buf' = <<>>
<1> DEFINE q == stream[client]
           c == q[1]
<1>1. /\ spc = "read" /\ client \in Sessions /\ client # NoSession
      /\ q \in Seq(Chars) /\ q # <<>> /\ stream' = [stream EXCEPT ![client] = Tail(@)]
      /\ stream'[client] = Tail(q) /\ Head(q) = c
      /\ UNCHANGED <<client, queue, peer, cpc, left, calls, replies, got>>
  BY DEF RecvChar, WInv, Types
<1>2. 1 \in DOMAIN q
  BY <1>1
<1>3. buf = <<>> => c.at = 1
  BY <1>1 DEF WInv, Arriving, Partial
<1>4. CASE c # Eol
  <2>1. spc' = spc /\ handled' = handled /\ buf' = Collected(c)
    BY <1>1, <1>4 DEF RecvChar
  <2>2. /\ c = Char(client, c.of[2], c.at) /\ c.of[2] \in 1..calls[client]
        /\ c.at \in Nat \ {0}
    BY <1>1, <1>2, <1>4, ArrivedFields
  <2>3. CASE buf = <<>>
    <3>1. buf' = Taken(client, c.of[2], c.at)
      BY <1>3, <2>1, <2>2, <2>3, CollectedFirst
    <3>2. HandledBefore(client, c.of[2])
      BY <1>1, <1>2, <1>3, <2>3 DEF WInv, Arriving, Newer
    <3> QED BY <1>1, <1>4, <2>1, <2>2, <3>1, <3>2
  <2>4. CASE buf # <<>>
    <3>1. PICK n \in 1..calls[client], k \in Nat \ {0} :
             /\ buf = Taken(client, n, k) /\ Follows(Char(client, n, k), c)
             /\ HandledBefore(client, n)
      BY <1>1, <2>4, BufFields
    <3>2. Char(client, n, k) # Eol
      BY <1>1, EolFields, CharFields
    <3>3. c.of[2] = n /\ c.at = k + 1
      BY <1>4, <3>1, <3>2, CharFields DEF Follows
    <3>4. buf' = Taken(client, c.of[2], c.at)
      BY <2>1, <2>2, <3>1, <3>3, CollectedNext
    <3> QED BY <1>1, <1>4, <2>1, <2>2, <3>1, <3>3, <3>4
  <2> QED BY <2>3, <2>4
<1>5. CASE c = Eol
  <2>1. buf # <<>>
    BY <1>3, <1>5, EolFields
  <2> QED BY <1>1, <1>5, <2>1 DEF RecvChar
<1> QED BY <1>4, <1>5

LEMMA RecvCharStep == ASSUME WInv, RecvChar PROVE WInv'
<1> DEFINE q == stream[client]
           c == q[1]
<1>1. /\ spc = "read" /\ client \in Sessions /\ client # NoSession
      /\ q \in Seq(Chars) /\ q # <<>> /\ stream' = [stream EXCEPT ![client] = Tail(@)]
      /\ stream'[client] = Tail(q)
      /\ UNCHANGED <<client, queue, peer, cpc, left, calls, replies, got>>
  BY Received
<1>2. \/ /\ c # Eol /\ spc' = spc /\ handled' = handled
         /\ c = Char(client, c.of[2], c.at)
         /\ c.of[2] \in 1..calls[client] /\ c.at \in Nat \ {0}
         /\ buf' = Taken(client, c.of[2], c.at) /\ HandledBefore(client, c.of[2])
      \/ /\ c = Eol /\ buf # <<>> /\ spc' = "exec"
         /\ handled' = Append(handled, buf) /\ buf' = <<>>
  BY Received
<1>3. /\ Tail(q) \in Seq(Chars) /\ Len(Tail(q)) = Len(q) - 1 /\ 1 \in DOMAIN q
      /\ \A i \in DOMAIN Tail(q) :
           i \in Nat /\ i >= 1 /\ i + 1 \in DOMAIN q /\ Tail(q)[i] = q[i + 1]
  BY <1>1, TailShifts
<1> HIDE DEF c, q
<1>4. Types'
  <2>1. stream' \in [Sessions -> Seq(Chars)]
    BY <1>1, <1>3 DEF WInv, Types, q
  <2>2. CASE c # Eol
    <3>1. buf' = Collected(c)
      <4>1. Head(stream[client]) = c
        BY <1>1 DEF c, q
      <4> QED BY <2>2, <4>1 DEF RecvChar
    <3>2. c \in Chars /\ buf \in Seq(Chars) /\ Len(buf) <= Room /\ Room \in Nat
      BY <1>1, <1>3, WifiAssumption DEF WInv, Types, WifiAssumption, c
    <3>3. buf' \in Seq(Chars) /\ Len(buf') <= Room
      <4>1. CASE Len(buf) < Room
        BY <3>1, <3>2, <4>1 DEF Collected
      <4>2. CASE ~(Len(buf) < Room)
        BY <3>1, <3>2, <4>2 DEF Collected
      <4> QED BY <4>1, <4>2
    <3> QED BY <1>1, <1>2, <2>1, <2>2, <3>3 DEF WInv, Types
  <2>3. CASE c = Eol
    <3>1. handled' \in Seq(Seq(Chars))
      <4>1. handled' = Append(handled, buf) /\ buf \in Seq(Chars) /\ handled \in Seq(Seq(Chars))
        BY <1>2, <2>3 DEF WInv, Types
      <4> QED BY <4>1
    <3>2. buf' \in Seq(Chars) /\ Len(buf') <= Room
      BY <1>2, <2>3, WifiAssumption DEF WifiAssumption
    <3>3. spc' = "exec"
      BY <1>2, <2>3
    <3> QED BY <1>1, <2>1, <3>1, <3>2, <3>3 DEF WInv, Types
  <2> QED BY <2>2, <2>3
\* What is in the buffer and what main() got, before and after.
<1>5. buf # <<>> =>
        \E n \in 1..calls[client] : \E k \in Nat \ {0} :
          /\ buf = Taken(client, n, k) /\ buf[1].of[1] = client /\ buf[1].of[2] = n
          /\ Follows(Char(client, n, k), c) /\ HandledBefore(client, n)
  BY <1>1, BufFields DEF c, q
<1>6. c # Eol => buf' # <<>> /\ buf'[1].of[2] = c.of[2]
  BY <1>2, TakenFields, CharFields
<1>7. c = Eol => /\ Len(handled') = Len(handled) + 1 /\ handled'[Len(handled')] = buf
                 /\ \A j \in DOMAIN handled : j \in DOMAIN handled' /\ handled'[j] = handled[j]
                 /\ \A j \in DOMAIN handled' :
                      \/ j \in DOMAIN handled /\ handled'[j] = handled[j]
                      \/ j = Len(handled) + 1 /\ handled'[j] = buf
  <2> SUFFICES ASSUME c = Eol
               PROVE  /\ Len(handled') = Len(handled) + 1 /\ handled'[Len(handled')] = buf
                      /\ \A j \in DOMAIN handled :
                           j \in DOMAIN handled' /\ handled'[j] = handled[j]
                      /\ \A j \in DOMAIN handled' :
                           \/ j \in DOMAIN handled /\ handled'[j] = handled[j]
                           \/ j = Len(handled) + 1 /\ handled'[j] = buf
    OBVIOUS
  <2>1. handled \in Seq(Seq(Chars)) /\ buf \in Seq(Chars) /\ handled' = Append(handled, buf)
    BY <1>2 DEF WInv, Types
  <2> QED BY <2>1
<1>8. \A j \in DOMAIN handled : j \in DOMAIN handled' /\ handled'[j] = handled[j]
  BY <1>2, <1>7
<1>9. Connected'
  <2>1. CASE c # Eol
    BY <1>1, <1>2, <2>1 DEF WInv, Connected
  <2>2. CASE c = Eol
    <3>1. handled' # <<>> /\ handled'[Len(handled')][1].of[1] = client
      <4>1. buf[1].of[1] = client
        BY <1>2, <1>5, <2>2
      <4>2. handled' = Append(handled, buf) /\ handled \in Seq(Seq(Chars))
        BY <1>2, <2>2 DEF WInv, Types
      <4>3. handled' # <<>>
        BY <4>2
      <4> QED BY <1>7, <2>2, <4>1, <4>3
    <3> QED BY <1>1, <3>1 DEF WInv, Connected
  <2> QED BY <2>1, <2>2
<1>10. WholeLines'
  <2>1. CASE c # Eol
    BY <1>1, <1>2, <1>4, <2>1, CallsKept, WholeFrame
  <2>2. CASE c = Eol
    <3>1. PICK n \in 1..calls[client] : \E k \in Nat \ {0} :
             /\ buf = Taken(client, n, k) /\ buf[1].of[1] = client /\ buf[1].of[2] = n
             /\ Follows(Char(client, n, k), c) /\ HandledBefore(client, n)
      BY <1>2, <1>5, <2>2
    <3>2. PICK k \in Nat \ {0} :
             /\ buf = Taken(client, n, k) /\ buf[1].of[1] = client /\ buf[1].of[2] = n
             /\ Follows(Char(client, n, k), c) /\ HandledBefore(client, n)
      BY <3>1
    <3>3. k \in Sizes
      BY <1>1, <2>2, <3>2, EolFields, CharFields DEF Follows
    <3>4. n \in 1..MaxLines /\ n <= calls[client]
      <4>1. calls[client] \in 0..MaxLines /\ MaxLines \in Nat
        BY <1>1, WifiAssumption DEF WInv, Types, WifiAssumption
      <4> QED BY <4>1
    <3>5. \A j \in DOMAIN handled' :
            \E s \in Sessions, m \in 1..MaxLines, z \in Sizes :
              m <= calls'[s] /\ handled'[j] = Taken(s, m, z)
      BY <1>1, <1>7, <2>2, <3>2, <3>3, <3>4 DEF WInv, WholeLines
    <3>6. ASSUME NEW i \in DOMAIN handled', NEW j \in DOMAIN handled', i < j,
                 handled'[i][1].of[1] = handled'[j][1].of[1]
          PROVE  handled'[i][1].of[2] < handled'[j][1].of[2]
      <4>1. handled \in Seq(Seq(Chars)) /\ Len(handled) \in Nat /\ DOMAIN handled = 1..Len(handled)
        BY DEF WInv, Types
      <4>2. i \in DOMAIN handled /\ handled'[i] = handled[i]
        <5>1. j \in DOMAIN handled \/ j = Len(handled) + 1
          BY <1>7, <2>2
        <5>2. i # Len(handled) + 1
          BY <3>6, <4>1, <5>1
        <5> QED BY <1>7, <2>2, <5>2
      <4>3. CASE j \in DOMAIN handled /\ handled'[j] = handled[j]
        BY <3>6, <4>2, <4>3 DEF WInv, WholeLines
      <4>4. CASE handled'[j] = buf
        BY <3>2, <3>6, <4>2, <4>4 DEF HandledBefore
      <4> QED BY <1>7, <2>2, <4>3, <4>4
    <3> QED BY <3>5, <3>6 DEF WholeLines
  <2> QED BY <2>1, <2>2
<1>11. Follows(c, q[2]) \/ Len(q) = 1
  <2>1. Len(q) \in Nat /\ DOMAIN q = 1..Len(q)
    BY <1>1
  <2>2. CASE Len(q) # 1
    <3>1. 2 \in DOMAIN q /\ 2 > 1 /\ 2 - 1 = 1
      BY <1>3, <2>1, <2>2
    <3> QED BY <1>1, <3>1 DEF WInv, Arriving, q, c
  <2> QED BY <2>2
<1>12. Collecting'
  <2> SUFFICES ASSUME c # Eol PROVE Collecting'
    BY <1>2 DEF Collecting
  <2>1. PICK n \in 1..calls[client], k \in Nat \ {0} : n = c.of[2] /\ k = c.at
    BY <1>2
  <2>2. c = Char(client, n, k) /\ buf' = Taken(client, n, k) /\ HandledBefore(client, n)
        /\ handled' = handled
    BY <1>2, <2>1
  <2>3. Tail(q) # <<>> => Follows(c, Tail(q)[1])
    <3> SUFFICES ASSUME Tail(q) # <<>> PROVE Follows(c, Tail(q)[1])
      OBVIOUS
    <3>1. 1 \in DOMAIN Tail(q) /\ Len(q) # 1 /\ 1 + 1 = 2
      BY <1>3
    <3> QED BY <1>3, <1>11, <3>1
  <2>4. HandledBefore(client, n)'
    BY <1>1, <2>2 DEF HandledBefore
  <2> QED BY <1>1, <2>2, <2>3, <2>4 DEF Collecting
<1>13. ASSUME NEW s \in Sessions PROVE Answered(s)'
  BY <1>1, <1>8, AnsweredFrame
<1>14. ASSUME NEW s \in Sessions, s # client PROVE Arriving(s)' /\ Sending(s)'
  <2>1. stream'[s] = stream[s]
    BY <1>1, <1>14 DEF WInv, Types
  <2>2. \A j \in DOMAIN handled' :
          handled'[j][1].of[1] = s => j \in DOMAIN handled /\ handled'[j] = handled[j]
    BY <1>2, <1>5, <1>7, <1>14
  <2>3. Untouched(s)
    BY <1>1, <1>14, <2>1, <2>2, CallsKept DEF Untouched, Partial
  <2> QED BY <1>1, <1>4, <1>14, <2>1, <2>3, ArrivingFrame, SendingFrame
\* A later line, or the next one the client sends, is newer than what came in.
<1> DEFINE After(m) ==
             /\ \A j \in DOMAIN handled' :
                  handled'[j][1].of[1] = client => handled'[j][1].of[2] < m
             /\ buf' # <<>> => buf'[1].of[2] < m
<1>15. ASSUME NEW m \in Int, Newer(client, m), c # Eol => c.of[2] < m
       PROVE  After(m)
  <2>1. CASE c # Eol
    BY <1>1, <1>2, <1>6, <1>15, <2>1 DEF Newer, HandledBefore
  <2>2. CASE c = Eol
    <3>1. buf[1].of[2] < m /\ buf' = <<>>
      BY <1>2, <1>15, <2>2 DEF Newer, Partial
    <3> QED BY <1>1, <1>7, <1>15, <2>2, <3>1 DEF Newer, HandledBefore
  <2> QED BY <2>1, <2>2
<1>16. Arriving(client)'
  <2>1. Arriving(client)
    BY <1>1 DEF WInv
  <2>2. ASSUME NEW i \in DOMAIN Tail(q), Tail(q)[i] # Eol
        PROVE  Tail(q)[i].of[1] = client /\ Tail(q)[i].of[2] <= calls[client]
    BY <1>3, <2>1, <2>2 DEF Arriving, q
  <2>3. ASSUME NEW i \in DOMAIN Tail(q), i > 1
        PROVE  Follows(Tail(q)[i - 1], Tail(q)[i])
    <3>1. i \in Nat /\ i + 1 > 1 /\ (i + 1) - 1 = i /\ i - 1 \in DOMAIN Tail(q)
          /\ (i - 1) + 1 = i
      BY <1>3, <2>3
    <3>2. i + 1 \in DOMAIN q /\ Tail(q)[i] = q[i + 1]
      BY <1>3
    <3>3. Tail(q)[i - 1] = q[i]
      BY <1>3, <3>1
    <3>4. Follows(q[(i + 1) - 1], q[i + 1])
      BY <2>1, <3>1, <3>2 DEF Arriving, q
    <3> QED BY <3>1, <3>2, <3>3, <3>4
  <2>4. ASSUME NEW i \in DOMAIN Tail(q), Tail(q)[i].at = 1
        PROVE  /\ After(Tail(q)[i].of[2])
               /\ \A j \in DOMAIN Tail(q) :
                    j < i /\ Tail(q)[j] # Eol => Tail(q)[j].of[2] < Tail(q)[i].of[2]
    <3>1. i \in Nat /\ i >= 1 /\ i + 1 \in DOMAIN q /\ Tail(q)[i] = q[i + 1]
      BY <1>3
    <3>2. /\ Newer(client, q[i + 1].of[2])
          /\ \A j \in DOMAIN q : j < i + 1 /\ q[j] # Eol => q[j].of[2] < q[i + 1].of[2]
      BY <2>1, <2>4, <3>1 DEF Arriving, q
    <3>3. q[i + 1] # Eol
      BY <2>4, <3>1, EolFields
    <3>4. q[i + 1].of[2] \in Int
      BY <1>1, <3>1, <3>3, ArrivedFields DEF q
    <3>5. c # Eol => c.of[2] < q[i + 1].of[2]
      <4>1. 1 < i + 1
        BY <3>1
      <4> QED BY <1>3, <3>2, <4>1 DEF c
    <3>6. After(q[i + 1].of[2])
      BY <1>15, <3>2, <3>4, <3>5
    <3>7. ASSUME NEW j \in DOMAIN Tail(q), j < i, Tail(q)[j] # Eol
          PROVE  Tail(q)[j].of[2] < Tail(q)[i].of[2]
      <4>1. j \in Nat /\ j + 1 \in DOMAIN q /\ Tail(q)[j] = q[j + 1]
        BY <1>3
      <4>2. j + 1 < i + 1 /\ q[j + 1] # Eol
        BY <3>1, <3>7, <4>1
      <4>3. q[j + 1].of[2] < q[i + 1].of[2]
        BY <3>2, <4>1, <4>2
      <4> QED BY <3>1, <4>1, <4>3
    <3> QED BY <3>1, <3>6, <3>7
  <2>5. Tail(q) # <<>> /\ buf' = <<>> => Tail(q)[1].at = 1
    <3> SUFFICES ASSUME Tail(q) # <<>>, buf' = <<>> PROVE Tail(q)[1].at = 1
      OBVIOUS
    <3>1. 1 \in DOMAIN Tail(q) /\ Len(q) # 1
      BY <1>3
    <3>2. Tail(q)[1] = q[1 + 1]
      BY <1>3, <3>1
    <3>3. c = Eol
      BY <1>6
    <3>4. Follows(c, q[2])
      BY <1>11, <3>1
    <3>5. 1 + 1 = 2
      OBVIOUS
    <3> QED BY <3>2, <3>3, <3>4, <3>5 DEF Follows
  <2> QED BY <1>1, <2>2, <2>3, <2>4, <2>5 DEF Arriving, Newer, HandledBefore, Partial
<1>17. Sending(client)'
  <2> SUFFICES ASSUME peer[client] \in {"new", "open"} PROVE Sending(client)'
    BY <1>1 DEF Sending
  <2>1. Sending(client)
    BY <1>1 DEF WInv
  <2>2. Tail(q) # <<>> => LastOf(Tail(q)) = LastOf(q)
    <3> SUFFICES ASSUME Tail(q) # <<>> PROVE LastOf(Tail(q)) = LastOf(q)
      OBVIOUS
    <3>1. Len(Tail(q)) \in DOMAIN Tail(q) /\ Len(Tail(q)) + 1 = Len(q)
      BY <1>1, <1>3
    <3> QED BY <1>3, <3>1 DEF LastOf
  <2>3. ASSUME Tail(q) = <<>> PROVE LastOf(q) = c
    <3>1. Len(Tail(q)) = Len(<<>>)
      BY <2>3, Zenon
    <3>2. PICK n \in Nat : n = Len(q)
      BY <1>1
    <3>3. n - 1 = Len(<<>>)
      BY <1>3, <3>1, <3>2, Zenon
    <3>4. Len(<<>>) = 0
      OBVIOUS
    <3>5. n = 1
      BY <3>3, <3>4
    <3> QED BY <3>2, <3>5 DEF LastOf, c
  <2>4. Ended(client) => Ended(client)'
    <3> SUFFICES ASSUME Ended(client) PROVE Ended(client)'
      OBVIOUS
    <3>1. LastOf(q) = Eol
      BY <1>1 DEF Ended, q
    <3>2. CASE Tail(q) = <<>>
      BY <1>1, <1>2, <2>3, <3>1, <3>2 DEF Ended, Partial
    <3>3. CASE Tail(q) # <<>>
      BY <1>1, <2>2, <3>1, <3>3 DEF Ended
    <3> QED BY <3>2, <3>3
  <2>5. CASE cpc[client] # "send"
    BY <1>1, <2>1, <2>4, <2>5 DEF Sending
  <2>6. CASE cpc[client] = "send"
    <3>1. PICK b \in Nat :
             /\ Rest(client, b)
             /\ IF b > 0 THEN SentUpTo(client, b)
                ELSE /\ Ended(client) /\ Newer(client, calls[client])
                     /\ \A i \in DOMAIN q : q[i] # Eol => q[i].of[2] < calls[client]
      BY <2>1, <2>6 DEF Sending, q
    <3>2. Rest(client, b)'
      BY <1>1, <3>1 DEF Rest
    <3>3. CASE b > 0
      <4>1. LastOf(q) = Char(client, calls[client], b)
        BY <1>1, <3>1, <3>3 DEF SentUpTo, q
      <4>2. CASE Tail(q) = <<>>
        <5>1. c = Char(client, calls[client], b) /\ c # Eol
          BY <1>1, <2>3, <4>1, <4>2, EolFields, CharFields
        <5>2. c.of[2] = calls[client] /\ c.at = b
          BY <5>1, CharFields
        <5>3. SentUpTo(client, b)'
          BY <1>1, <1>2, <4>2, <5>1, <5>2 DEF SentUpTo
        <5> QED BY <1>1, <2>6, <3>2, <3>3, <5>3 DEF Sending
      <4>3. CASE Tail(q) # <<>>
        <5>1. SentUpTo(client, b)'
          BY <1>1, <2>2, <4>1, <4>3 DEF SentUpTo
        <5> QED BY <1>1, <2>6, <3>2, <3>3, <5>1 DEF Sending
      <4> QED BY <4>2, <4>3
    <3>4. CASE ~(b > 0)
      <4>1. calls[client] \in Int
        BY <1>1 DEF WInv, Types
      <4>2. c # Eol => c.of[2] < calls[client]
        BY <1>3, <3>1, <3>4 DEF c
      <4>3. Newer(client, calls[client])'
        <5>1. After(calls[client])
          BY <1>15, <3>1, <3>4, <4>1, <4>2
        <5> QED BY <1>1, <5>1 DEF Newer, HandledBefore, Partial
      <4>4. \A i \in DOMAIN Tail(q) : Tail(q)[i] # Eol => Tail(q)[i].of[2] < calls[client]
        BY <1>3, <3>1, <3>4
      <4>5. Ended(client)'
        BY <2>4, <3>1, <3>4
      <4> QED BY <1>1, <2>6, <3>2, <3>4, <4>3, <4>4, <4>5 DEF Sending
    <3> QED BY <3>3, <3>4
  <2> QED BY <2>5, <2>6
<1> QED BY <1>1, <1>4, <1>9, <1>10, <1>12, <1>13, <1>14, <1>16, <1>17 DEF WInv

-----------------------------------------------------------------------------
(* A session begins a call, and sends its line *)

LEMMA CallStep == ASSUME WInv, NEW s \in Sessions, Call(s) PROVE WInv'
<1> DEFINE m == calls[s] + 1
<1>1. PICK z \in Sizes :
        /\ peer[s] = "open" /\ cpc[s] = "idle" /\ calls[s] < MaxLines
        /\ calls' = [calls EXCEPT ![s] = @ + 1]
        /\ left' = [left EXCEPT ![s] = Append(Line(s, m, z), Eol)]
        /\ replies' = [replies EXCEPT ![s] = <<>>]
        /\ cpc' = [cpc EXCEPT ![s] = "send"]
        /\ got' = [got EXCEPT ![s] = <<s, 0>>]
        /\ UNCHANGED <<server, peer, stream>>
  BY DEF Call
<1>2. /\ calls \in [Sessions -> 0..MaxLines] /\ left \in [Sessions -> Seq(Chars)]
      /\ replies \in [Sessions -> Seq(Commands)] /\ cpc \in [Sessions -> {"idle", "send", "wait"}]
      /\ got \in [Sessions -> Sessions \X (0..MaxLines)] /\ MaxLines \in Nat /\ z \in Nat \ {0}
  BY WifiAssumption DEF WInv, Types, WifiAssumption
<1>3. calls[s] \in Nat /\ m \in 1..MaxLines /\ m = calls[s] + 1 /\ calls[s] < m
  BY <1>1, <1>2
<1> HIDE DEF m
<1>4. /\ left'[s] \in Seq(Chars) /\ Len(left'[s]) = z + 1
      /\ \A i \in 1..z : left'[s][i] = Char(s, m, i)
      /\ left'[s][z + 1] = Eol
  <2> DEFINE l == Append(Line(s, m, z), Eol)
  <2>1. /\ l \in Seq(Chars) /\ Len(l) = z + 1
        /\ \A i \in 1..z : l[i] = Char(s, m, i)
        /\ l[z + 1] = Eol
    BY <1>3, Sent
  <2> HIDE DEF l
  <2>2. left'[s] = l
    BY <1>1, <1>2 DEF l
  <2> QED BY <2>1, <2>2
<1>5. calls'[s] = m /\ \A t \in Sessions : t # s => calls'[t] = calls[t]
  BY <1>1, <1>2, <1>3
<1>6. \A t \in Sessions : calls[t] <= calls'[t]
  <2>1. \A t \in Sessions : calls[t] \in Int
    BY <1>2
  <2> QED BY <1>3, <1>5, <2>1
<1>7. Types'
  <2>1. calls' \in [Sessions -> 0..MaxLines]
    <3>1. m \in 0..MaxLines
      BY <1>2, <1>3
    <3>2. calls' = [calls EXCEPT ![s] = m]
      BY <1>1, <1>3
    <3> QED BY <1>2, <3>1, <3>2
  <2>2. left' \in [Sessions -> Seq(Chars)]
    <3>1. left' = [left EXCEPT ![s] = left'[s]]
      BY <1>1, <1>2
    <3> QED BY <1>2, <1>4, <3>1
  <2>3. replies' \in [Sessions -> Seq(Commands)]
    BY <1>1, <1>2
  <2>4. cpc' \in [Sessions -> {"idle", "send", "wait"}]
    BY <1>1, <1>2
  <2>5. got' \in [Sessions -> Sessions \X (0..MaxLines)]
    BY <1>1, <1>2
  <2> QED BY <1>1, <2>1, <2>2, <2>3, <2>4, <2>5 DEF WInv, Types, server
<1>8. Connected'
  BY <1>1 DEF WInv, Connected, server
<1>9. ASSUME NEW t \in Sessions PROVE Untouched(t)
  BY <1>1, <1>6 DEF Untouched, Partial, server
<1>10. ASSUME NEW t \in Sessions PROVE Arriving(t)' /\ Answered(t)'
  <2>1. replies'[t] \in {replies[t], <<>>}
    BY <1>1, <1>2
  <2> QED BY <1>1, <1>7, <1>9, <2>1, ArrivingFrame, AnsweredFrame DEF server
<1>11. ASSUME NEW t \in Sessions, t # s PROVE Sending(t)'
  <2>1. calls'[t] = calls[t] /\ left'[t] = left[t] /\ cpc'[t] = cpc[t]
    BY <1>1, <1>2, <1>5, <1>11
  <2> QED BY <1>1, <1>9, <2>1, SendingFrame DEF server
<1>12. Sending(s)'
  <2>1. Ended(s)
    BY <1>1 DEF WInv, Sending
  <2>2. Ended(s)'
    BY <1>1, <2>1 DEF Ended, Partial, server
  <2>3. HandledBefore(s, m)
    <3>1. ASSUME NEW j \in DOMAIN handled, handled[j][1].of[1] = s
          PROVE  handled[j][1].of[2] < m
      <4>1. PICK t \in Sessions : \E n \in 1..calls[t], y \in Sizes :
               handled[j][1].of[1] = t /\ handled[j][1].of[2] = n
        BY HandledFields
      <4>2. PICK n \in 1..calls[s] : handled[j][1].of[2] = n
        BY <3>1, <4>1
      <4>3. n < m
        BY <1>3
      <4> QED BY <4>2, <4>3
    <3> QED BY <3>1 DEF HandledBefore
  <2>4. Partial(s) => buf[1].of[2] < m
    <3> SUFFICES ASSUME Partial(s) PROVE buf[1].of[2] < m
      OBVIOUS
    <3>1. PICK n \in 1..calls[s] : buf[1].of[2] = n
      BY BufFields DEF Partial
    <3>2. n < m
      BY <1>3
    <3> QED BY <3>1, <3>2
  <2>5. ASSUME NEW i \in DOMAIN stream[s], stream[s][i] # Eol
        PROVE  stream[s][i].of[2] < m
    <3>1. PICK n \in 1..calls[s] : stream[s][i].of[2] = n
      BY <2>5, ArrivedFields
    <3>2. n < m
      BY <1>3
    <3> QED BY <3>1, <3>2
  <2>6. Newer(s, calls[s])'
    BY <1>1, <1>5, <2>3, <2>4 DEF Newer, HandledBefore, Partial, server
  <2>7. Rest(s, 0)'
    <3>1. \A i \in DOMAIN left'[s] :
            left'[s][i] = IF i = Len(left'[s]) THEN Eol ELSE Char(s, m, 0 + i)
      <4>1. ASSUME NEW i \in DOMAIN left'[s]
            PROVE  left'[s][i] = IF i = Len(left'[s]) THEN Eol ELSE Char(s, m, 0 + i)
        <5>1. i \in 1..(z + 1) /\ 0 + i = i
          BY <1>4
        <5>2. CASE i = z + 1
          BY <1>4, <5>2
        <5>3. CASE i # z + 1
          <6>1. i \in 1..z
            BY <1>2, <5>1, <5>3
          <6> QED BY <1>4, <5>1, <5>3, <6>1
        <5> QED BY <5>2, <5>3
      <4> QED BY <4>1
    <3>2. calls'[s] >= 1 /\ left'[s] # <<>> /\ 0 + Len(left'[s]) - 1 \in Sizes
      <4>1. 0 + (z + 1) - 1 = z /\ m >= 1
        BY <1>2, <1>3
      <4>2. left'[s] # <<>>
        BY <1>2, <1>4
      <4> QED BY <1>4, <1>5, <4>1, <4>2
    <3> QED BY <1>5, <3>1, <3>2 DEF Rest
  <2>8. cpc'[s] = "send"
    BY <1>1, <1>2
  <2>9. \A i \in DOMAIN stream'[s] : stream'[s][i] # Eol => stream'[s][i].of[2] < calls'[s]
    BY <1>1, <1>5, <2>5
  <2> QED BY <2>2, <2>6, <2>7, <2>8, <2>9 DEF Sending
<1>13. WholeLines'
  BY <1>1, <1>6, <1>7, WholeFrame DEF server
<1>14. Collecting'
  <2> SUFFICES ASSUME buf # <<>> PROVE Collecting'
    BY <1>1 DEF Collecting, server
  <2>1. client \in Sessions /\ calls[client] <= calls'[client]
    BY <1>6, BufFields
  <2>2. stream' = stream
    BY <1>1
  <2>3. CASE stream[client] = <<>>
    BY <1>1, <1>7, <2>1, <2>2, <2>3, CollectingFrame DEF server
  <2>4. CASE stream[client] # <<>>
    BY <1>1, <1>7, <2>1, <2>2, <2>4, CollectingFrame DEF server
  <2> QED BY <2>3, <2>4
<1> QED BY <1>7, <1>8, <1>10, <1>11, <1>12, <1>13, <1>14 DEF WInv

\* The next character is the end of the line or the one after the b-th, and what
\* is on its way ends with the b-th, or with the end of an earlier line.
LEMMA Sends ==
  ASSUME WInv, NEW s \in Sessions, SendChar(s)
  PROVE  \E b \in Nat : \E c \in Chars :
           /\ Rest(s, b) /\ c = left[s][1]
           /\ IF b > 0 THEN SentUpTo(s, b)
              ELSE /\ Ended(s) /\ Newer(s, calls[s])
                   /\ \A i \in DOMAIN stream[s] :
                        stream[s][i] # Eol => stream[s][i].of[2] < calls[s]
           /\ peer[s] = "open" /\ cpc[s] = "send"
           /\ stream'[s] = Append(stream[s], c)
           /\ \A t \in Sessions : t # s => stream'[t] = stream[t] /\ left'[t] = left[t]
           /\ stream' \in [Sessions -> Seq(Chars)]
           /\ left' \in [Sessions -> Seq(Chars)] /\ left'[s] = Tail(left[s])
           /\ cpc' = [cpc EXCEPT ![s] = IF c = Eol THEN "wait" ELSE "send"]
           /\ c = Eol => b \in Sizes /\ b > 0
           /\ c # Eol => /\ c = Char(s, calls[s], b + 1) /\ Rest(s, b + 1)'
                         /\ c.of[1] = s /\ c.of[2] = calls[s] /\ c.at = b + 1
           /\ UNCHANGED <<server, peer, calls, replies, got>>
<1> DEFINE c == left[s][1]
           l == left[s]
<1>1. /\ peer[s] = "open" /\ cpc[s] = "send"
      /\ stream' = [stream EXCEPT ![s] = Append(@, Head(l))]
      /\ left' = [left EXCEPT ![s] = Tail(@)]
      /\ cpc' = [cpc EXCEPT ![s] = IF Len(l) = 1 THEN "wait" ELSE "send"]
      /\ UNCHANGED <<server, peer, calls, replies, got>>
  BY DEF SendChar
<1>2. /\ stream \in [Sessions -> Seq(Chars)] /\ left \in [Sessions -> Seq(Chars)]
      /\ l \in Seq(Chars)
  BY DEF WInv, Types
<1>3. PICK b \in Nat :
        /\ Rest(s, b)
        /\ IF b > 0 THEN SentUpTo(s, b)
           ELSE /\ Ended(s) /\ Newer(s, calls[s])
                /\ \A i \in DOMAIN stream[s] :
                     stream[s][i] # Eol => stream[s][i].of[2] < calls[s]
  BY <1>1 DEF WInv, Sending
<1>4. /\ l # <<>> /\ b + Len(l) - 1 \in Sizes
      /\ \A i \in DOMAIN l : l[i] = IF i = Len(l) THEN Eol ELSE Char(s, calls[s], b + i)
  BY <1>3 DEF Rest
<1>5. /\ Head(l) = c /\ 1 \in DOMAIN l /\ c \in Chars
      /\ Tail(l) \in Seq(Chars) /\ Len(Tail(l)) = Len(l) - 1
      /\ \A i \in DOMAIN Tail(l) :
           i \in Nat /\ i >= 1 /\ i + 1 \in DOMAIN l /\ Tail(l)[i] = l[i + 1]
  BY <1>2, <1>4, TailShifts
<1>6. PICK n \in Nat : n = Len(l) /\ DOMAIN l = 1..n /\ n >= 1
  <2>1. Len(l) \in Nat /\ DOMAIN l = 1..Len(l) /\ Len(l) >= 1
    BY <1>2, <1>4
  <2> QED BY <2>1
<1> HIDE DEF c, l
<1>7. c = IF n = 1 THEN Eol ELSE Char(s, calls[s], b + 1)
  BY <1>4, <1>5, <1>6 DEF c, l
<1>8. Char(s, calls[s], b + 1) # Eol
  BY EolFields, CharFields, WifiAssumption DEF WifiAssumption
<1>9. c = Eol => b \in Sizes /\ b > 0
  <2> SUFFICES ASSUME c = Eol PROVE b \in Sizes /\ b > 0
    OBVIOUS
  <2>1. n = 1 /\ b + n - 1 \in Sizes
    BY <1>4, <1>6, <1>7, <1>8
  <2>2. b \in Sizes
    BY <2>1
  <2> QED BY <2>2, WifiAssumption DEF WifiAssumption
<1>10. stream' \in [Sessions -> Seq(Chars)] /\ stream'[s] = Append(stream[s], c)
  <2>1. stream' = [stream EXCEPT ![s] = Append(stream[s], c)] /\ stream[s] \in Seq(Chars)
    BY <1>1, <1>2, <1>5
  <2>2. Append(stream[s], c) \in Seq(Chars)
    BY <1>5, <2>1
  <2> QED BY <1>2, <2>1, <2>2
<1>11. left' \in [Sessions -> Seq(Chars)] /\ left'[s] = Tail(l)
  BY <1>1, <1>2, <1>5 DEF l
<1>12. \A t \in Sessions : t # s => stream'[t] = stream[t] /\ left'[t] = left[t]
  BY <1>1, <1>2
<1>13. cpc' = [cpc EXCEPT ![s] = IF c = Eol THEN "wait" ELSE "send"]
  BY <1>1, <1>6, <1>7, <1>8
<1>14. ASSUME c # Eol PROVE Rest(s, b + 1)'
  <2>1. n # 1 /\ calls'[s] = calls[s] /\ calls[s] >= 1
    BY <1>1, <1>3, <1>7, <1>14 DEF Rest
  <2>2. Len(Tail(l)) = n - 1
    BY <1>5, <1>6
  <2>3. (b + 1) + (n - 1) - 1 = b + n - 1
    BY <1>6
  <2>4. left'[s] # <<>>
    <3>1. 1 \in 1..(n - 1)
      BY <1>6, <2>1
    <3>2. DOMAIN Tail(l) = 1..(n - 1)
      BY <1>5, <1>6, <2>2
    <3> QED BY <1>11, <3>1, <3>2
  <2>5. ASSUME NEW i \in DOMAIN Tail(l)
        PROVE  Tail(l)[i] = IF i = n - 1 THEN Eol ELSE Char(s, calls[s], (b + 1) + i)
    <3>1. i \in Nat /\ i + 1 \in DOMAIN l /\ Tail(l)[i] = l[i + 1]
      BY <1>5
    <3>2. l[i + 1] = IF i + 1 = n THEN Eol ELSE Char(s, calls[s], b + (i + 1))
      BY <1>4, <1>6, <3>1
    <3>3. b + (i + 1) = (b + 1) + i /\ (i + 1 = n <=> i = n - 1)
      BY <1>6, <3>1
    <3> QED BY <3>1, <3>2, <3>3
  <2>6. (b + 1) + Len(left'[s]) - 1 \in Sizes
    BY <1>4, <1>6, <1>11, <2>2, <2>3
  <2> QED BY <1>11, <2>1, <2>2, <2>4, <2>5, <2>6 DEF Rest
<1>15. c # Eol => /\ c = Char(s, calls[s], b + 1)
                  /\ c.of[1] = s /\ c.of[2] = calls[s] /\ c.at = b + 1
  BY <1>7, CharFields
<1> QED BY <1>1, <1>3, <1>5, <1>9, <1>10, <1>11, <1>12, <1>13, <1>14, <1>15 DEF c, l

LEMMA SendCharStep == ASSUME WInv, NEW s \in Sessions, SendChar(s) PROVE WInv'
<1>1. PICK b \in Nat : \E c \in Chars :
        /\ Rest(s, b) /\ c = left[s][1]
        /\ IF b > 0 THEN SentUpTo(s, b)
           ELSE /\ Ended(s) /\ Newer(s, calls[s])
                /\ \A i \in DOMAIN stream[s] :
                     stream[s][i] # Eol => stream[s][i].of[2] < calls[s]
        /\ peer[s] = "open" /\ cpc[s] = "send"
        /\ stream'[s] = Append(stream[s], c)
        /\ \A t \in Sessions : t # s => stream'[t] = stream[t] /\ left'[t] = left[t]
        /\ stream' \in [Sessions -> Seq(Chars)]
        /\ left' \in [Sessions -> Seq(Chars)] /\ left'[s] = Tail(left[s])
        /\ cpc' = [cpc EXCEPT ![s] = IF c = Eol THEN "wait" ELSE "send"]
        /\ c = Eol => b \in Sizes /\ b > 0
        /\ c # Eol => /\ c = Char(s, calls[s], b + 1) /\ Rest(s, b + 1)'
                      /\ c.of[1] = s /\ c.of[2] = calls[s] /\ c.at = b + 1
        /\ UNCHANGED <<server, peer, calls, replies, got>>
  BY Sends
<1>2. PICK c \in Chars :
        /\ Rest(s, b) /\ c = left[s][1]
        /\ IF b > 0 THEN SentUpTo(s, b)
           ELSE /\ Ended(s) /\ Newer(s, calls[s])
                /\ \A i \in DOMAIN stream[s] :
                     stream[s][i] # Eol => stream[s][i].of[2] < calls[s]
        /\ peer[s] = "open" /\ cpc[s] = "send"
        /\ stream'[s] = Append(stream[s], c)
        /\ \A t \in Sessions : t # s => stream'[t] = stream[t] /\ left'[t] = left[t]
        /\ stream' \in [Sessions -> Seq(Chars)]
        /\ left' \in [Sessions -> Seq(Chars)] /\ left'[s] = Tail(left[s])
        /\ cpc' = [cpc EXCEPT ![s] = IF c = Eol THEN "wait" ELSE "send"]
        /\ c = Eol => b \in Sizes /\ b > 0
        /\ c # Eol => /\ c = Char(s, calls[s], b + 1) /\ Rest(s, b + 1)'
                      /\ c.of[1] = s /\ c.of[2] = calls[s] /\ c.at = b + 1
        /\ UNCHANGED <<server, peer, calls, replies, got>>
  BY <1>1
<1> DEFINE q == stream[s]
           m == calls[s]
           q2 == stream'[s]
<1>3. q \in Seq(Chars) /\ m \in Nat
  BY DEF WInv, Types
<1>4. /\ q2 = Append(q, c) /\ q2 \in Seq(Chars) /\ q2 # <<>> /\ Len(q2) = Len(q) + 1
      /\ \A i \in DOMAIN q2 : \/ i \in DOMAIN q /\ q2[i] = q[i]
                              \/ i = Len(q) + 1 /\ q2[i] = c
      /\ \A i \in DOMAIN q : i \in DOMAIN q2 /\ q2[i] = q[i] /\ i < Len(q) + 1
      /\ q2[Len(q2)] = c
  BY <1>2, <1>3
<1>5. Len(q) \in Nat /\ DOMAIN q = 1..Len(q) /\ (q = <<>> <=> Len(q) = 0)
  BY <1>3
<1> HIDE DEF q, m, q2
<1>6. Types'
  <2>1. cpc' \in [Sessions -> {"idle", "send", "wait"}]
    BY <1>2 DEF WInv, Types
  <2> QED BY <1>2, <2>1 DEF WInv, Types, server
<1>7. Connected'
  BY <1>2 DEF WInv, Connected, server
<1>8. WholeLines'
  BY <1>2, <1>6, CallsKept, WholeFrame DEF server
<1>9. ASSUME NEW t \in Sessions PROVE Answered(t)'
  BY <1>2, AnsweredFrame DEF server
<1>10. ASSUME NEW t \in Sessions, t # s PROVE Arriving(t)' /\ Sending(t)'
  <2>1. stream'[t] = stream[t] /\ left'[t] = left[t] /\ cpc'[t] = cpc[t]
    BY <1>2, <1>10 DEF WInv, Types
  <2>2. Untouched(t)
    BY <1>2, <2>1, CallsKept DEF Untouched, Partial, server
  <2> QED BY <1>2, <1>6, <2>1, <2>2, ArrivingFrame, SendingFrame DEF server
<1>11. b > 0 => \/ q # <<>> /\ LastOf(q) = Char(s, m, b)
                \/ q = <<>> /\ client = s /\ buf = Taken(s, m, b) /\ buf # <<>>
  <2> SUFFICES ASSUME b > 0 PROVE \/ q # <<>> /\ LastOf(q) = Char(s, m, b)
                                  \/ q = <<>> /\ client = s /\ buf = Taken(s, m, b) /\ buf # <<>>
    OBVIOUS
  <2>1. SentUpTo(s, b)
    BY <1>2
  <2>2. Taken(s, m, b) # <<>>
    BY TakenFields
  <2> QED BY <2>1, <2>2 DEF SentUpTo, q, m
<1>12. ~(b > 0) => c # Eol /\ c.at = 1 /\ (q = <<>> => ~Partial(s)) /\ (q # <<>> => LastOf(q) = Eol)
  <2> SUFFICES ASSUME ~(b > 0)
               PROVE  /\ c # Eol /\ c.at = 1 /\ (q = <<>> => ~Partial(s))
                      /\ q # <<>> => LastOf(q) = Eol
    OBVIOUS
  <2>1. b = 0 /\ Ended(s)
    BY <1>2
  <2>2. c # Eol
    BY <1>2
  <2>3. c.at = 0 + 1
    BY <1>2, <2>1, <2>2
  <2>4. 0 + 1 = 1
    OBVIOUS
  <2> QED BY <2>1, <2>2, <2>3, <2>4 DEF Ended, q
\* The character comes after the one before it.
<1>13. ASSUME b > 0 PROVE Follows(Char(s, m, b), c)
  <2>1. Char(s, m, b) # Eol /\ Char(s, m, b).of = <<s, m>> /\ Char(s, m, b).at = b
    BY EolFields, CharFields, WifiAssumption DEF WifiAssumption
  <2>2. CASE c = Eol
    BY <1>2, <2>1, <2>2 DEF Follows
  <2>3. CASE c # Eol
    <3>1. c.of = <<s, m>> /\ c.at = b + 1
      BY <1>2, <2>3, CharFields DEF m
    <3> QED BY <2>1, <2>3, <3>1 DEF Follows
  <2> QED BY <2>2, <2>3
<1>14. q # <<>> => Follows(LastOf(q), c)
  <2>1. CASE b > 0
    BY <1>11, <1>13, <2>1
  <2>2. CASE ~(b > 0)
    BY <1>12, <2>2 DEF Follows
  <2> QED BY <2>1, <2>2
<1>15. Arriving(s)'
  <2>1. Arriving(s)
    BY DEF WInv
  <2>2. ASSUME NEW i \in DOMAIN q2, q2[i] # Eol
        PROVE  q2[i].of[1] = s /\ q2[i].of[2] <= m
    <3>1. CASE i \in DOMAIN q /\ q2[i] = q[i]
      BY <2>1, <2>2, <3>1 DEF Arriving, q, m
    <3>2. CASE q2[i] = c
      BY <1>2, <1>3, <2>2, <3>2 DEF m
    <3> QED BY <1>4, <3>1, <3>2
  <2>3. ASSUME NEW i \in DOMAIN q2, i > 1 PROVE Follows(q2[i - 1], q2[i])
    <3>1. i \in Nat /\ i - 1 \in DOMAIN q
      BY <1>4, <1>5, <2>3
    <3>2. q2[i - 1] = q[i - 1]
      BY <1>4, <3>1
    <3>3. CASE i \in DOMAIN q /\ q2[i] = q[i]
      BY <2>1, <2>3, <3>2, <3>3 DEF Arriving, q
    <3>4. CASE i = Len(q) + 1 /\ q2[i] = c
      <4>1. q # <<>>
        BY <3>1
      <4>2. i - 1 = Len(q)
        BY <1>5, <3>4
      <4> QED BY <1>14, <3>2, <3>4, <4>1, <4>2 DEF LastOf
    <3> QED BY <1>4, <3>3, <3>4
  <2>4. ASSUME NEW i \in DOMAIN q2, q2[i].at = 1
        PROVE  /\ Newer(s, q2[i].of[2])
               /\ \A j \in DOMAIN q2 : j < i /\ q2[j] # Eol => q2[j].of[2] < q2[i].of[2]
    <3>1. CASE i \in DOMAIN q /\ q2[i] = q[i]
      <4>1. /\ Newer(s, q[i].of[2])
            /\ \A j \in DOMAIN q : j < i /\ q[j] # Eol => q[j].of[2] < q[i].of[2]
        BY <2>1, <2>4, <3>1 DEF Arriving, q
      <4>2. \A j \in DOMAIN q2 : j < i => j \in DOMAIN q /\ q2[j] = q[j]
        <5>1. i \in 1..Len(q) /\ Len(q) \in Nat
          BY <1>5, <3>1
        <5> QED BY <1>4, <5>1
      <4> QED BY <3>1, <4>1, <4>2
    <3>2. CASE i = Len(q) + 1 /\ q2[i] = c
      <4>1. c # Eol
        BY <2>4, <3>2, EolFields
      <4>2. c.at = b + 1 /\ c.of[2] = m
        BY <1>2, <4>1 DEF m
      <4>3. ~(b > 0)
        BY <2>4, <3>2, <4>2
      <4>4. Newer(s, m) /\ \A j \in DOMAIN q : q[j] # Eol => q[j].of[2] < m
        BY <1>2, <4>3 DEF q, m
      <4>5. \A j \in DOMAIN q2 : j < i => j \in DOMAIN q /\ q2[j] = q[j]
        BY <1>4, <1>5, <3>2
      <4> QED BY <3>2, <4>2, <4>4, <4>5
    <3> QED BY <1>4, <3>1, <3>2
  <2>5. ~Partial(s) => q2[1].at = 1
    <3> SUFFICES ASSUME ~Partial(s) PROVE q2[1].at = 1
      OBVIOUS
    <3>1. CASE q # <<>>
      <4>1. 1 \in DOMAIN q
        BY <1>5, <3>1
      <4>2. q2[1] = q[1]
        BY <1>4, <4>1
      <4> QED BY <2>1, <3>1, <4>2 DEF Arriving, q
    <3>2. CASE q = <<>>
      <4>1. ~(b > 0)
        BY <1>11, <3>2 DEF Partial
      <4>2. Len(q2) = 1
        BY <1>4, <1>5, <3>2
      <4> QED BY <1>4, <1>12, <4>1, <4>2
    <3> QED BY <3>1, <3>2
  <2>6. calls'[s] = m /\ UNCHANGED <<client, buf, handled>>
    BY <1>2 DEF m, server
  <2> HIDE DEF Follows
  <2> QED BY <2>2, <2>3, <2>4, <2>5, <2>6 DEF Arriving, Newer, HandledBefore, Partial, q2
<1>16. Sending(s)'
  <2>1. cpc'[s] = IF c = Eol THEN "wait" ELSE "send"
    BY <1>2 DEF WInv, Types
  <2>2. LastOf(stream'[s]) = c /\ stream'[s] # <<>>
    BY <1>4 DEF LastOf, q2
  <2>3. CASE c = Eol
    BY <2>1, <2>2, <2>3 DEF Sending, Ended
  <2>4. CASE c # Eol
    <3>1. Rest(s, b + 1)' /\ b + 1 \in Nat /\ b + 1 > 0
      BY <1>2, <2>4
    <3>2. SentUpTo(s, b + 1)'
      BY <1>2, <2>2, <2>4 DEF SentUpTo
    <3>3. cpc'[s] = "send"
      BY <2>1, <2>4
    <3> QED BY <3>1, <3>2, <3>3 DEF Sending
  <2> QED BY <2>3, <2>4
<1>17. Collecting'
  <2> SUFFICES ASSUME buf # <<>> PROVE Collecting'
    BY <1>2 DEF Collecting, server
  <2>1. client \in Sessions /\ handled' = handled /\ buf' = buf /\ client' = client
        /\ calls[client] <= calls'[client]
    BY <1>2, BufFields, CallsKept DEF server
  <2>2. CASE client # s
    <3>1. stream'[client] = stream[client]
      BY <1>2, <2>1, <2>2
    <3>2. CASE stream[client] = <<>>
      BY <1>6, <2>1, <3>1, <3>2, CollectingFrame
    <3>3. CASE stream[client] # <<>>
      BY <1>6, <2>1, <3>1, <3>3, CollectingFrame
    <3> QED BY <3>2, <3>3
  <2>3. CASE client = s /\ q # <<>>
    <3>1. 1 \in DOMAIN q
      BY <1>5, <2>3
    <3>2. q2[1] = q[1]
      BY <1>4, <3>1
    <3> QED BY <1>4, <1>6, <2>1, <2>3, <3>2, CollectingFrame DEF q, q2
  <2>4. CASE client = s /\ q = <<>>
    <3>1. b > 0
      BY <1>12, <2>4 DEF Partial
    <3>2. buf = Taken(s, m, b)
      BY <1>11, <2>4, <3>1
    <3>3. PICK n \in 1..calls[s], k \in Nat \ {0} :
             buf = Taken(s, n, k) /\ HandledBefore(s, n)
      BY <2>4 DEF WInv, Collecting
    <3>4. n = m
      <4>1. b \in Nat \ {0}
        BY <3>1
      <4>2. buf[1] = Char(s, m, 1)
        BY <3>2, <4>1, TakenFields
      <4>3. buf[1] = Char(s, n, 1)
        BY <3>3, TakenFields
      <4>4. buf[1].of[2] = n /\ buf[1].of[2] = m
        BY <4>2, <4>3, CharFields
      <4> QED BY <4>4
    <3>5. q2[1] = c
      <4>1. Len(q2) = 1
        BY <1>4, <1>5, <2>4
      <4> QED BY <1>4, <4>1
    <3>6. HandledBefore(client, n)'
      BY <2>1, <2>4, <3>3 DEF HandledBefore
    <3>7. n \in 1..calls'[client]
      BY <1>2, <2>4, <3>3
    <3>8. Follows(Char(s, n, b), stream'[s][1])
      BY <1>13, <3>1, <3>4, <3>5 DEF q2
    <3> QED BY <2>1, <2>4, <3>1, <3>2, <3>4, <3>6, <3>7, <3>8, WifiAssumption
          DEF Collecting, WifiAssumption
  <2> QED BY <2>2, <2>3, <2>4
<1> QED BY <1>6, <1>7, <1>8, <1>9, <1>10, <1>15, <1>16, <1>17 DEF WInv

-----------------------------------------------------------------------------
LEMMA WStep == WInv /\ [Next]_vars => WInv'
<1> SUFFICES ASSUME WInv, [Next]_vars PROVE WInv'
  OBVIOUS
<1>1. CASE Server
  BY <1>1, AcceptStep, RecvCharStep, RecvEndStep, ExecuteStep, ReplyStep DEF Server
<1>2. CASE \E s \in Sessions : Host(s) \/ Vanish(s)
  BY <1>2, OpenStep, CallStep, SendCharStep, ReadLineStep, GiveUpStep, EndStep DEF Host
<1>3. CASE UNCHANGED vars
  BY <1>3 DEF vars, server, session, WInv, Types, Connected, WholeLines, Collecting,
       HandledBefore, Partial, Arriving, Newer, Sending, Ended, SentUpTo, Rest, Answered
<1> QED BY <1>1, <1>2, <1>3 DEF Next

\* wifi_transport.c and TestbenchWifi.py: every variable keeps its type, the buffer
\* has room for its terminator, and a line is answered to the session it came from.
THEOREM TypeCorrect == Spec => []TypeOK
  BY WInit, WStep, WInvTypes, PTL DEF Spec

\* wifi_transport_read_line: main() gets whole lines, each of one session, at most
\* once and in the order they were sent, for any number of sessions that end or
\* disappear in the middle of a line, and any lengths of lines and buffer.
THEOREM LinesAreWhole == Spec => []WholeLines
<1>1. WInv => WholeLines
  BY DEF WInv
<1> QED BY <1>1, WInit, WStep, PTL DEF Spec

-----------------------------------------------------------------------------
(* The refinement: what was done is what main() got *)

Waiting == [s \in Sessions |-> cpc[s] # "idle"]
Done    == [i \in DOMAIN handled |-> handled[i][1].of]

LEMMA DoneGrows ==
  ASSUME handled \in Seq(Seq(Chars)), NEW l \in Seq(Chars), handled' = Append(handled, l)
  PROVE  Done' = Append(Done, l[1].of)
<1> DEFINE S == {handled[i][1].of : i \in DOMAIN handled} \cup {l[1].of}
           d == Append(Done, l[1].of)
<1>1. DOMAIN handled = 1..Len(handled) /\ Len(handled) \in Nat
  OBVIOUS
<1>2. /\ DOMAIN handled' = 1..(Len(handled) + 1) /\ handled'[Len(handled) + 1] = l
      /\ \A i \in DOMAIN handled : handled'[i] = handled[i]
  OBVIOUS
<1>3. Done \in Seq(S) /\ Len(Done) = Len(handled) /\ l[1].of \in S
  <2>1. Done = [i \in 1..Len(handled) |-> handled[i][1].of]
    BY <1>1 DEF Done
  <2>2. \A i \in 1..Len(handled) : handled[i][1].of \in S
    BY <1>1
  <2>3. l[1].of \in S
    OBVIOUS
  <2> HIDE DEF S
  <2>4. Done \in Seq(S)
    BY <1>1, <2>1, <2>2
  <2>5. Len(Done) = Len(handled)
    BY <1>1, <2>1
  <2> QED BY <2>3, <2>4, <2>5
<1> HIDE DEF S
<1>4. d \in Seq(S) /\ Len(d) = Len(handled) + 1
  BY <1>1, <1>3
<1>5. d[Len(handled) + 1] = l[1].of /\ \A i \in 1..Len(handled) : d[i] = Done[i]
  BY <1>1, <1>3
<1> HIDE DEF d
<1>6. d = [i \in 1..(Len(handled) + 1) |-> d[i]]
  BY <1>4
<1>7. Done' = [i \in 1..(Len(handled) + 1) |-> handled'[i][1].of]
  BY <1>2 DEF Done
<1>8. \A i \in 1..(Len(handled) + 1) : d[i] = handled'[i][1].of
  <2>1. \A i \in 1..Len(handled) : d[i] = handled[i][1].of
    BY <1>1, <1>5 DEF Done
  <2>2. \A i \in 1..(Len(handled) + 1) : i \in 1..Len(handled) \/ i = Len(handled) + 1
    BY <1>1
  <2> QED BY <1>1, <1>2, <1>5, <2>1, <2>2
<1> QED BY <1>6, <1>7, <1>8 DEF d

\* Every step of server and sessions is one of RequestReply, or nothing to it.
LEMMA RequestStep ==
  ASSUME WInv, [Next]_vars
  PROVE  [Requests!Next]_(Requests!requestVars)
<1> USE DEF Requests!Next, Requests!requestVars
<1>1. WInv'
  BY WStep
<1>2. /\ cpc \in [Sessions -> {"idle", "send", "wait"}] /\ handled \in Seq(Seq(Chars))
      /\ calls \in [Sessions -> 0..MaxLines] /\ got \in [Sessions -> Sessions \X (0..MaxLines)]
  BY DEF WInv, Types
<1>3. ASSUME calls' = calls, got' = got, handled' = handled,
             \A t \in Sessions : cpc'[t] # "idle" <=> cpc[t] # "idle"
      PROVE  UNCHANGED Requests!requestVars
  <2>1. Waiting' = Waiting
    BY <1>3 DEF Waiting
  <2>2. Done' = Done
    BY <1>3 DEF Done
  <2> QED BY <1>3, <2>1, <2>2 DEF Waiting, Done
<1>4. CASE Accept \/ RecvEnd \/ Execute \/ Reply \/ UNCHANGED vars
  BY <1>3, <1>4 DEF Accept, RecvEnd, Execute, Reply, vars, server, session
<1>5. CASE RecvChar
  <2>1. UNCHANGED <<calls, got, cpc>> /\ client \in Sessions
    BY <1>5, Received
  <2>2. CASE handled' = handled
    BY <1>3, <2>1, <2>2
  <2>3. CASE handled' = Append(handled, buf) /\ buf # <<>>
    <3>1. PICK n \in 1..calls[client] :
             buf[1].of = <<client, n>> /\ HandledBefore(client, n)
      BY <2>3, BufFields
    <3>2. buf \in Seq(Chars)
      BY DEF WInv, Types
    <3>3. Done' = Append(Done, <<client, n>>)
      BY <1>2, <2>3, <3>1, <3>2, DoneGrows
    <3>4. \A i \in DOMAIN Done : Done[i][1] = client => Done[i][2] < n
      BY <3>1 DEF Done, HandledBefore
    <3>5. n <= calls[client]
      BY <1>2, <2>1
    <3>6. Waiting' = Waiting
      BY <2>1 DEF Waiting
    <3>7. Requests!Do(client, n)
      BY <2>1, <3>3, <3>4, <3>5, <3>6 DEF Requests!Do, Done, Waiting
    <3> QED BY <2>1, <3>1, <3>7
  <2> QED BY <1>5, <2>2, <2>3, Received
<1>6. ASSUME NEW s \in Sessions, Open(s) \/ SendChar(s) \/ Close(s) \/ Vanish(s)
      PROVE  UNCHANGED Requests!requestVars
  <2>1. UNCHANGED <<calls, got, handled>>
    BY <1>6 DEF Open, SendChar, Close, Vanish, server
  <2>2. \A t \in Sessions : cpc'[t] # "idle" <=> cpc[t] # "idle"
    <3>1. CASE SendChar(s)
      <4>1. cpc[s] = "send" /\ cpc' = [cpc EXCEPT ![s] = IF Len(left[s]) = 1 THEN "wait" ELSE "send"]
        BY <3>1 DEF SendChar
      <4>2. cpc'[s] # "idle" /\ \A t \in Sessions : t # s => cpc'[t] = cpc[t]
        BY <1>2, <4>1
      <4> QED BY <4>1, <4>2
    <3>2. CASE cpc' = cpc
      BY <3>2
    <3> QED BY <1>6, <3>1, <3>2 DEF Open, Close, Vanish
  <2> QED BY <1>3, <2>1, <2>2
<1>7. ASSUME NEW s \in Sessions, Call(s) PROVE Requests!Ask(s)
  <2>1. /\ cpc[s] = "idle" /\ cpc' = [cpc EXCEPT ![s] = "send"] /\ handled' = handled
        /\ calls' = [calls EXCEPT ![s] = @ + 1] /\ got' = [got EXCEPT ![s] = <<s, 0>>]
    BY <1>7 DEF Call, server
  <2>2. Waiting' = [Waiting EXCEPT ![s] = TRUE]
    <3>1. cpc'[s] = "send" /\ \A t \in Sessions : t # s => cpc'[t] = cpc[t]
      BY <1>2, <2>1
    <3> QED BY <3>1 DEF Waiting
  <2>3. ~Waiting[s]
    BY <2>1 DEF Waiting
  <2>4. Done' = Done
    BY <2>1 DEF Done
  <2> QED BY <2>1, <2>2, <2>3, <2>4 DEF Requests!Ask, Waiting, Done
<1>8. ASSUME NEW s \in Sessions, cpc[s] = "wait", cpc' = [cpc EXCEPT ![s] = "idle"]
      PROVE  Waiting[s] /\ Waiting' = [Waiting EXCEPT ![s] = FALSE]
  <2>1. cpc'[s] = "idle" /\ \A t \in Sessions : t # s => cpc'[t] = cpc[t]
    BY <1>2, <1>8
  <2> QED BY <1>8, <2>1 DEF Waiting
<1>9. ASSUME NEW s \in Sessions, ReadLine(s)
      PROVE  Requests!Return(s) \/ UNCHANGED Requests!requestVars
  <2> DEFINE answer == Head(replies[s])
  <2>1. /\ cpc[s] = "wait" /\ replies[s] # <<>> /\ calls' = calls /\ handled' = handled
    BY <1>9 DEF ReadLine, server
  <2>2. CASE Matches(s, answer)
    <3>1. got' = [got EXCEPT ![s] = answer] /\ cpc' = [cpc EXCEPT ![s] = "idle"]
      BY <1>9, <2>2 DEF ReadLine
    <3>2. replies[s] \in Seq(Commands)
      BY DEF WInv, Types
    <3>3. 1 \in DOMAIN replies[s] /\ answer = replies[s][1] /\ answer \in Commands
      BY <2>1, <3>2
    <3>4. answer[1] = s /\ \E j \in DOMAIN handled : handled[j][1].of = answer
      BY <3>3 DEF WInv, Answered
    <3>5. answer[2] = calls[s]
      BY <2>2 DEF Matches
    <3>6. answer = <<s, calls[s]>>
      BY <3>3, <3>4, <3>5 DEF Commands
    <3> HIDE DEF answer
    <3>7. \E i \in DOMAIN Done : Done[i] = <<s, calls[s]>>
      BY <3>4, <3>6 DEF Done
    <3>8. Waiting[s] /\ Waiting' = [Waiting EXCEPT ![s] = FALSE]
      BY <1>8, <2>1, <3>1
    <3>9. Done' = Done
      BY <2>1 DEF Done
    <3> QED BY <2>1, <3>1, <3>6, <3>7, <3>8, <3>9 DEF Requests!Return, Waiting, Done
  <2>3. CASE ~Matches(s, answer)
    <3>1. got' = got /\ cpc' = cpc
      BY <1>9, <2>3 DEF ReadLine
    <3> QED BY <1>3, <2>1, <3>1
  <2> QED BY <2>2, <2>3
<1>10. ASSUME NEW s \in Sessions, GiveUp(s) PROVE Requests!GiveUp(s)
  <2>1. /\ cpc[s] = "wait" /\ cpc' = [cpc EXCEPT ![s] = "idle"]
        /\ UNCHANGED <<calls, handled, got>>
    BY <1>10 DEF GiveUp, server
  <2>2. Waiting[s] /\ Waiting' = [Waiting EXCEPT ![s] = FALSE]
    BY <1>8, <2>1
  <2>3. Done' = Done
    BY <2>1 DEF Done
  <2> QED BY <2>1, <2>2, <2>3 DEF Requests!GiveUp, Waiting, Done
<1>11. CASE \E s \in Sessions : Host(s) \/ Vanish(s)
  BY <1>6, <1>7, <1>9, <1>10, <1>11 DEF Host
<1> QED BY <1>4, <1>5, <1>11 DEF Next, Server

\* wifi_transport.c and TestbenchWifi.py: although every session uses the same
\* seqs and may end anywhere, a line is executed at most once and in order, and a
\* call returns the answer to its own line, for any number of sessions and calls.
THEOREM CallsGetTheirAnswers == Spec => RequestsAnswered
<1>1. Init => Requests!Init
  <2> SUFFICES ASSUME Init PROVE Requests!Init
    OBVIOUS
  <2>1. Done = <<>>
    <3>1. handled = <<>> /\ DOMAIN handled = {}
      BY DEF Init
    <3> QED BY <3>1 DEF Done
  <2>2. Waiting = [s \in Sessions |-> FALSE]
    BY DEF Init, Waiting
  <2> QED BY <2>1, <2>2 DEF Init, Requests!Init, Done, Waiting
<1>2. WInv /\ [Next]_vars => WInv'
  BY WStep
<1>3. WInv /\ [Next]_vars => [Requests!Next]_(Requests!requestVars)
  BY RequestStep
<1> QED BY <1>1, <1>2, <1>3, WInit, PTL DEF Spec, RequestsAnswered, Requests!Spec

=============================================================================
