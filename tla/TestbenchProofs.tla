--------------------------- MODULE TestbenchProofs ---------------------------
(***************************************************************************)
(* Testbench and HostLink for every set of command lines and every number  *)
(* of frames, calls, power cuts and deadlines: types hold whatever fails;  *)
(* with flash that does not fail an acknowledged switch is kept, the board *)
(* serves on what flash says, a saved transport is left only by its own    *)
(* switch, and the whole is the mode register of TransportMode; and when   *)
(* no seq is used twice, library and board keep the promise of             *)
(* RequestReply.                                                           *)
(***************************************************************************)
EXTENDS HostLink, TLAPS

-----------------------------------------------------------------------------
(* Types *)

\* The locals of main() that later steps rely on.
Locals ==
  /\ pc \in {"save", "transport"} => chosen \in Links
  /\ pc \in {"switch", "ack"} => cmd.mode \in Links

Typed == TypeOK /\ Locals

\* A line that lost its beginning is still a line; so is the line of no host.
LEMMA GarbledType == ASSUME NEW f \in FrameType PROVE Garbled(f) \in FrameType
  BY DEF Garbled, FrameType, NoSeq

LEMMA FrameFields ==
  ASSUME NEW f \in FrameType
  PROVE  /\ f.id \in Nat /\ f.seq \in Nat \cup {NoSeq}
         /\ f.cmd \in {"SERVICE", "TRANSPORT_SWITCH", "UNKNOWN"}
         /\ f.mode \in Links \cup {"OTHER"}
  BY DEF FrameType

LEMMA NoFrameType == NoFrame \in FrameType /\ NoFrame.mode = "OTHER"
  BY DEF NoFrame, FrameType, NoSeq, None

LEMMA NoRespType == NoResp \in [seq : Nat \cup {NoSeq}, status : {"OK", "FAIL"}]
  BY DEF NoResp

LEMMA EmptyRxType == [l \in Links |-> <<>>] \in [Links -> Seq(FrameType)]
  OBVIOUS

\* A line that is sent is the last one in the log, or lost.
LEMMA SendEffect ==
  ASSUME transport \in Links, NEW id, NEW seq, NEW status, Send(id, seq, status)
  PROVE  out' \in {out, Append(out, [id |-> id, link |-> transport, seq |-> seq,
                                     status |-> status])}
<1>1. CASE transport = "UART"
  BY <1>1 DEF Send
<1>2. CASE transport = "WIFI" /\ ~client
  BY <1>2 DEF Send
<1>3. CASE transport = "WIFI" /\ client
  BY <1>3 DEF Send
<1> QED BY <1>1, <1>2, <1>3 DEF Links

\* Whatever becomes of a line that is sent, the log of lines keeps its type.
LEMMA SendType ==
  ASSUME out \in Seq(LineType), transport \in Links,
         NEW id \in Nat, NEW seq \in Nat \cup {NoSeq},
         NEW status \in {"OK", "FAIL", "READY"},
         Send(id, seq, status)
  PROVE  out' \in Seq(LineType)
<1> DEFINE line == [id |-> id, link |-> transport, seq |-> seq, status |-> status]
<1>1. line \in LineType
  BY DEF LineType
<1>2. Append(out, line) \in Seq(LineType)
  BY <1>1
<1> QED BY <1>2, SendEffect

\* A reset leaves RAM well typed.
LEMMA ResetType ==
  ASSUME Typed, Reset, UNCHANGED <<nvs, out, asked>>,
         promise' = promise, cuts' \in 0..MaxPowerCuts
  PROVE  Typed'
  BY NoFrameType, NoRespType, EmptyRxType
  DEF Typed, TypeOK, Locals, Reset, PCs, Serving

LEMMA TypedInit == Init => Typed
<1> SUFFICES ASSUME Init PROVE Typed
  OBVIOUS
<1>1. cuts \in 0..MaxPowerCuts
  BY TestbenchAssumption DEF Init, TestbenchAssumption
<1>2. out \in Seq(LineType) /\ asked \in Seq(FrameType)
  BY DEF Init
<1> QED
  BY <1>1, <1>2, NoFrameType, NoRespType, EmptyRxType
  DEF Init, Powered, Typed, TypeOK, Locals, PCs, Serving

\* A handler that leaves the log, flash and the arrived lines alone.
LEMMA RxTail ==
  ASSUME rx \in [Links -> Seq(FrameType)], NEW l \in Links, rx[l] # <<>>
  PROVE  /\ Head(rx[l]) \in FrameType
         /\ [rx EXCEPT ![l] = Tail(@)] \in [Links -> Seq(FrameType)]
<1>1. rx[l] \in Seq(FrameType)
  OBVIOUS
<1>2. Head(rx[l]) \in FrameType /\ Tail(rx[l]) \in Seq(FrameType)
  BY <1>1
<1> QED BY <1>2

\* A line of which the menu ate the beginning is put back as garbage, or is gone.
LEMMA RxEaten ==
  ASSUME rx \in [Links -> Seq(FrameType)], NEW l \in Links, rx[l] # <<>>,
         NEW rest \in {<<>>, <<Garbled(Head(rx[l]))>>}
  PROVE  [rx EXCEPT ![l] = rest \o Tail(@)] \in [Links -> Seq(FrameType)]
<1>1. rx[l] \in Seq(FrameType)
  OBVIOUS
<1>2. Head(rx[l]) \in FrameType /\ Tail(rx[l]) \in Seq(FrameType)
  BY <1>1
<1>3. rest \in Seq(FrameType)
  <2>1. CASE rest = <<>>
    BY <2>1
  <2>2. CASE rest = <<Garbled(Head(rx[l]))>>
    <3>1. Garbled(Head(rx[l])) \in FrameType
      BY <1>2, GarbledType
    <3> QED BY <2>2, <3>1
  <2> QED BY <2>1, <2>2
<1>4. rest \o Tail(rx[l]) \in Seq(FrameType)
  BY <1>2, <1>3
<1> QED BY <1>4

\* Every step of the board, of a host, of an operator and of the supply keeps the types.
LEMMA TypedStep == Typed /\ [Next]_vars => Typed'
<1> SUFFICES ASSUME Typed, [Next]_vars PROVE Typed'
  OBVIOUS
<1> USE DEF Typed, TypeOK, Locals
<1>0. nvs \in Links => NeedsNoMenu(nvs)
  BY DEF NeedsNoMenu
<1>1. CASE ReadSaved
  BY <1>1 DEF ReadSaved, NeedsNoMenu, WithoutSaved, Outcomes, PCs, Serving
<1>2. CASE MenuEatsFrame
  <2>1. rx' \in [Links -> Seq(FrameType)]
    BY <1>2, RxTail, RxEaten, "UART" \in Links DEF MenuEatsFrame, Links
  <2> QED BY <1>2, <2>1 DEF MenuEatsFrame, Pick, PCs, Serving
<1>3. CASE MenuTimeout
  <2>1. rx' \in [Links -> Seq(FrameType)]
    BY <1>3, RxEaten, "UART" \in Links DEF MenuTimeout, Pick, Links
  <2> QED BY <1>3, <2>1 DEF MenuTimeout, MenuDefault, Pick, PCs, Serving, Links
<1>4. CASE SaveMenuChoice
  BY <1>4 DEF SaveMenuChoice, Written, PCs, Serving
<1>5. CASE InitTransport
  BY <1>5 DEF InitTransport, WifiInitFails, Outcomes, PCs, Serving
<1>6. CASE ServicesInit
  <2>1. out' = out \/ Send(0, NoSeq, "FAIL")
    BY <1>6 DEF ServicesInit
  <2>2. out' \in Seq(LineType)
    BY <1>6, <2>1, SendType, 0 \in Nat, NoSeq \in Nat \cup {NoSeq} DEF ServicesInit, Serving
  <2> QED BY <1>6, <2>2 DEF ServicesInit, PCs, Serving
<1>7. CASE AnnounceReady
  <2>1. out' \in Seq(LineType)
    BY <1>7, SendType, 0 \in Nat, NoSeq \in Nat \cup {NoSeq} DEF AnnounceReady, Serving
  <2> QED BY <1>7, <2>1 DEF AnnounceReady, PCs, Serving
<1>8. CASE ReadFrame
  <2> DEFINE f == Head(rx[transport])
  <2>1. transport \in Links
    BY <1>8 DEF ReadFrame, Serving
  <2>2. f \in FrameType /\ rx' \in [Links -> Seq(FrameType)]
    BY <1>8, <2>1, RxTail DEF ReadFrame
  <2>3. cmd' = f /\ client' \in BOOLEAN
    BY <1>8 DEF ReadFrame
  <2>4. /\ pc' \in {"reply", "exec", "switch"}
        /\ pc' = "switch" => f.mode \in Links
        /\ resp' \in [seq : Nat \cup {NoSeq}, status : {"OK", "FAIL"}]
    <3>1. CASE ~Parses(f)
      <4>1. pc' = "reply" /\ resp' = [seq |-> NoSeq, status |-> "FAIL"]
        BY <1>8, <3>1 DEF ReadFrame
      <4> QED BY <4>1
    <3>2. CASE Parses(f) /\ f.cmd = "SERVICE"
      BY <1>8, <3>2 DEF ReadFrame
    <3>3. CASE Parses(f) /\ f.cmd = "TRANSPORT_SWITCH" /\ f.mode \notin Links
      <4>1. pc' = "reply" /\ resp' = [seq |-> f.seq, status |-> "FAIL"]
        BY <1>8, <3>3 DEF ReadFrame
      <4> QED BY <4>1, <2>2, FrameFields
    <3>4. CASE Parses(f) /\ f.cmd = "TRANSPORT_SWITCH" /\ f.mode \in Links
      BY <1>8, <3>4 DEF ReadFrame
    <3>5. Parses(f) => f.cmd \in {"SERVICE", "TRANSPORT_SWITCH"}
      BY <2>2, FrameFields DEF Parses
    <3> HIDE DEF f
    <3> QED BY <3>1, <3>2, <3>3, <3>4, <3>5, Zenon
  <2> QED BY <1>8, <2>1, <2>2, <2>3, <2>4 DEF ReadFrame, PCs, Serving
<1>9. CASE Execute
  BY <1>9, FrameFields DEF Execute, PCs, Serving
<1>10. CASE Reply
  <2>1. out' \in Seq(LineType)
    <3>1. transport \in Links /\ Send(cmd.id, resp.seq, resp.status)
      BY <1>10 DEF Reply, Serving
    <3>2. /\ cmd.id \in Nat /\ resp.seq \in Nat \cup {NoSeq}
          /\ resp.status \in {"OK", "FAIL", "READY"}
          /\ out \in Seq(LineType)
      BY FrameFields
    <3> HIDE DEF Typed, TypeOK, Locals
    <3> QED BY <3>1, <3>2, SendType
  <2> QED BY <1>10, <2>1 DEF Reply, PCs, Serving
<1>11. CASE SaveSwitch
  BY <1>11 DEF SaveSwitch, Written, PCs, Serving
<1>12. CASE AckSwitch
  <2>1. out' \in Seq(LineType)
    BY <1>12, SendType, FrameFields DEF AckSwitch, Serving
  <2> QED BY <1>12, <2>1 DEF AckSwitch, AfterAck, PCs, Serving
<1>13. CASE Reboot
  BY <1>13, ResetType DEF Reboot
<1>14. CASE \E l \in Links : MenuType(l)
  BY <1>14 DEF MenuType, Pick, PCs, Serving
<1>15. CASE \E l \in Links, t \in Texts : HostSend(l, t)
  <2>1. PICK l \in Links, t \in Texts : HostSend(l, t)
    BY <1>15
  <2> DEFINE f == [id |-> Len(asked) + 1, link |-> l, seq |-> t.seq, cmd |-> t.cmd,
                   mode |-> t.mode, key |-> t.key]
  <2>2. t \in Text
    BY TestbenchAssumption DEF TestbenchAssumption
  <2>3. f \in FrameType
    BY <2>2 DEF Text, FrameType
  <2>4. rx[l] \in Seq(FrameType) /\ asked \in Seq(FrameType)
    OBVIOUS
  <2>5. Append(rx[l], f) \in Seq(FrameType) /\ Append(asked, f) \in Seq(FrameType)
    BY <2>3, <2>4
  <2>6. rx' \in [Links -> Seq(FrameType)] /\ asked' \in Seq(FrameType)
    BY <2>1, <2>5 DEF HostSend
  <2> QED BY <2>1, <2>6 DEF HostSend
<1>16. CASE PowerCut
  BY <1>16, ResetType, TestbenchAssumption DEF PowerCut, TestbenchAssumption
<1>17. CASE UNCHANGED vars
  BY <1>17 DEF vars, ram
<1> QED
  BY <1>1, <1>2, <1>3, <1>4, <1>5, <1>6, <1>7, <1>8, <1>9, <1>10, <1>11, <1>12,
     <1>13, <1>14, <1>15, <1>16, <1>17
  DEF Next, Board, Environment

\* main.c keeps its variables well typed and sets transport_send and
\* transport_read before anything uses them, whatever flash, WiFi and drivers do.
THEOREM TypeCorrect == Spec => []TypeOK
<1>1. Init => Typed
  BY TypedInit
<1>2. Typed /\ [Next]_vars => Typed'
  BY TypedStep
<1>3. Typed => TypeOK
  BY DEF Typed
<1> QED BY <1>1, <1>2, <1>3, PTL DEF Spec

-----------------------------------------------------------------------------
(* Lines and their answers *)

\* f is a line that was sent over l, or what the menu left of it.
IsLine(f, l) ==
  /\ f.id \in DOMAIN asked
  /\ f.link = l /\ asked[f.id].link = l
  /\ f.seq = asked[f.id].seq \/ f.seq = NoSeq

Unanswered(id) == \A i \in DOMAIN out : out[i].id < id

\* The lines that wait are in the order they were sent in, and on the link that
\* is served none is older than what was answered.
Queued ==
  /\ \A l \in Links : \A i \in DOMAIN rx[l] :
       IsLine(rx[l][i], l) /\ (transport \in {None, l} => Unanswered(rx[l][i].id))
  /\ \A l \in Links : \A i, j \in DOMAIN rx[l] : i < j => rx[l][i].id < rx[l][j].id

\* The line that main() has in hand is the next one to answer.
InHand ==
  /\ pc \in {"exec", "reply", "switch", "ack"} =>
       /\ IsLine(cmd, transport) /\ Unanswered(cmd.id)
       /\ \A i \in DOMAIN rx[transport] : cmd.id < rx[transport][i].id
  /\ pc \in {"exec", "switch", "ack"} => cmd.seq = asked[cmd.id].seq
  /\ pc = "reply" =>
       resp.seq = asked[cmd.id].seq \/ (resp.seq = NoSeq /\ resp.status = "FAIL")

NoneServed    == pc \in {"boot", "menu", "save", "transport"} => transport = None
UnaskedHasNoSeq == \A i \in DOMAIN out : out[i].id = 0 => out[i].seq = NoSeq

InOrder == Queued /\ InHand /\ NoneServed /\ UnaskedHasNoSeq /\ RepliesAreAnswers
RInv    == Typed /\ InOrder

LEMMA RInit == Init => RInv
<1> SUFFICES ASSUME Init PROVE InOrder
  BY TypedInit DEF RInv
<1> QED
  BY DEF Init, Powered, InOrder, Queued, InHand, NoneServed, UnaskedHasNoSeq, RepliesAreAnswers

\* The first line leaves: the others move up by one.
LEMMA TailShifts ==
  ASSUME NEW S, NEW s \in Seq(S), s # <<>>
  PROVE  \A i \in DOMAIN Tail(s) :
           /\ i \in Nat /\ i >= 1
           /\ i + 1 \in DOMAIN s /\ Tail(s)[i] = s[i + 1]
<1>1. Len(s) \in Nat /\ Len(s) >= 1 /\ DOMAIN s = 1..Len(s)
  OBVIOUS
<1>2. Tail(s) \in Seq(S) /\ Len(Tail(s)) = Len(s) - 1
  OBVIOUS
<1>3. DOMAIN Tail(s) = 1..(Len(s) - 1)
  BY <1>1, <1>2
<1>4. \A i \in 1..(Len(s) - 1) : Tail(s)[i] = s[i + 1]
  BY <1>1
<1> QED BY <1>1, <1>3, <1>4

\* What a step leaves of the lines that wait on link l is in order, if it only
\* drops the first d of them and garbles others.
LEMMA QueuedShifts ==
  ASSUME Typed, Queued, UNCHANGED <<asked, out>>, transport' = transport \/ transport = None,
         NEW l \in Links, NEW d \in Nat,
         rx' \in [Links -> Seq(FrameType)],
         \A k \in Links \ {l} : rx'[k] = rx[k],
         \A i \in DOMAIN rx'[l] :
           i + d \in DOMAIN rx[l] /\ rx'[l][i] \in {rx[l][i + d], Garbled(rx[l][i + d])}
  PROVE  Queued'
<1>1. ASSUME NEW k \in Links, NEW i \in DOMAIN rx'[k]
      PROVE  \E j \in DOMAIN rx[k] : /\ rx'[k][i] \in {rx[k][j], Garbled(rx[k][j])}
                                     /\ j = IF k = l THEN i + d ELSE i
  BY <1>1
<1>2. ASSUME NEW f \in FrameType
      PROVE  Garbled(f).id = f.id /\ Garbled(f).link = f.link /\ Garbled(f).seq = NoSeq
  BY DEF Garbled, FrameType
<1>3. ASSUME NEW k \in Links, NEW j \in DOMAIN rx[k]
      PROVE  rx[k][j] \in FrameType /\ j \in Nat
  <2>1. rx[k] \in Seq(FrameType)
    BY DEF Typed, TypeOK
  <2> QED BY <2>1
<1>4. ASSUME NEW k \in Links, NEW i \in DOMAIN rx'[k]
      PROVE  (IsLine(rx[k][i], k) /\ (transport \in {None, k} => Unanswered(rx[k][i].id)))'
  <2>1. PICK j \in DOMAIN rx[k] : rx'[k][i] \in {rx[k][j], Garbled(rx[k][j])}
    BY <1>1
  <2>2. /\ rx'[k][i].id = rx[k][j].id /\ rx'[k][i].link = rx[k][j].link
        /\ rx'[k][i].seq = rx[k][j].seq \/ rx'[k][i].seq = NoSeq
    BY <1>2, <1>3, <2>1
  <2>3. IsLine(rx[k][j], k) /\ (transport \in {None, k} => Unanswered(rx[k][j].id))
    BY DEF Queued
  <2> QED BY <2>2, <2>3 DEF IsLine, Unanswered
<1>5. ASSUME NEW k \in Links, NEW i \in DOMAIN rx'[k], NEW j \in DOMAIN rx'[k], i < j
      PROVE  rx'[k][i].id < rx'[k][j].id
  <2>1. PICK a \in DOMAIN rx[k] : /\ rx'[k][i] \in {rx[k][a], Garbled(rx[k][a])}
                                  /\ a = IF k = l THEN i + d ELSE i
    BY <1>1
  <2>2. PICK b \in DOMAIN rx[k] : /\ rx'[k][j] \in {rx[k][b], Garbled(rx[k][b])}
                                  /\ b = IF k = l THEN j + d ELSE j
    BY <1>1
  <2>3. a < b
    <3>1. i \in Nat /\ j \in Nat
      BY rx'[k] \in Seq(FrameType)
    <3> QED BY <1>5, <2>1, <2>2, <3>1
  <2>4. rx[k][a].id < rx[k][b].id
    BY <2>3 DEF Queued
  <2> QED BY <1>2, <1>3, <2>1, <2>2, <2>4
<1> QED BY <1>4, <1>5 DEF Queued

\* A line goes out that nobody asked for, or the answer to the line in hand.
LEMMA AnswerInOrder ==
  ASSUME RInv, transport \in Links, UNCHANGED <<asked, rx, transport>>,
         NEW line \in LineType, out' \in {out, Append(out, line)},
         \/ line.id = 0 /\ line.seq = NoSeq
         \/ /\ line.id = cmd.id /\ line.link = transport
            /\ pc \in {"reply", "ack"}
            /\ line.seq = asked[cmd.id].seq \/ (line.seq = NoSeq /\ line.status = "FAIL")
  PROVE  Queued' /\ UnaskedHasNoSeq' /\ RepliesAreAnswers'
<1>1. out \in Seq(LineType) /\ asked \in Seq(FrameType)
  BY DEF RInv, Typed, TypeOK
<1>2. /\ DOMAIN out = 1..Len(out) /\ Len(out) \in Nat
      /\ \A i \in DOMAIN out : out[i] \in LineType
  BY <1>1
<1>3. \A i \in DOMAIN asked : i \in Nat \ {0}
  BY <1>1
<1>4. \A i \in DOMAIN out' : \/ i \in DOMAIN out /\ out'[i] = out[i]
                             \/ i = Len(out) + 1 /\ out'[i] = line
  BY <1>1
<1>5. line.id \in Nat /\ None \notin Links /\ 0 \notin DOMAIN asked
  BY <1>3 DEF LineType, None, Links
<1>6. /\ line.id # 0 => /\ IsLine(cmd, transport) /\ line.id = cmd.id /\ Unanswered(cmd.id)
                        /\ \A i \in DOMAIN rx[transport] : cmd.id < rx[transport][i].id
  BY DEF RInv, InOrder, InHand
<1>7. ASSUME NEW l \in Links, NEW i \in DOMAIN rx[l], transport = l
      PROVE  \A k \in DOMAIN out' : out'[k].id < rx[l][i].id
  <2>1. rx[l][i].id \in DOMAIN asked /\ Unanswered(rx[l][i].id)
    BY <1>7 DEF RInv, InOrder, Queued, IsLine
  <2>2. line.id < rx[l][i].id
    BY <1>3, <1>5, <1>6, <1>7, <2>1
  <2> QED BY <1>4, <2>1, <2>2 DEF Unanswered
<1>8. Queued'
  BY <1>5, <1>7 DEF RInv, InOrder, Queued, IsLine, Unanswered
<1>9. UnaskedHasNoSeq'
  <2>1. CASE line.id = 0 /\ line.seq = NoSeq
    BY <1>4, <2>1 DEF RInv, InOrder, UnaskedHasNoSeq
  <2>2. CASE line.id = cmd.id /\ pc \in {"reply", "ack"}
    <3>1. line.id \in DOMAIN asked
      BY <2>2 DEF RInv, InOrder, InHand, IsLine
    <3> QED BY <1>4, <1>5, <3>1 DEF RInv, InOrder, UnaskedHasNoSeq
  <2> QED BY <2>1, <2>2
<1>10. ASSUME NEW i \in DOMAIN out', out'[i].id # 0
       PROVE  /\ out'[i].id \in DOMAIN asked
              /\ out'[i].link = asked[out'[i].id].link
              /\ \/ out'[i].seq = asked[out'[i].id].seq
                 \/ out'[i].seq = NoSeq /\ out'[i].status = "FAIL"
  BY <1>4, <1>6, <1>10 DEF RInv, InOrder, RepliesAreAnswers, IsLine
<1>11. ASSUME NEW i \in DOMAIN out', NEW j \in DOMAIN out', i < j, out'[i].id # 0, out'[j].id # 0
       PROVE  out'[i].id < out'[j].id
  <2>1. CASE j \in DOMAIN out
    BY <1>2, <1>4, <1>11, <2>1 DEF RInv, InOrder, RepliesAreAnswers
  <2>2. CASE j \notin DOMAIN out
    <3>1. j = Len(out) + 1 /\ out'[j] = line /\ i \in DOMAIN out /\ out'[i] = out[i]
      BY <1>2, <1>4, <1>11, <2>2
    <3> QED BY <1>6, <1>11, <3>1 DEF Unanswered
  <2> QED BY <2>1, <2>2
<1> QED BY <1>8, <1>9, <1>10, <1>11 DEF RepliesAreAnswers

\* A host sends another line: it is the youngest.
LEMMA SendInOrder ==
  ASSUME RInv, NEW l \in Links, NEW t \in Texts, HostSend(l, t)
  PROVE  InOrder'
<1> DEFINE f == [id |-> Len(asked) + 1, link |-> l, seq |-> t.seq, cmd |-> t.cmd,
                 mode |-> t.mode, key |-> t.key]
<1>1. out \in Seq(LineType) /\ asked \in Seq(FrameType) /\ rx \in [Links -> Seq(FrameType)]
  BY DEF RInv, Typed, TypeOK
<1>2. /\ asked' = Append(asked, f) /\ rx' = [rx EXCEPT ![l] = Append(@, f)]
      /\ UNCHANGED <<pc, transport, cmd, resp, out>>
      /\ l = "WIFI" => transport = "WIFI"
  BY DEF HostSend
<1>3. t \in Text
  BY TestbenchAssumption DEF TestbenchAssumption
<1>4. f \in FrameType /\ f.id = Len(asked) + 1 /\ f.link = l /\ f.seq = t.seq
  BY <1>1, <1>3 DEF Text, FrameType
<1> HIDE DEF f
<1>5. /\ \A i \in DOMAIN asked : i \in DOMAIN asked' /\ asked'[i] = asked[i] /\ i \in 1..Len(asked)
      /\ f.id \in DOMAIN asked' /\ asked'[f.id] = f
  BY <1>1, <1>2, <1>4
<1>6. ASSUME NEW g, NEW k, IsLine(g, k)
      PROVE  /\ g.id \in DOMAIN asked' /\ asked'[g.id].link = k /\ g.link = k
             /\ g.seq = asked'[g.id].seq \/ g.seq = NoSeq
             /\ g.id < f.id /\ asked'[g.id] = asked[g.id]
  BY <1>1, <1>4, <1>5, <1>6 DEF IsLine
<1>7. \A k \in Links : \A i \in DOMAIN rx'[k] :
        \/ i \in DOMAIN rx[k] /\ rx'[k][i] = rx[k][i]
        \/ k = l /\ rx'[k][i] = f /\ i = Len(rx[k]) + 1
  BY <1>1, <1>2, <1>4
<1>8. \A i \in DOMAIN out : out[i].id < f.id
  <2>1. \A i \in DOMAIN out : out[i].id = 0 \/ out[i].id \in DOMAIN asked
    BY DEF RInv, InOrder, RepliesAreAnswers
  <2>2. 0 < f.id /\ \A i \in DOMAIN asked : i < f.id
    BY <1>1, <1>4
  <2> QED BY <2>1, <2>2
<1>9. Queued'
  <2>1. ASSUME NEW k \in Links, NEW i \in DOMAIN rx'[k]
        PROVE  (IsLine(rx[k][i], k) /\ (transport \in {None, k} => Unanswered(rx[k][i].id)))'
    <3>1. CASE i \in DOMAIN rx[k] /\ rx'[k][i] = rx[k][i]
      BY <1>2, <1>6, <3>1 DEF RInv, InOrder, Queued, IsLine, Unanswered
    <3>2. CASE k = l /\ rx'[k][i] = f
      BY <1>2, <1>4, <1>5, <1>8, <3>2 DEF IsLine, Unanswered
    <3> QED BY <1>7, <3>1, <3>2
  <2>2. ASSUME NEW k \in Links, NEW i \in DOMAIN rx'[k], NEW j \in DOMAIN rx'[k], i < j
        PROVE  rx'[k][i].id < rx'[k][j].id
    <3>0. rx[k] \in Seq(FrameType)
      BY <1>1
    <3>1. CASE j \in DOMAIN rx[k] /\ rx'[k][j] = rx[k][j]
      <4>1. i \in DOMAIN rx[k] /\ rx'[k][i] = rx[k][i]
        BY <1>7, <2>2, <3>0, <3>1
      <4> QED BY <2>2, <3>1, <4>1 DEF RInv, InOrder, Queued
    <3>2. CASE k = l /\ rx'[k][j] = f /\ j = Len(rx[k]) + 1
      <4>1. i \in DOMAIN rx[k] /\ rx'[k][i] = rx[k][i]
        BY <1>7, <2>2, <3>0, <3>2
      <4>2. IsLine(rx[k][i], k)
        BY <4>1 DEF RInv, InOrder, Queued
      <4> QED BY <1>6, <3>2, <4>1, <4>2
    <3> QED BY <1>7, <3>1, <3>2
  <2> QED BY <2>1, <2>2 DEF Queued
<1>10. InHand'
  <2>1. ASSUME pc \in {"exec", "reply", "switch", "ack"}
        PROVE  /\ (IsLine(cmd, transport) /\ Unanswered(cmd.id))'
               /\ \A i \in DOMAIN rx'[transport] : cmd.id < rx'[transport][i].id
               /\ asked'[cmd.id] = asked[cmd.id]
    <3>1. /\ IsLine(cmd, transport) /\ Unanswered(cmd.id)
          /\ \A i \in DOMAIN rx[transport] : cmd.id < rx[transport][i].id
      BY <2>1 DEF RInv, InOrder, InHand
    <3>2. transport \in Links
      BY <2>1 DEF RInv, Typed, TypeOK, Serving
    <3>3. \A i \in DOMAIN rx'[transport] : cmd.id < rx'[transport][i].id
      BY <1>6, <1>7, <3>1, <3>2
    <3> QED BY <1>2, <1>6, <3>1, <3>3 DEF IsLine, Unanswered
  <2> QED BY <1>2, <2>1 DEF RInv, InOrder, InHand
<1>11. NoneServed' /\ UnaskedHasNoSeq'
  BY <1>2 DEF RInv, InOrder, NoneServed, UnaskedHasNoSeq
<1>12. RepliesAreAnswers'
  BY <1>2, <1>5 DEF RInv, InOrder, RepliesAreAnswers
<1> QED BY <1>9, <1>10, <1>11, <1>12 DEF InOrder

\* Every step keeps the lines, and their answers, in order.
LEMMA RStep == RInv /\ [Next]_vars => RInv'
<1> SUFFICES ASSUME RInv, [Next]_vars PROVE InOrder'
  BY TypedStep DEF RInv
<1>0. /\ Typed /\ Typed' /\ Queued /\ InHand /\ NoneServed /\ UnaskedHasNoSeq
      /\ RepliesAreAnswers
      /\ rx \in [Links -> Seq(FrameType)] /\ rx' \in [Links -> Seq(FrameType)]
      /\ pc \in Serving \cup {"ack"} => transport \in Links
  BY TypedStep DEF RInv, InOrder, Typed, TypeOK
<1>1. ASSUME UNCHANGED <<out, asked>> PROVE UnaskedHasNoSeq' /\ RepliesAreAnswers'
  BY <1>0, <1>1 DEF UnaskedHasNoSeq, RepliesAreAnswers
\* The steps that take no line, send none and have none in hand.
<1>2. ASSUME UNCHANGED <<out, asked, transport, rx>>,
             pc' \notin {"exec", "reply", "switch", "ack"},
             pc' \in {"boot", "menu", "save", "transport"} => transport = None
      PROVE  InOrder'
  BY <1>0, <1>1, <1>2 DEF InOrder, Queued, InHand, NoneServed, IsLine, Unanswered
<1>3. ASSUME Reset, UNCHANGED <<out, asked>> PROVE InOrder'
  BY <1>0, <1>1, <1>3 DEF Reset, InOrder, Queued, InHand, NoneServed
\* The steps of the menu: they only eat the line at the head of the UART's.
<1>4. ASSUME UNCHANGED <<out, asked, transport>>, pc = "menu", pc' \in {"menu", "save"},
             \/ UNCHANGED rx
             \/ /\ rx["UART"] # <<>>
                /\ \E rest \in {<<>>, <<Garbled(Head(rx["UART"]))>>} :
                     rx' = [rx EXCEPT !["UART"] = rest \o Tail(@)]
      PROVE  InOrder'
  <2>1. Queued'
    <3>1. CASE UNCHANGED rx
      BY <1>0, <1>4, <3>1 DEF Queued, IsLine, Unanswered
    <3>2. CASE /\ rx["UART"] # <<>>
               /\ \E rest \in {<<>>, <<Garbled(Head(rx["UART"]))>>} :
                    rx' = [rx EXCEPT !["UART"] = rest \o Tail(@)]
      <4>1. "UART" \in Links /\ rx["UART"] \in Seq(FrameType)
        BY <1>0 DEF Links
      <4>2. CASE rx' = [rx EXCEPT !["UART"] = <<>> \o Tail(@)]
        <5>1. rx'["UART"] = Tail(rx["UART"])
          BY <1>0, <4>1, <4>2
        <5>2. \A i \in DOMAIN Tail(rx["UART"]) :
                i + 1 \in DOMAIN rx["UART"] /\ Tail(rx["UART"])[i] = rx["UART"][i + 1]
          BY <3>2, <4>1, TailShifts, Zenon
        <5> QED BY <1>0, <1>4, <4>1, <4>2, <5>1, <5>2, QueuedShifts
      <4>3. CASE rx' = [rx EXCEPT !["UART"] = <<Garbled(Head(rx["UART"]))>> \o Tail(@)]
        <5>1. rx'["UART"] = <<Garbled(Head(rx["UART"]))>> \o Tail(rx["UART"])
          BY <1>0, <4>1, <4>3
        <5>2. \A i \in DOMAIN rx'["UART"] :
                /\ i + 0 \in DOMAIN rx["UART"]
                /\ rx'["UART"][i] \in {rx["UART"][i + 0], Garbled(rx["UART"][i + 0])}
          BY <3>2, <4>1, <5>1
        <5> QED BY <1>0, <1>4, <4>1, <4>3, <5>2, QueuedShifts
      <4> QED BY <3>2, <4>2, <4>3
    <3> QED BY <1>4, <3>1, <3>2
  <2> QED BY <1>0, <1>1, <1>4, <2>1 DEF InOrder, InHand, NoneServed
\* The steps that send a line.
<1>5. ASSUME UNCHANGED <<asked, rx, transport, cmd, resp>>, transport \in Links,
             NEW line \in LineType, out' \in {out, Append(out, line)},
             \/ line.id = 0 /\ line.seq = NoSeq
             \/ /\ line.id = cmd.id /\ line.link = transport
                /\ pc \in {"reply", "ack"}
                /\ line.seq = asked[cmd.id].seq \/ (line.seq = NoSeq /\ line.status = "FAIL"),
             pc' \in {"ready", "read", "reboot", "halted"}
      PROVE  InOrder'
  BY <1>0, <1>5, AnswerInOrder DEF InOrder, InHand, NoneServed
<1>6. CASE ReadSaved
  BY <1>0, <1>2, <1>6 DEF ReadSaved, WithoutSaved, NoneServed
<1>7. CASE MenuEatsFrame
  BY <1>4, <1>7 DEF MenuEatsFrame, Pick
<1>8. CASE MenuTimeout
  BY <1>4, <1>8 DEF MenuTimeout, Pick
<1>9. CASE SaveMenuChoice
  BY <1>0, <1>2, <1>9 DEF SaveMenuChoice, NoneServed
<1>10. CASE InitTransport
  <2>1. /\ transport = None /\ pc' \in {"services", "halted"}
        /\ UNCHANGED <<out, asked, rx, cmd, resp>>
    BY <1>0, <1>10 DEF InitTransport, WifiInitFails, Outcomes, NoneServed
  <2>2. Queued'
    BY <1>0, <2>1 DEF Queued, IsLine, Unanswered
  <2> QED BY <1>1, <2>1, <2>2 DEF InOrder, InHand, NoneServed
<1>11. CASE ServicesInit
  <2>1. UNCHANGED <<asked, rx, transport, cmd, resp>> /\ transport \in Links
    BY <1>0, <1>11 DEF ServicesInit, Serving
  <2>2. CASE pc' = "ready" /\ out' = out
    BY <1>0, <1>2, <2>1, <2>2
  <2>3. CASE pc' = "halted" /\ Send(0, NoSeq, "FAIL")
    <3> DEFINE line == [id |-> 0, link |-> transport, seq |-> NoSeq, status |-> "FAIL"]
    <3>1. line \in LineType /\ out' \in {out, Append(out, line)}
      BY <2>1, <2>3, SendEffect DEF LineType
    <3> QED BY <1>5, <2>1, <2>3, <3>1
  <2> QED BY <1>11, <2>2, <2>3 DEF ServicesInit
<1>12. CASE AnnounceReady
  <2> DEFINE line == [id |-> 0, link |-> transport, seq |-> NoSeq, status |-> "READY"]
  <2>1. UNCHANGED <<asked, rx, transport, cmd, resp>> /\ transport \in Links /\ pc' = "read"
    BY <1>0, <1>12 DEF AnnounceReady, Serving
  <2>2. line \in LineType /\ out' \in {out, Append(out, line)}
    BY <1>12, <2>1, SendEffect DEF LineType, AnnounceReady
  <2> QED BY <1>5, <2>1, <2>2
<1>13. CASE ReadFrame
  <2> DEFINE f == Head(rx[transport])
  <2>1. /\ transport \in Links /\ rx[transport] \in Seq(FrameType) /\ rx[transport] # <<>>
        /\ UNCHANGED <<asked, out, transport>> /\ cmd' = f
        /\ rx' = [rx EXCEPT ![transport] = Tail(@)]
    BY <1>0, <1>13 DEF ReadFrame, Serving
  <2>2. rx'[transport] = Tail(rx[transport])
    BY <1>0, <2>1
  <2>3. \A i \in DOMAIN rx'[transport] :
          i + 1 \in DOMAIN rx[transport] /\ rx'[transport][i] = rx[transport][i + 1]
    BY <2>1, <2>2, TailShifts
  <2>4. Queued'
    BY <1>0, <2>1, <2>3, QueuedShifts
  <2>5. /\ 1 \in DOMAIN rx[transport] /\ f = rx[transport][1]
        /\ \A i \in DOMAIN rx'[transport] : i \in Nat /\ 1 < i + 1
    BY <2>1, <2>2, TailShifts
  <2>6. IsLine(f, transport) /\ Unanswered(f.id)
    BY <1>0, <2>1, <2>5 DEF Queued
  <2>7. \A i \in DOMAIN rx'[transport] : f.id < rx'[transport][i].id
    BY <1>0, <2>1, <2>3, <2>5 DEF Queued
  <2>8. /\ pc' \in {"reply", "exec", "switch"}
        /\ pc' # "reply" => Parses(f)
        /\ pc' = "reply" => \/ resp' = [seq |-> NoSeq, status |-> "FAIL"]
                            \/ Parses(f) /\ resp' = [seq |-> f.seq, status |-> "FAIL"]
    <3>1. f \in FrameType
      BY <2>1
    <3>2. Parses(f) => f.cmd \in {"SERVICE", "TRANSPORT_SWITCH"}
      BY <3>1, FrameFields DEF Parses
    <3>3. CASE ~Parses(f)
      <4>1. pc' = "reply" /\ resp' = [seq |-> NoSeq, status |-> "FAIL"]
        BY <1>13, <3>3 DEF ReadFrame
      <4> QED BY <4>1
    <3>4. CASE Parses(f) /\ f.cmd = "SERVICE"
      BY <1>13, <3>4 DEF ReadFrame
    <3>5. CASE Parses(f) /\ f.cmd = "TRANSPORT_SWITCH" /\ f.mode \notin Links
      <4>1. pc' = "reply" /\ resp' = [seq |-> f.seq, status |-> "FAIL"]
        BY <1>13, <3>5 DEF ReadFrame
      <4> QED BY <3>5, <4>1
    <3>6. CASE Parses(f) /\ f.cmd = "TRANSPORT_SWITCH" /\ f.mode \in Links
      BY <1>13, <3>6 DEF ReadFrame
    <3> HIDE DEF f
    <3> QED BY <3>2, <3>3, <3>4, <3>5, <3>6, Zenon
  <2>9. Parses(f) => f.seq = asked[f.id].seq
    BY <2>6 DEF Parses, IsLine, NoSeq
  <2> HIDE DEF f
  <2>10. InHand'
    <3>1. (IsLine(cmd, transport) /\ Unanswered(cmd.id))'
      BY <2>1, <2>6 DEF IsLine, Unanswered
    <3>2. resp' = [seq |-> f.seq, status |-> "FAIL"] => resp'.seq = f.seq
      OBVIOUS
    <3>3. resp' = [seq |-> NoSeq, status |-> "FAIL"] =>
            resp'.seq = NoSeq /\ resp'.status = "FAIL"
      OBVIOUS
    <3> QED BY <2>1, <2>7, <2>8, <2>9, <3>1, <3>2, <3>3 DEF InHand
  <2> QED BY <1>0, <1>1, <2>1, <2>4, <2>8, <2>10 DEF InOrder, NoneServed
<1>14. CASE Execute
  <2>1. /\ pc = "exec" /\ pc' = "reply" /\ resp'.seq = cmd.seq
        /\ UNCHANGED <<out, asked, transport, rx, cmd>>
    BY <1>14 DEF Execute
  <2>2. /\ IsLine(cmd, transport) /\ Unanswered(cmd.id)
        /\ \A i \in DOMAIN rx[transport] : cmd.id < rx[transport][i].id
        /\ cmd.seq = asked[cmd.id].seq
    BY <1>0, <2>1 DEF InHand
  <2>3. Queued' /\ NoneServed'
    BY <1>0, <2>1 DEF Queued, NoneServed, IsLine, Unanswered
  <2>4. InHand'
    BY <2>1, <2>2 DEF InHand, IsLine, Unanswered
  <2> QED BY <1>1, <2>1, <2>3, <2>4 DEF InOrder
<1>15. CASE Reply
  <2> DEFINE line == [id |-> cmd.id, link |-> transport, seq |-> resp.seq,
                      status |-> resp.status]
  <2>1. /\ UNCHANGED <<asked, rx, transport, cmd, resp>> /\ transport \in Links
        /\ pc = "reply" /\ pc' = "read"
    BY <1>0, <1>15 DEF Reply, Serving
  <2>2. out' \in {out, Append(out, line)}
    BY <1>15, <2>1, SendEffect DEF Reply
  <2>3. line \in LineType
    BY <1>0, <2>1, FrameFields DEF LineType, Typed, TypeOK
  <2>4. /\ line.id = cmd.id /\ line.link = transport
        /\ line.seq = asked[cmd.id].seq \/ (line.seq = NoSeq /\ line.status = "FAIL")
    BY <1>0, <2>1 DEF InHand
  <2> HIDE DEF line
  <2> QED BY <1>5, <2>1, <2>2, <2>3, <2>4
<1>16. CASE SaveSwitch
  <2>1. /\ pc = "switch" /\ pc' = "ack"
        /\ UNCHANGED <<out, asked, transport, rx, cmd, resp>>
    BY <1>16 DEF SaveSwitch
  <2>2. Queued' /\ NoneServed'
    BY <1>0, <2>1 DEF Queued, NoneServed, IsLine, Unanswered
  <2>3. InHand'
    BY <1>0, <2>1 DEF InHand, IsLine, Unanswered
  <2> QED BY <1>1, <2>1, <2>2, <2>3 DEF InOrder
<1>17. CASE AckSwitch
  <2> DEFINE line == [id |-> cmd.id, link |-> transport, seq |-> cmd.seq, status |-> "OK"]
  <2>1. /\ UNCHANGED <<asked, rx, transport, cmd, resp>> /\ transport \in Links
        /\ pc = "ack" /\ pc' = "reboot"
    BY <1>0, <1>17 DEF AckSwitch, AfterAck
  <2>2. out' \in {out, Append(out, line)}
    BY <1>17, <2>1, SendEffect DEF AckSwitch
  <2>3. line \in LineType
    BY <1>0, <2>1, FrameFields DEF LineType, Typed, TypeOK
  <2>4. line.id = cmd.id /\ line.link = transport /\ line.seq = asked[cmd.id].seq
    BY <1>0, <2>1 DEF InHand
  <2> HIDE DEF line
  <2> QED BY <1>5, <2>1, <2>2, <2>3, <2>4
<1>18. CASE Reboot
  BY <1>3, <1>18 DEF Reboot
<1>19. CASE \E l \in Links : MenuType(l)
  BY <1>4, <1>19 DEF MenuType, Pick
<1>20. CASE \E l \in Links, t \in Texts : HostSend(l, t)
  BY <1>20, SendInOrder
<1>21. CASE PowerCut
  BY <1>3, <1>21 DEF PowerCut
<1>22. CASE UNCHANGED vars
  BY <1>0, <1>22
  DEF vars, ram, InOrder, Queued, InHand, NoneServed, UnaskedHasNoSeq, RepliesAreAnswers,
      IsLine, Unanswered
<1> QED
  BY <1>6, <1>7, <1>8, <1>9, <1>10, <1>11, <1>12, <1>13, <1>14, <1>15, <1>16, <1>17,
     <1>18, <1>19, <1>20, <1>21, <1>22
  DEF Next, Board, Environment

\* The command loop answers the lines of the hosts in order, each at most once
\* and on its own link, whatever menu, power cuts and faults do in between.
THEOREM RepliesInOrder == Spec => []RepliesAreAnswers
<1>1. RInv => RepliesAreAnswers
  BY DEF RInv, InOrder
<1> QED BY <1>1, RInit, RStep, PTL DEF Spec

-----------------------------------------------------------------------------
(* What reliable flash gives *)

\* Each line waits on the link it was sent on.
OnItsLink == \A l \in Links : \A i \in DOMAIN rx[l] : rx[l][i].link = l

\* The strengthening of PromiseKept, FlashDecides and OnlyItsOwnLinkSwitches:
\* what main() is about to serve on, or offers in the menu, agrees with flash,
\* and between the write and the acknowledgement nothing is promised.
Kept ==
  /\ pc # "boot" => mounted
  /\ promise # None => nvs = promise
  /\ pc \in Serving => transport = nvs
  /\ pc = "transport" => chosen = nvs
  /\ pc \in {"menu", "save"} => nvs = None
  /\ pc = "ack" => promise = None /\ nvs = cmd.mode
  /\ pc = "switch" => cmd.link = transport
  /\ OnItsLink

KInv == Typed /\ Kept

LEMMA KeptInit == Init => Kept
  BY DEF Init, Powered, Kept, OnItsLink, Serving

\* The lines that stay after the first one was read were on their link before.
LEMMA TailOnItsLink ==
  ASSUME rx \in [Links -> Seq(FrameType)], OnItsLink,
         NEW l \in Links, rx[l] # <<>>,
         rx' = [rx EXCEPT ![l] = Tail(@)]
  PROVE  OnItsLink' /\ Head(rx[l]).link = l
<1>1. rx[l] \in Seq(FrameType)
  OBVIOUS
<1>2. Head(rx[l]) = rx[l][1] /\ 1 \in DOMAIN rx[l]
  BY <1>1
<1>3. \A i \in DOMAIN Tail(rx[l]) : i + 1 \in DOMAIN rx[l] /\ Tail(rx[l])[i] = rx[l][i + 1]
  BY <1>1
<1>4. rx'[l] = Tail(rx[l]) /\ \A k \in Links \ {l} : rx'[k] = rx[k]
  OBVIOUS
<1>5. ASSUME NEW k \in Links, NEW i \in DOMAIN rx'[k] PROVE rx'[k][i].link = k
  <2>1. CASE k = l
    BY <1>3, <1>4, <2>1 DEF OnItsLink
  <2>2. CASE k # l
    BY <1>4, <2>2 DEF OnItsLink
  <2> QED BY <2>1, <2>2
<1> QED BY <1>2, <1>5 DEF OnItsLink

\* So is what the menu leaves of a line.
LEMMA GarbledOnItsLink ==
  ASSUME rx \in [Links -> Seq(FrameType)], OnItsLink, NEW l \in Links, rx[l] # <<>>,
         rx' = [rx EXCEPT ![l] = <<Garbled(Head(rx[l]))>> \o Tail(@)]
  PROVE  OnItsLink'
<1> DEFINE g == Garbled(Head(rx[l]))
           t == Tail(rx[l])
<1>1. rx[l] \in Seq(FrameType)
  OBVIOUS
<1>2. Head(rx[l]) = rx[l][1] /\ 1 \in DOMAIN rx[l] /\ rx[l][1] \in FrameType
  BY <1>1
<1>3. g.link = l
  BY <1>2 DEF Garbled, OnItsLink, FrameType
<1>4. g \in FrameType /\ t \in Seq(FrameType)
  BY <1>1, <1>2, GarbledType
<1>5. \A i \in DOMAIN t : i + 1 \in DOMAIN rx[l] /\ t[i] = rx[l][i + 1]
  BY <1>1
<1>6. \A i \in DOMAIN t : t[i].link = l
  BY <1>5 DEF OnItsLink
<1> HIDE DEF g, t
<1>7. \A i \in DOMAIN (<<g>> \o t) :
        (<<g>> \o t)[i] = g \/ \E j \in DOMAIN t : (<<g>> \o t)[i] = t[j]
  <2>1. \A i \in 1..(Len(t) + 1) :
          (<<g>> \o t)[i] = IF i = 1 THEN g ELSE t[i - 1]
    BY <1>4
  <2>2. DOMAIN (<<g>> \o t) = 1..(Len(t) + 1) /\ DOMAIN t = 1..Len(t) /\ Len(t) \in Nat
    BY <1>4
  <2>3. \A i \in 1..(Len(t) + 1) : i = 1 \/ i - 1 \in 1..Len(t)
    BY <2>2
  <2> QED BY <2>1, <2>2, <2>3
<1>8. rx' = [rx EXCEPT ![l] = <<g>> \o t]
  BY DEF g, t
<1>9. rx'[l] = <<g>> \o t /\ \A k \in Links \ {l} : rx'[k] = rx[k]
  BY <1>8
<1>10. ASSUME NEW k \in Links, NEW i \in DOMAIN rx'[k] PROVE rx'[k][i].link = k
  <2>1. CASE k = l
    <3>1. i \in DOMAIN (<<g>> \o t) /\ rx'[k][i] = (<<g>> \o t)[i]
      BY <1>9, <2>1
    <3>2. rx'[k][i] = g \/ \E j \in DOMAIN t : rx'[k][i] = t[j]
      BY <1>7, <3>1, Zenon
    <3> QED BY <1>3, <1>6, <2>1, <3>2, Zenon
  <2>2. CASE k # l
    BY <1>9, <2>2 DEF OnItsLink
  <2> QED BY <2>1, <2>2
<1> QED BY <1>10 DEF OnItsLink

\* Lines that no step touched, or that a reset dropped.
LEMMA ResetOnItsLink == rx' = [l \in Links |-> <<>>] => OnItsLink'
  BY DEF OnItsLink

LEMMA SendOnItsLink ==
  ASSUME rx \in [Links -> Seq(FrameType)], OnItsLink, NEW l \in Links,
         NEW f \in FrameType, f.link = l,
         rx' = [rx EXCEPT ![l] = Append(@, f)]
  PROVE  OnItsLink'
<1>1. rx[l] \in Seq(FrameType)
  OBVIOUS
<1>2. \A i \in DOMAIN Append(rx[l], f) :
        Append(rx[l], f)[i] = f \/ (i \in DOMAIN rx[l] /\ Append(rx[l], f)[i] = rx[l][i])
  BY <1>1
<1>3. rx'[l] = Append(rx[l], f) /\ \A k \in Links \ {l} : rx'[k] = rx[k]
  OBVIOUS
<1>4. ASSUME NEW k \in Links, NEW i \in DOMAIN rx'[k] PROVE rx'[k][i].link = k
  <2>1. CASE k = l
    BY <1>2, <1>3, <2>1 DEF OnItsLink
  <2>2. CASE k # l
    BY <1>3, <2>2 DEF OnItsLink
  <2> QED BY <2>1, <2>2
<1> QED BY <1>4 DEF OnItsLink

LEMMA KeptStep == ~FlashFaults /\ KInv /\ [Next]_vars => Kept'
<1> SUFFICES ASSUME ~FlashFaults, KInv, [Next]_vars PROVE Kept'
  OBVIOUS
<1>0. Outcomes(FlashFaults) = {TRUE}
  BY DEF Outcomes
<1>a. /\ nvs \in Links \cup {None} /\ transport \in Links \cup {None}
      /\ rx \in [Links -> Seq(FrameType)]
      /\ pc \in Serving \cup {"ack", "reboot"} => transport \in Links
      /\ pc \in {"save", "transport"} => chosen \in Links
      /\ pc \in {"switch", "ack"} => cmd.mode \in Links
      /\ Kept /\ OnItsLink
      /\ pc # "boot" => mounted
  BY DEF KInv, Typed, TypeOK, Locals, Kept
<1>1. CASE ReadSaved
  BY <1>0, <1>1, <1>a
  DEF ReadSaved, NeedsNoMenu, WithoutSaved, Kept, Serving, OnItsLink
<1>2. CASE MenuEatsFrame
  <2>1. OnItsLink'
    <3>1. "UART" \in Links /\ rx["UART"] # <<>>
      BY <1>2 DEF MenuEatsFrame, Links
    <3>2. rx["UART"] \in Seq(FrameType)
      BY <1>a, <3>1
    <3>3. <<>> \o Tail(rx["UART"]) = Tail(rx["UART"])
      BY <3>1, <3>2
    <3>4. \/ rx' = [rx EXCEPT !["UART"] = Tail(@)]
          \/ rx' = [rx EXCEPT !["UART"] = <<Garbled(Head(rx["UART"]))>> \o Tail(@)]
      BY <1>2, <3>3 DEF MenuEatsFrame
    <3>5. CASE rx' = [rx EXCEPT !["UART"] = Tail(@)]
      BY <1>a, <3>1, <3>5, TailOnItsLink
    <3>6. CASE rx' = [rx EXCEPT !["UART"] = <<Garbled(Head(rx["UART"]))>> \o Tail(@)]
      BY <1>a, <3>1, <3>6, GarbledOnItsLink
    <3> QED BY <3>4, <3>5, <3>6
  <2> QED BY <1>2, <1>a, <2>1 DEF MenuEatsFrame, Pick, Kept, Serving
<1>3. CASE MenuTimeout
  <2>1. OnItsLink'
    BY <1>3, <1>a, GarbledOnItsLink, "UART" \in Links DEF MenuTimeout, Pick, Links, OnItsLink
  <2> QED BY <1>3, <1>a, <2>1 DEF MenuTimeout, Pick, Kept, Serving
<1>4. CASE SaveMenuChoice
  <2>1. nvs' = chosen
    BY <1>0, <1>4, <1>a DEF SaveMenuChoice, Written
  <2> QED BY <1>4, <1>a, <2>1 DEF SaveMenuChoice, Kept, Serving, OnItsLink
<1>5. CASE InitTransport
  BY <1>5, <1>a DEF InitTransport, WifiInitFails, Kept, Serving, OnItsLink
<1>6. CASE ServicesInit
  BY <1>6, <1>a DEF ServicesInit, Kept, Serving, OnItsLink
<1>7. CASE AnnounceReady
  BY <1>7, <1>a DEF AnnounceReady, Kept, Serving, OnItsLink
<1>8. CASE ReadFrame
  <2> DEFINE f == Head(rx[transport])
  <2>1. transport \in Links
    BY <1>8, <1>a DEF ReadFrame, Serving
  <2>2. OnItsLink' /\ f.link = transport
    BY <1>8, <1>a, <2>1, TailOnItsLink DEF ReadFrame
  <2>3. cmd' = f /\ pc' \in {"reply", "exec", "switch"}
    <3>1. cmd' = f /\ f.cmd \in {"SERVICE", "TRANSPORT_SWITCH", "UNKNOWN"}
      BY <1>8, <1>a, <2>1, RxTail, FrameFields DEF ReadFrame
    <3>2. CASE ~Parses(f)
      BY <1>8, <3>1, <3>2 DEF ReadFrame
    <3>3. CASE Parses(f)
      <4>1. f.cmd \in {"SERVICE", "TRANSPORT_SWITCH"}
        BY <3>1, <3>3 DEF Parses
      <4> QED BY <1>8, <3>1, <3>3, <4>1 DEF ReadFrame
    <3> QED BY <3>2, <3>3
  <2> QED BY <1>8, <1>a, <2>1, <2>2, <2>3 DEF ReadFrame, Kept, Serving
<1>9. CASE Execute
  BY <1>9, <1>a DEF Execute, Kept, Serving, OnItsLink
<1>10. CASE Reply
  BY <1>10, <1>a DEF Reply, Kept, Serving, OnItsLink
<1>11. CASE SaveSwitch
  <2>1. nvs' = cmd.mode
    BY <1>0, <1>11, <1>a DEF SaveSwitch, Written
  <2> QED BY <1>11, <1>a, <2>1 DEF SaveSwitch, Kept, Serving, OnItsLink
<1>12. CASE AckSwitch
  BY <1>12, <1>a DEF AckSwitch, AfterAck, Kept, Serving, OnItsLink
<1>13. CASE Reboot
  BY <1>13, <1>a, ResetOnItsLink DEF Reboot, Reset, Kept, Serving
<1>14. CASE \E l \in Links : MenuType(l)
  BY <1>14, <1>a DEF MenuType, Pick, Kept, Serving, OnItsLink
<1>15. CASE \E l \in Links, t \in Texts : HostSend(l, t)
  <2>1. PICK l \in Links, t \in Texts : HostSend(l, t)
    BY <1>15
  <2> DEFINE f == [id |-> Len(asked) + 1, link |-> l, seq |-> t.seq, cmd |-> t.cmd,
                   mode |-> t.mode, key |-> t.key]
  <2>2. t \in Text /\ Len(asked) \in Nat
    BY TestbenchAssumption DEF TestbenchAssumption, KInv, Typed, TypeOK
  <2>3. f \in FrameType /\ f.link = l
    BY <2>2 DEF Text, FrameType
  <2>4. OnItsLink'
    BY <1>a, <2>1, <2>3, SendOnItsLink DEF HostSend
  <2> QED BY <1>a, <2>1, <2>4 DEF HostSend, Kept, Serving
<1>16. CASE PowerCut
  BY <1>16, <1>a, ResetOnItsLink DEF PowerCut, Reset, Kept, Serving
<1>17. CASE UNCHANGED vars
  BY <1>17, <1>a DEF vars, ram, Kept, OnItsLink
<1> QED
  BY <1>1, <1>2, <1>3, <1>4, <1>5, <1>6, <1>7, <1>8, <1>9, <1>10, <1>11, <1>12,
     <1>13, <1>14, <1>15, <1>16, <1>17
  DEF Next, Board, Environment

LEMMA KInvariant == ASSUME ~FlashFaults PROVE Spec => []KInv
<1>1. Init => KInv
  BY TypedInit, KeptInit DEF KInv
<1>2. KInv /\ [Next]_vars => KInv'
  BY TypedStep, KeptStep DEF KInv
<1> QED BY <1>1, <1>2, PTL DEF Spec

\* An acknowledged TRANSPORT_SWITCH survives every reset and decides every boot
\* (main.c:49-52, 126-137, 176-182), provided nvs_mount and nvs_write succeed.
THEOREM SwitchIsKept == ASSUME ~FlashFaults PROVE Spec => []PromiseKept
<1>1. KInv => PromiseKept
  BY DEF KInv, Kept, PromiseKept
<1> QED BY <1>1, KInvariant, PTL

\* The board serves on the transport that flash holds (main.c:126-152).
THEOREM FlashIsObeyed == ASSUME ~FlashFaults PROVE Spec => []FlashDecides
<1>1. KInv => FlashDecides
  BY DEF KInv, Kept, FlashDecides
<1> QED BY <1>1, KInvariant, PTL

\* A saved transport is left only by a switch command received over it: neither
\* the menu nor a failed start changes it (main.c:122-158, 168-183).
THEOREM LockIn == ASSUME ~FlashFaults PROVE Spec => OnlyItsOwnLinkSwitches
<1> DEFINE Own == nvs # None /\ nvs' # nvs =>
                    pc = "switch" /\ cmd.link = nvs /\ cmd.mode = nvs'
<1>1. KInv /\ [Next]_vars => [Own]_vars
  <2> SUFFICES ASSUME KInv, Next PROVE Own
    BY DEF vars, ram
  <2>1. CASE SaveMenuChoice
    BY <2>1 DEF SaveMenuChoice, KInv, Kept
  <2>2. CASE SaveSwitch
    <3>1. nvs' = nvs \/ nvs' = cmd.mode
      BY <2>2 DEF SaveSwitch, Written
    <3> QED BY <2>2, <3>1 DEF SaveSwitch, KInv, Kept, Serving
  <2>3. CASE ~(SaveMenuChoice \/ SaveSwitch)
    <3>1. nvs' = nvs
      BY <2>3
      DEF Next, Board, Environment, ReadSaved, MenuEatsFrame, Pick, MenuTimeout,
          InitTransport, ServicesInit, AnnounceReady, ReadFrame, Execute, Reply,
          AckSwitch, Reboot, MenuType, HostSend, PowerCut
    <3> QED BY <3>1
  <2> QED BY <2>1, <2>2, <2>3
<1> QED BY <1>1, KInvariant, PTL DEF Spec, OnlyItsOwnLinkSwitches

-----------------------------------------------------------------------------
(* The mode register *)

LEMMA ModeStep ==
  ASSUME ~FlashFaults, KInv, [Next]_vars
  PROVE  [Mode!ModeNext]_(Mode!modeVars)
<1> USE DEF Mode!ModeNext, Mode!modeVars
<1>0. Outcomes(FlashFaults) = {TRUE}
  BY DEF Outcomes
<1>a. /\ Kept
      /\ pc \in {"save", "transport"} => chosen \in Links
      /\ pc \in {"switch", "ack"} => cmd.mode \in Links
      /\ pc \in Serving \cup {"ack", "reboot"} => transport \in Links
  BY DEF KInv, Typed, TypeOK, Locals
<1>b. None \notin Links
  BY DEF None, Links
<1>1. CASE SaveMenuChoice
  <2>1. nvs = None /\ nvs' = chosen /\ chosen \in Links
    BY <1>0, <1>1, <1>a DEF SaveMenuChoice, Written, Kept
  <2>2. Mode!Choose(chosen)
    BY <1>1, <2>1 DEF SaveMenuChoice, Mode!Choose, ServedOn, Serving
  <2> QED BY <2>1, <2>2
<1>2. CASE InitTransport
  <2>1. CASE pc' = "services"
    BY <1>2, <2>1 DEF InitTransport, ServedOn, Serving
  <2>2. CASE pc' = "halted"
    BY <1>2, <2>2 DEF InitTransport, WifiInitFails, ServedOn, Serving, Mode!Fail
  <2> QED BY <1>2, <2>1, <2>2 DEF InitTransport, WifiInitFails
<1>3. CASE ServicesInit
  <2>1. CASE pc' = "ready"
    <3>1. nvs \in Links /\ transport = nvs
      BY <1>3, <1>a DEF ServicesInit, Kept, Serving
    <3>2. Mode!Start
      BY <1>3, <2>1, <3>1 DEF ServicesInit, ServedOn, Serving, Mode!Start
    <3> QED BY <3>2
  <2>2. CASE pc' = "halted"
    BY <1>3, <2>2 DEF ServicesInit, ServedOn, Serving, Mode!Fail
  <2> QED BY <1>3, <2>1, <2>2 DEF ServicesInit
<1>4. CASE SaveSwitch
  <2>1. nvs' = cmd.mode /\ cmd.mode \in Links
    BY <1>0, <1>4, <1>a DEF SaveSwitch, Written, Kept
  <2>2. transport = nvs /\ nvs \in Links
    BY <1>4, <1>a DEF SaveSwitch, Kept, Serving
  <2>3. Mode!Switch(cmd.mode)
    BY <1>4, <2>1, <2>2 DEF SaveSwitch, Mode!Switch, ServedOn, Serving
  <2> QED BY <2>1, <2>3
<1>5. CASE AckSwitch
  <2>1. nvs = cmd.mode /\ cmd.mode \in Links
    BY <1>5, <1>a DEF AckSwitch, Kept
  <2>2. Mode!Acknowledge
    BY <1>5, <2>1 DEF AckSwitch, AfterAck, Mode!Acknowledge, ServedOn, Serving
  <2> QED BY <2>2
<1>6. CASE Reboot \/ PowerCut
  BY <1>6 DEF Reboot, PowerCut, Reset, ServedOn, Serving, Mode!Stop
<1>7. CASE ReadSaved \/ MenuEatsFrame \/ MenuTimeout \/ \E l \in Links : MenuType(l)
  BY <1>7
  DEF ReadSaved, WithoutSaved, MenuEatsFrame, MenuTimeout, MenuType, Pick, ServedOn, Serving
<1>8. CASE AnnounceReady \/ Execute \/ Reply \/ \E l \in Links, t \in Texts : HostSend(l, t)
  BY <1>8 DEF AnnounceReady, Execute, Reply, HostSend, ServedOn, Serving
<1>9. CASE ReadFrame
  <2>1. /\ pc \in Serving \ {"services"} /\ pc' \in Serving \ {"services"}
        /\ transport' = transport
    <3>1. transport \in Links
      BY <1>9, <1>a DEF ReadFrame, Serving
    <3>2. Head(rx[transport]).cmd \in {"SERVICE", "TRANSPORT_SWITCH", "UNKNOWN"}
      BY <1>9, <3>1, RxTail, FrameFields DEF ReadFrame, KInv, Typed, TypeOK
    <3>3. CASE ~Parses(Head(rx[transport]))
      BY <1>9, <3>3 DEF ReadFrame, Serving
    <3>4. CASE Parses(Head(rx[transport]))
      <4>1. Head(rx[transport]).cmd \in {"SERVICE", "TRANSPORT_SWITCH"}
        BY <3>2, <3>4 DEF Parses
      <4> QED BY <1>9, <3>4, <4>1 DEF ReadFrame, Serving
    <3> QED BY <3>3, <3>4
  <2> QED BY <1>9, <2>1 DEF ReadFrame, ServedOn, Serving
<1>10. CASE UNCHANGED vars
  BY <1>10 DEF vars, ram, ServedOn
<1> QED
  BY <1>1, <1>2, <1>3, <1>4, <1>5, <1>6, <1>7, <1>8, <1>9, <1>10
  DEF Next, Board, Environment

\* Boot, menu, flash, loop and reboot together behave as one mode register
\* that is switched atomically and survives power cuts: the steps of ModeKept, whose
\* fairness is left to TLC.
THEOREM ModeRefined == ASSUME ~FlashFaults PROVE Spec => Mode!ModeSafeSpec
<1>1. Init => Mode!ModeInit
  BY DEF Init, Powered, Mode!ModeInit, ServedOn, Serving
<1>2. KInv /\ [Next]_vars => [Mode!ModeNext]_(Mode!modeVars)
  BY ModeStep
<1> QED BY <1>1, <1>2, KInvariant, PTL DEF Spec, Mode!ModeSafeSpec

-----------------------------------------------------------------------------
(* What the board does beside a call *)

BoardSteps == Board \/ PowerCut \/ \E l \in Links : MenuType(l)

\* The board asks nothing, and says at most one thing at a time.
LEMMA SaysOneThing ==
  ASSUME Typed, BoardSteps
  PROVE  asked' = asked /\ (out' = out \/ \E line : out' = Append(out, line))
<1>0. pc \in Serving \cup {"ack"} => transport \in Links
  BY DEF Typed, TypeOK
<1>1. CASE \/ ReadSaved \/ MenuEatsFrame \/ MenuTimeout \/ SaveMenuChoice \/ InitTransport
           \/ \E l \in Links : MenuType(l)
  BY <1>1 DEF ReadSaved, MenuEatsFrame, MenuTimeout, SaveMenuChoice, InitTransport, MenuType, Pick
<1>2. CASE ReadFrame \/ Execute \/ SaveSwitch \/ Reboot \/ PowerCut
  BY <1>2 DEF ReadFrame, Execute, SaveSwitch, Reboot, PowerCut
<1>3. ASSUME NEW id, NEW seq, NEW status, Send(id, seq, status), transport \in Links
      PROVE  out' = out \/ \E line : out' = Append(out, line)
  BY <1>3, SendEffect
<1>4. CASE ServicesInit
  <2>1. asked' = asked /\ transport \in Links /\ (out' = out \/ Send(0, NoSeq, "FAIL"))
    BY <1>0, <1>4 DEF ServicesInit, Serving
  <2> QED BY <1>3, <2>1
<1>5. CASE AnnounceReady
  <2>1. asked' = asked /\ transport \in Links /\ Send(0, NoSeq, "READY")
    BY <1>0, <1>5 DEF AnnounceReady, Serving
  <2> QED BY <1>3, <2>1
<1>6. CASE Reply
  <2>1. asked' = asked /\ transport \in Links /\ Send(cmd.id, resp.seq, resp.status)
    BY <1>0, <1>6 DEF Reply, Serving
  <2> QED BY <1>3, <2>1
<1>7. CASE AckSwitch
  <2>1. asked' = asked /\ transport \in Links /\ Send(cmd.id, cmd.seq, "OK")
    BY <1>0, <1>7 DEF AckSwitch
  <2> QED BY <1>3, <2>1
<1> QED BY <1>1, <1>2, <1>4, <1>5, <1>6, <1>7 DEF BoardSteps, Board

-----------------------------------------------------------------------------
(* The calls *)

\* One line was sent per call, and with FreshSeqs its seq tells which.
Calls ==
  /\ phase \in {"idle", "waiting"}
  /\ req = Len(asked)
  /\ phase = "waiting" => req # 0
  /\ heard \in Nat
  /\ \A i \in DOMAIN asked : asked[i].seq # NoSeq
  /\ \A i, j \in DOMAIN asked : asked[i].seq = asked[j].seq => i = j

HInv == RInv /\ Calls

\* A step of board and library is a step of the board and its environment.
LEMMA HostNextIsNext == [HostNext]_hostLink => [Next]_vars
<1> SUFFICES ASSUME [HostNext]_hostLink PROVE [Next]_vars
  OBVIOUS
<1>1. CASE BoardSteps
  BY <1>1 DEF BoardSteps, Next, Environment
<1>2. CASE \E t \in Texts : Call(t)
  BY <1>2, "UART" \in Links DEF Call, Next, Environment, Links
<1>3. CASE ReadLine \/ GiveUp \/ UNCHANGED hostLink
  BY <1>3 DEF ReadLine, GiveUp, hostLink
<1> QED BY <1>1, <1>2, <1>3 DEF HostNext, BoardSteps

LEMMA HInit == HostInit => HInv
<1> SUFFICES ASSUME HostInit PROVE Calls
  BY RInit DEF HostInit, HInv
<1> QED BY DEF HostInit, Init, Calls

LEMMA HStep == ASSUME FreshSeqs, HInv, [HostNext]_hostLink PROVE HInv'
<1>1. RInv'
  BY HostNextIsNext, RStep DEF HInv
<1>2. Len(asked) \in Nat /\ asked \in Seq(FrameType) /\ out \in Seq(LineType) /\ Typed
  BY DEF HInv, RInv, Typed, TypeOK
<1>3. CASE BoardSteps /\ UNCHANGED host
  BY <1>1, <1>2, <1>3, SaysOneThing DEF HInv, Calls, host
<1>4. CASE \E t \in Texts : Call(t)
  <2>1. PICK t \in Texts : Call(t)
    BY <1>4
  <2> DEFINE f == [id |-> Len(asked) + 1, link |-> "UART", seq |-> t.seq, cmd |-> t.cmd,
                   mode |-> t.mode, key |-> t.key]
  <2>2. /\ asked' = Append(asked, f) /\ t.seq # NoSeq
        /\ \A i \in DOMAIN asked : asked[i].seq # t.seq
        /\ phase' = "waiting" /\ req' = Len(asked) + 1 /\ heard' \in heard..Len(out)
    BY <2>1 DEF Call, HostSend, Flushed
  <2>3. /\ Len(asked') = Len(asked) + 1
        /\ \A i \in DOMAIN asked' : \/ i \in DOMAIN asked /\ asked'[i] = asked[i]
                                    \/ i = Len(asked) + 1 /\ asked'[i].seq = t.seq
    BY <1>2, <2>2
  <2>4. heard' \in Nat
    BY <1>2, <2>2 DEF HInv, Calls
  <2> HIDE DEF f
  <2> QED BY <1>1, <1>2, <2>2, <2>3, <2>4 DEF HInv, Calls
<1>5. CASE ReadLine
  BY <1>1, <1>2, <1>5 DEF ReadLine, HInv, Calls, vars, ram
<1>6. CASE GiveUp
  BY <1>1, <1>2, <1>6 DEF GiveUp, HInv, Calls, vars, ram
<1>7. CASE UNCHANGED hostLink
  BY <1>1, <1>7 DEF hostLink, host, vars, ram, HInv, Calls
<1> QED BY <1>3, <1>4, <1>5, <1>6, <1>7 DEF HostNext, BoardSteps

-----------------------------------------------------------------------------
(* The promise of RequestReply *)

Done == [i \in DOMAIN out |-> Answering(out[i])]

\* What the board says last is what was done last.
LEMMA DoneGrows ==
  ASSUME out \in Seq(LineType), NEW line \in LineType, out' = Append(out, line)
  PROVE  Done' = Append(Done, Answering(line))
<1>1. Len(out) \in Nat /\ DOMAIN out = 1..Len(out) /\ DOMAIN out' = 1..(Len(out) + 1)
  OBVIOUS
<1>2. \A i \in DOMAIN out : out'[i] = out[i]
  OBVIOUS
<1>3. out'[Len(out) + 1] = line
  OBVIOUS
<1> DEFINE S == {Answering(out[i]) : i \in DOMAIN out} \cup {Answering(line)}
<1>4. Done \in Seq(S) /\ Len(Done) = Len(out)
  BY <1>1 DEF Done
<1>5. /\ Append(Done, Answering(line)) \in [1..(Len(out) + 1) -> S]
      /\ \A i \in 1..Len(out) : Append(Done, Answering(line))[i] = Done[i]
      /\ Append(Done, Answering(line))[Len(out) + 1] = Answering(line)
  <2> HIDE DEF S
  <2>1. Answering(line) \in S
    BY DEF S
  <2>2. Append(Done, Answering(line)) \in Seq(S)
    BY <1>4, <2>1
  <2>3. Len(Append(Done, Answering(line))) = Len(out) + 1
    BY <1>1, <1>4, <2>1
  <2>4. \A i \in 1..Len(out) : Append(Done, Answering(line))[i] = Done[i]
    BY <1>1, <1>4, <2>1
  <2>5. Append(Done, Answering(line))[Len(out) + 1] = Answering(line)
    BY <1>1, <1>4, <2>1
  <2> DEFINE d == Append(Done, Answering(line))
  <2>6. d \in Seq(S) /\ Len(d) = Len(out) + 1
    BY <2>2, <2>3
  <2> HIDE DEF d
  <2>7. d \in [1..(Len(out) + 1) -> S]
    BY <2>6
  <2> QED BY <2>4, <2>5, <2>7 DEF d
<1>6. Done' = [i \in 1..(Len(out) + 1) |-> Answering(out'[i])]
  BY <1>1 DEF Done, Answering
<1>7. \A i \in 1..(Len(out) + 1) : Answering(out'[i]) = Append(Done, Answering(line))[i]
  BY <1>1, <1>2, <1>3, <1>5 DEF Done
<1> QED BY <1>5, <1>6, <1>7

\* Every step of board and library is one of RequestReply, or nothing to it.
LEMMA RequestStep ==
  ASSUME FreshSeqs, HInv, [HostNext]_hostLink
  PROVE  [Requests!Next]_(Requests!requestVars)
<1> USE DEF Requests!Next, Requests!requestVars
<1>1. HInv'
  BY HStep
<1>2. /\ Len(asked) \in Nat /\ asked \in Seq(FrameType) /\ out \in Seq(LineType) /\ Typed
      /\ DOMAIN asked = 1..Len(asked)
  BY DEF HInv, RInv, Typed, TypeOK
<1>3. CASE BoardSteps /\ UNCHANGED host
  <2>1. CASE out' = out
    BY <1>3, <2>1 DEF host
  <2>2. CASE \E line : out' = Append(out, line)
    <3>1. PICK line : out' = Append(out, line)
      BY <2>2
    <3>2. out' \in Seq(LineType) /\ RepliesAreAnswers' /\ asked' = asked
      BY <1>1, <1>2, <1>3, SaysOneThing DEF HInv, RInv, InOrder, Typed, TypeOK
    <3>3. /\ Len(out) + 1 \in DOMAIN out' /\ out'[Len(out) + 1] = line
          /\ \A i \in DOMAIN out : i \in DOMAIN out' /\ i < Len(out) + 1 /\ out'[i] = out[i]
      BY <1>2, <3>1, <3>2
    <3>4. line \in LineType
      BY <3>2, <3>3
    <3>5. Done' = Append(Done, Answering(line))
      BY <1>2, <3>1, <3>4, DoneGrows
    <3>6. CASE line.id = 0
      <4>1. Answering(line) = <<"NOBODY", 0>>
        BY <3>6 DEF Answering
      <4> QED BY <1>3, <3>5, <4>1 DEF Requests!DoUnasked, Done, host
    <3>7. CASE line.id # 0
      <4>1. Answering(line) = <<"HOST", line.id>>
        BY <3>7 DEF Answering
      <4>2. line.id \in 1..Len(asked)
        BY <1>2, <3>2, <3>3, <3>7 DEF RepliesAreAnswers
      <4>3. \A i \in DOMAIN out : out[i].id # 0 => out[i].id < line.id
        BY <3>2, <3>3, <3>7 DEF RepliesAreAnswers
      <4>4. \A i \in DOMAIN Done : Done[i][1] = "HOST" => Done[i][2] < line.id
        BY <4>3 DEF Done, Answering
      <4>5. UNCHANGED <<phase, req, got>> /\ line.id <= req
        BY <1>2, <1>3, <4>2 DEF host, HInv, Calls
      <4>6. Requests!Do("HOST", line.id)
        BY <3>5, <4>1, <4>4, <4>5 DEF Requests!Do, Done
      <4> QED BY <4>2, <4>6 DEF HInv, Calls
    <3> QED BY <3>6, <3>7
  <2> QED BY <1>2, <1>3, <2>1, <2>2, SaysOneThing
<1>4. CASE \E t \in Texts : Call(t)
  <2>1. /\ phase = "idle" /\ phase' = "waiting" /\ got' = NoLine
        /\ req' = req + 1 /\ out' = out
    BY <1>4 DEF Call, HostSend, HInv, Calls
  <2>2. Requests!Ask("HOST")
    BY <2>1 DEF Requests!Ask
  <2> QED BY <2>2
<1>5. CASE ReadLine
  <2>1. out' = out /\ asked' = asked /\ req' = req /\ phase = "waiting"
    BY <1>5 DEF ReadLine, vars, ram
  <2>2. CASE ~Matches(out[heard + 1])
    BY <1>5, <2>1, <2>2 DEF ReadLine
  <2>3. CASE Matches(out[heard + 1])
    <3> DEFINE line == out[heard + 1]
    <3>1. phase' = "idle" /\ got' = line
      BY <1>5, <2>3 DEF ReadLine
    <3>2. heard + 1 \in DOMAIN out /\ line \in LineType
      BY <1>2, <1>5 DEF ReadLine, HInv, Calls
    <3>3. line.seq = asked[req].seq /\ req \in DOMAIN asked /\ line.seq # NoSeq
      BY <1>2, <2>1, <2>3 DEF Matches, HInv, Calls
    <3>4. line.id # 0
      BY <3>2, <3>3 DEF HInv, RInv, InOrder, UnaskedHasNoSeq
    <3>5. line.id \in DOMAIN asked /\ line.seq = asked[line.id].seq
      BY <3>2, <3>3, <3>4 DEF HInv, RInv, InOrder, RepliesAreAnswers
    <3>6. line.id = req
      BY <3>3, <3>5 DEF HInv, Calls
    <3>7. line # NoLine /\ Answering(line) = <<"HOST", req>>
      BY <3>4, <3>6 DEF NoLine, Answering
    <3>8. Done[heard + 1] = <<"HOST", req>> /\ heard + 1 \in DOMAIN Done
      BY <3>2, <3>7 DEF Done
    <3> HIDE DEF line
    <3>9. Requests!Return("HOST")
      BY <2>1, <3>1, <3>7, <3>8 DEF Requests!Return, Done
    <3> QED BY <3>9
  <2> QED BY <2>2, <2>3
<1>6. CASE GiveUp
  <2>1. Requests!GiveUp("HOST")
    BY <1>6 DEF GiveUp, Requests!GiveUp, vars, ram
  <2> QED BY <2>1
<1>7. CASE UNCHANGED hostLink
  BY <1>7 DEF hostLink, host, vars, ram
<1> QED BY <1>3, <1>4, <1>5, <1>6, <1>7 DEF HostNext, BoardSteps

\* TestbenchSerial.py and main.c: whatever power cuts, menus, deadlines and faults
\* do, a line is answered at most once and in order, and a call returns the
\* answer to its own line, when every call uses a seq of its own.
THEOREM CallsGetTheirAnswers == ASSUME FreshSeqs PROVE HostSpec => RequestsAnswered
<1>1. HostInit => Requests!Init
  <2> SUFFICES ASSUME HostInit PROVE Requests!Init
    OBVIOUS
  <2>1. Done = <<>>
    <3>1. out = <<>> /\ DOMAIN out = {}
      BY DEF HostInit, Init
    <3> QED BY <3>1 DEF Done
  <2> QED BY <2>1 DEF HostInit, Requests!Init, Done
<1>2. HInv /\ [HostNext]_hostLink => HInv'
  BY HStep
<1>3. HInv /\ [HostNext]_hostLink => [Requests!Next]_(Requests!requestVars)
  BY RequestStep
<1> QED BY <1>1, <1>2, <1>3, HInit, PTL DEF HostSpec, RequestsAnswered, Requests!Spec

=============================================================================
