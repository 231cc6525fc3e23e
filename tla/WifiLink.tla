------------------------------ MODULE WifiLink ------------------------------
(***************************************************************************)
(* The WiFi transport: the TCP server of the testbench                     *)
(* (wifi_transport.c) and the sessions of TestbenchWifi.py with it.  The   *)
(* server has one client at a time and blocks in recv on it; others wait   *)
(* in the listen queue, where they can already send.  A session is opened, *)
(* makes some calls and is closed, dies in the middle of a line, or        *)
(* disappears without a word; its commands are numbered from 1, so every   *)
(* session uses the same sequence numbers.                                 *)
(*                                                                         *)
(* A character says which command of which session it belongs to, and how  *)
(* far from the beginning of the line it stands.  A line may be longer     *)
(* than the buffer.                                                        *)
(***************************************************************************)
EXTENDS Integers, Sequences, FiniteSets

CONSTANTS
  Sessions,   \* every session there will be, of one host or several
  NoSession,
  MaxLines,   \* calls of a session
  Sizes,      \* how many characters a line may have
  Room        \* buffer_size - 1: what the server keeps of a line

ASSUME WifiAssumption ==
  /\ NoSession \notin Sessions
  /\ MaxLines \in Nat
  /\ Sizes \subseteq Nat \ {0} /\ IsFiniteSet(Sizes)
  /\ Room \in Nat \ {0}

VARIABLES
  spc,      \* the server: "read", "exec" or "reply"
  client,   \* client_fd; NoSession is -1
  buf,      \* buffer[0..index) of wifi_transport_read_line
  queue,    \* connections that wait to be accepted
  handled,  \* the lines main() got from the transport, oldest first
  peer,     \* per session: "new", "open", "closed" or "vanished"
  stream,   \* per session: characters on their way to the server
  cpc,      \* per session: "idle", "send" or "wait" (send_ztb_command)
  left,     \* per session: sendall, what it has yet to send
  calls,    \* per session: calls so far, and the seq of the last one
  replies,  \* per session: received and not yet read; the seqs of the lines
  got       \* per session: the command whose answer the last call returned; 0
            \* while it waits, or if it gave up

server  == <<spc, client, buf, queue, handled>>
session == <<peer, stream, cpc, left, calls, replies, got>>
vars    == <<server, session>>

Char(s, n, k) == [of |-> <<s, n>>, at |-> k]
Eol           == [of |-> <<NoSession, 0>>, at |-> 0]
Line(s, n, z) == [k \in 1..z |-> Char(s, n, k)]
Backlog       == 1                             \* zsock_listen(server_fd, 1)

Init ==
  /\ spc = "read" /\ client = NoSession /\ buf = <<>> /\ queue = <<>> /\ handled = <<>>
  /\ peer = [s \in Sessions |-> "new"]
  /\ stream = [s \in Sessions |-> <<>>]
  /\ cpc = [s \in Sessions |-> "idle"]
  /\ left = [s \in Sessions |-> <<>>]
  /\ calls = [s \in Sessions |-> 0]
  /\ replies = [s \in Sessions |-> <<>>]
  /\ got = [s \in Sessions |-> <<s, 0>>]

-----------------------------------------------------------------------------
(* The server *)

\* accept takes the oldest connection, also one whose host is gone again.
Accept ==
  /\ spc = "read"
  /\ client = NoSession
  /\ queue # <<>>
  /\ client' = Head(queue)
  /\ queue' = Tail(queue)
  /\ UNCHANGED <<spc, buf, handled, session>>

\* A character more of a line that is already full is dropped.
\* Mutated: it is not.
CollectedAll(c) == Append(buf, c)
Collected(c)    == IF Len(buf) < Room THEN Append(buf, c) ELSE buf

\* recv returns a character.
RecvChar ==
  /\ spc = "read"
  /\ client # NoSession
  /\ stream[client] # <<>>
  /\ LET c == Head(stream[client])
     IN  CASE c # Eol -> buf' = Collected(c) /\ UNCHANGED <<spc, handled>>
           [] c = Eol /\ buf = <<>> -> UNCHANGED <<spc, buf, handled>>
           [] c = Eol /\ buf # <<>> -> /\ spc' = "exec"
                                       /\ handled' = Append(handled, buf)
                                       /\ buf' = <<>>
  /\ stream' = [stream EXCEPT ![client] = Tail(@)]
  /\ UNCHANGED <<client, queue, peer, cpc, left, calls, replies, got>>

\* What a disconnect leaves of the line and of client_fd.
\* Mutated: index is not reset; client_fd is not.
IndexKept    == buf
IndexReset   == <<>>
ClientKept   == client
ClientClosed == NoSession

\* recv returns 0 or an error: the connection is closed and read to its end, or
\* the stack gave up a host that no longer acknowledges.
RecvEnd ==
  /\ spc = "read"
  /\ client # NoSession
  /\ peer[client] \in {"closed", "vanished"}
  /\ stream[client] = <<>>
  /\ client' = ClientClosed
  /\ buf' = IndexReset
  /\ UNCHANGED <<spc, queue, handled, session>>

\* main() executes the line, whatever became of the client meanwhile.
Execute ==
  /\ spc = "exec"
  /\ spc' = "reply"
  /\ UNCHANGED <<client, buf, queue, handled, session>>

\* wifi_transport_send_line to client_fd.  A closed connection answers with a
\* reset, which may discard what was still to be read from it.
Reply ==
  /\ spc = "reply"
  /\ spc' = "read"
  /\ LET text == handled[Len(handled)]
     IN  CASE peer[client] = "open" ->
                /\ replies' = [replies EXCEPT ![client] = Append(@, text[1].of)]
                /\ UNCHANGED stream
           [] peer[client] = "closed" ->
                /\ stream' \in {stream, [stream EXCEPT ![client] = <<>>]}
                /\ UNCHANGED replies
           [] peer[client] = "vanished" -> UNCHANGED <<stream, replies>>
  /\ UNCHANGED <<client, buf, queue, handled, peer, cpc, left, calls, got>>

Server == Accept \/ RecvChar \/ RecvEnd \/ Execute \/ Reply

-----------------------------------------------------------------------------
(* A session: TestbenchWifi.py *)

\* open_testbench; the connection waits in the queue.
Open(s) ==
  /\ peer[s] = "new"
  /\ Len(queue) < Backlog
  /\ peer' = [peer EXCEPT ![s] = "open"]
  /\ queue' = Append(queue, s)
  /\ UNCHANGED <<spc, client, buf, handled, stream, cpc, left, calls, replies, got>>

\* send_ztb_command begins: what was received is flushed, the line is sent.
Call(s) ==
  /\ peer[s] = "open"
  /\ cpc[s] = "idle"
  /\ calls[s] < MaxLines
  /\ calls' = [calls EXCEPT ![s] = @ + 1]
  /\ \E z \in Sizes : left' = [left EXCEPT ![s] = Append(Line(s, calls[s] + 1, z), Eol)]
  /\ replies' = [replies EXCEPT ![s] = <<>>]
  /\ cpc' = [cpc EXCEPT ![s] = "send"]
  /\ got' = [got EXCEPT ![s] = <<s, 0>>]
  /\ UNCHANGED <<server, peer, stream>>

SendChar(s) ==
  /\ peer[s] = "open"
  /\ cpc[s] = "send"
  /\ stream' = [stream EXCEPT ![s] = Append(@, Head(left[s]))]
  /\ left' = [left EXCEPT ![s] = Tail(@)]
  /\ cpc' = [cpc EXCEPT ![s] = IF Len(left[s]) = 1 THEN "wait" ELSE "send"]
  /\ UNCHANGED <<server, peer, calls, replies, got>>

\* The line has the expected prefix.
\* Mutated: any line will do.
MatchesAnything(s, answer) == TRUE
Matches(s, answer)         == answer[2] = calls[s]

\* One line of the buffer; a line with another seq is passed over.
ReadLine(s) ==
  /\ peer[s] = "open"
  /\ cpc[s] = "wait"
  /\ replies[s] # <<>>
  /\ replies' = [replies EXCEPT ![s] = Tail(@)]
  /\ IF Matches(s, Head(replies[s]))
     THEN /\ got' = [got EXCEPT ![s] = Head(replies[s])]
          /\ cpc' = [cpc EXCEPT ![s] = "idle"]
     ELSE UNCHANGED <<got, cpc>>
  /\ UNCHANGED <<server, peer, stream, left, calls>>

\* The deadline.
GiveUp(s) ==
  /\ peer[s] = "open"
  /\ cpc[s] = "wait"
  /\ cpc' = [cpc EXCEPT ![s] = "idle"]
  /\ UNCHANGED <<server, peer, stream, left, calls, replies, got>>

\* close_testbench, or the host process ends: at any time, in a line too.
\* Unread replies make it a reset, which may discard what was sent.
Close(s) ==
  /\ peer[s] = "open"
  /\ peer' = [peer EXCEPT ![s] = "closed"]
  /\ stream' \in {stream} \cup
       (IF replies[s] = <<>> THEN {} ELSE {[stream EXCEPT ![s] = <<>>]})
  /\ UNCHANGED <<server, cpc, left, calls, replies, got>>

\* The host loses power or the network: nothing is sent, not even a FIN.
Vanish(s) ==
  /\ peer[s] = "open"
  /\ peer' = [peer EXCEPT ![s] = "vanished"]
  /\ UNCHANGED <<server, stream, cpc, left, calls, replies, got>>

-----------------------------------------------------------------------------
Host(s) == Open(s) \/ Call(s) \/ SendChar(s) \/ ReadLine(s) \/ GiveUp(s) \/ Close(s)
Next    == Server \/ \E s \in Sessions : Host(s) \/ Vanish(s)

\* The server runs, and a session that was opened is closed in the end: a
\* suite closes its session in its teardown.
Spec     == Init /\ [][Next]_vars
FairSpec == Spec /\ WF_vars(Server) /\ \A s \in Sessions : WF_vars(Close(s))

-----------------------------------------------------------------------------
(* Properties *)

Commands == Sessions \X (1..MaxLines)
Chars    == {Char(c[1], c[2], k) : c \in Commands, k \in UNION {1..z : z \in Sizes}} \cup {Eol}

\* What a line of z characters becomes: the first Room of them.
Taken(s, n, z) == Line(s, n, IF z < Room THEN z ELSE Room)

\* Every variable keeps its type; buf has room for its terminator, and while a
\* line is executed and answered the client it came from is still the client.
TypeOK ==
  /\ spc \in {"read", "exec", "reply"}
  /\ client \in Sessions \cup {NoSession}
  /\ buf \in Seq(Chars) /\ Len(buf) <= Room
  /\ queue \in Seq(Sessions) /\ Len(queue) <= Backlog
  /\ handled \in Seq(Seq(Chars))
  /\ peer \in [Sessions -> {"new", "open", "closed", "vanished"}]
  /\ stream \in [Sessions -> Seq(Chars)]
  /\ cpc \in [Sessions -> {"idle", "send", "wait"}]
  /\ left \in [Sessions -> Seq(Chars)]
  /\ calls \in [Sessions -> 0..MaxLines]
  /\ replies \in [Sessions -> Seq(Commands)]
  /\ got \in [Sessions -> Sessions \X (0..MaxLines)]
  /\ spc # "read" => client # NoSession /\ handled[Len(handled)][1].of[1] = client

\* main() gets lines that were ended, each of one session, in the order that
\* session sent them and at most once: a line cut off by a disconnect does not
\* become the beginning of the next client's line (wifi_transport.c:131-137), and
\* what a line has too much is gone and not taken for another line (145-147).
WholeLines ==
  /\ \A i \in DOMAIN handled :
       \E s \in Sessions, n \in 1..MaxLines, z \in Sizes :
         n <= calls[s] /\ handled[i] = Taken(s, n, z)
  /\ \A i, j \in DOMAIN handled :
       i < j /\ handled[i][1].of[1] = handled[j][1].of[1]
         => handled[i][1].of[2] < handled[j][1].of[2]

\* Server and sessions together keep the promise of RequestReply: a line is
\* executed at most once and in order, and a call returns the answer to its own
\* line, which was executed before, although every session uses the same seqs and
\* calls time out, disconnect and leave lines behind.
Requests ==
  INSTANCE RequestReply WITH
    Clients  <- Sessions,
    Nobody   <- NoSession,
    asked    <- calls,
    waiting  <- [s \in Sessions |-> cpc[s] # "idle"],
    done     <- [i \in DOMAIN handled |-> handled[i][1].of],
    answered <- got

RequestsAnswered == Requests!Spec

\* A client that waits to be accepted is, as long as no host vanishes: the server
\* gives a client up when it closed its connection, and then takes the next one.
\* Behind one that vanished it may wait for as long as the TCP stack does.
Served ==
  \A s \in Sessions : (\E i \in DOMAIN queue : queue[i] = s)
                        ~> (client = s \/ \E t \in Sessions : peer[t] = "vanished")

=============================================================================
