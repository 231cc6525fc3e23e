------------------------------ MODULE HostLink ------------------------------
(***************************************************************************)
(* The Robot Framework library TestbenchSerial.py calling the board over   *)
(* its UART: flush what was received, send a command line, read lines      *)
(* until one starts with ZTB|seq=<seq>|, or give up at the deadline.  The  *)
(* board knows nothing of deadlines: it answers late, and a later call     *)
(* may hear it.                                                            *)
(***************************************************************************)
EXTENDS Testbench

CONSTANTS
  FreshSeqs   \* does every call use a seq of its own?

ASSUME HostLinkAssumption == FreshSeqs \in BOOLEAN

VARIABLES
  phase,  \* "idle" or "waiting": inside send_ztb_command
  req,    \* the id of the line of the last call, 0 before the first
  heard,  \* how many lines of out were read or flushed
  got     \* what the last call returned; NoLine while it waits or gave up

host     == <<phase, req, heard, got>>
hostLink == <<vars, host>>

NoLine == [id |-> 0, link |-> "UART", seq |-> NoSeq, status |-> "FAIL"]

HostInit ==
  /\ Init
  /\ phase = "idle"
  /\ req = 0
  /\ heard = 0
  /\ got = NoLine

\* reset_input_buffer drops what has arrived; the rest of what the board sent
\* is still on its way.
\* Mutated: the buffer is reset after the line was written, and the answer with it.
FlushedLate == {Len(out) + 1}
Flushed     == heard..Len(out)

Call(t) ==
  /\ phase = "idle"
  /\ t.seq # NoSeq
  /\ FreshSeqs => \A i \in DOMAIN asked : asked[i].seq # t.seq
  /\ HostSend("UART", t)
  /\ phase' = "waiting"
  /\ req' = Len(asked) + 1
  /\ heard' \in Flushed
  /\ got' = NoLine

\* line.startswith(expected_prefix)
\* Mutated: any ZTB line is taken for the response.
MatchesAnything(line) == line.link = "UART"
Matches(line) == line.link = "UART" /\ line.seq = asked[req].seq

ReadLine ==
  /\ phase = "waiting"
  /\ heard < Len(out)
  /\ heard' = heard + 1
  /\ LET line == out[heard + 1]
     IN  IF Matches(line) THEN phase' = "idle" /\ got' = line
                          ELSE UNCHANGED <<phase, got>>
  /\ UNCHANGED <<vars, req>>

\* The deadline passes: send_ztb_command raises AssertionError.
GiveUp ==
  /\ phase = "waiting"
  /\ phase' = "idle"
  /\ UNCHANGED <<vars, req, heard, got>>

HostNext ==
  \/ (Board \/ PowerCut \/ \E l \in Links : MenuType(l)) /\ UNCHANGED host
  \/ \E t \in Texts : Call(t)
  \/ ReadLine
  \/ GiveUp

HostSpec     == HostInit /\ [][HostNext]_hostLink
\* The board runs, and a call reads what arrives; it need not give up.
HostFairSpec == HostSpec /\ WF_hostLink(Board /\ UNCHANGED host) /\ WF_hostLink(ReadLine)

-----------------------------------------------------------------------------
\* A line of the board as RequestReply sees it.
Answering(line) == <<IF line.id = 0 THEN "NOBODY" ELSE "HOST", line.id>>

\* Board and library together keep the promise of RequestReply, across power
\* cuts, menus and deadlines: a line is answered at most once and in order, and
\* what a call returns is the answer to the line that call sent, never that to
\* an earlier call whose deadline had passed, nor a line that answers nothing.
\* (README.md:106 says so of every call; it holds when no seq is used twice.)
Requests ==
  INSTANCE RequestReply WITH
    Clients  <- {"HOST"},
    Nobody   <- "NOBODY",
    asked    <- [c \in {"HOST"} |-> req],
    waiting  <- [c \in {"HOST"} |-> phase = "waiting"],
    done     <- [i \in DOMAIN out |-> Answering(out[i])],
    answered <- [c \in {"HOST"} |-> IF got = NoLine THEN <<c, 0>> ELSE Answering(got)]

RequestsAnswered == Requests!Spec

\* A call whose line reached a serving board undamaged does not have to wait for
\* its deadline, unless the supply is cut.
CallsReturn ==
  (/\ phase = "waiting"
   /\ pc \in Serving /\ transport = "UART"
   /\ \E i \in DOMAIN rx["UART"] : rx["UART"][i] = asked[req]
   /\ Parses(asked[req])) ~> (phase = "idle" \/ pc = "boot")
=============================================================================
