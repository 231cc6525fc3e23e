---------------------------- MODULE RequestReply ----------------------------
(***************************************************************************)
(* What a host library promises together with a transport and main(): a    *)
(* client makes one request after the other, and each is done at most      *)
(* once, in the order it was made, sooner, later or never.  A call returns *)
(* when its own request was done, or gives up; what it gave up may still   *)
(* be done.                                                                *)
(***************************************************************************)
EXTENDS Naturals, Sequences

CONSTANTS
  Clients,
  Nobody     \* none of them: who asked for what was done without a request

VARIABLES
  asked,     \* per client: how many requests it has made
  waiting,   \* per client: does a call wait for an answer?
  done,      \* what was done, oldest first: requests, and things nobody asked for
  answered   \* per client: the request whose answer its last call returned; 0
             \* while that call waits, or if it gave up

requestVars == <<asked, waiting, done, answered>>

Init ==
  /\ asked = [c \in Clients |-> 0]
  /\ waiting = [c \in Clients |-> FALSE]
  /\ done = <<>>
  /\ answered = [c \in Clients |-> <<c, 0>>]

Ask(c) ==
  /\ ~waiting[c]
  /\ asked' = [asked EXCEPT ![c] = @ + 1]
  /\ waiting' = [waiting EXCEPT ![c] = TRUE]
  /\ answered' = [answered EXCEPT ![c] = <<c, 0>>]
  /\ UNCHANGED done

Do(c, n) ==
  /\ n <= asked[c]
  /\ \A i \in DOMAIN done : done[i][1] = c => done[i][2] < n
  /\ done' = Append(done, <<c, n>>)
  /\ UNCHANGED <<asked, waiting, answered>>

DoUnasked ==
  /\ done' = Append(done, <<Nobody, 0>>)
  /\ UNCHANGED <<asked, waiting, answered>>

Return(c) ==
  /\ waiting[c]
  /\ \E i \in DOMAIN done : done[i] = <<c, asked[c]>>
  /\ answered' = [answered EXCEPT ![c] = <<c, asked[c]>>]
  /\ waiting' = [waiting EXCEPT ![c] = FALSE]
  /\ UNCHANGED <<asked, done>>

GiveUp(c) ==
  /\ waiting[c]
  /\ waiting' = [waiting EXCEPT ![c] = FALSE]
  /\ UNCHANGED <<asked, done, answered>>

Next ==
  \/ \E c \in Clients :
       \/ Ask(c) \/ Return(c) \/ GiveUp(c)
       \/ \E n \in 1..asked[c] : Do(c, n)
  \/ DoUnasked

Spec == Init /\ [][Next]_requestVars
=============================================================================
