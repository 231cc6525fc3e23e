------------------------------ MODULE Testbench ------------------------------
(***************************************************************************)
(* The ESP32 controller of the testbench (testbench_esp32/src/main.c):     *)
(* it reads the transport saved in flash, or asks for one in a menu and    *)
(* saves it, brings that transport and the five peripheral services up,    *)
(* announces READY and then serves one command line at a time.  The        *)
(* command TRANSPORT_SWITCH saves another transport and reboots.           *)
(*                                                                         *)
(* The firmware is one thread: pc says where it is, one action per         *)
(* stretch of code between two effects that flash, a host or a power cut   *)
(* can see.  Everything else (hosts that send, operators who type, power   *)
(* cuts) interleaves with it freely.                                       *)
(***************************************************************************)
EXTENDS Integers, Sequences

CONSTANTS
  Texts,         \* the command lines a host may send (see Text)
  MaxFrames,     \* how many command lines are sent in a behaviour
  MaxPowerCuts,  \* how many times the supply is cut
  FlashFaults,   \* may flash_area_open, nvs_mount or nvs_write fail?
  WifiFaults,    \* may the access point be missing, or a socket send fail?
  DriverFaults   \* may a peripheral service fail to initialise?

Links == {"UART", "WIFI"}
None  == "NONE"                \* TRANSPORT_NONE, and "no link yet"
NoSeq == -1                    \* ztb_parse_frame's default for seq

(***************************************************************************)
(* What the firmware can tell about a command line.  seq and cmd are what  *)
(* ztb_parse_frame extracts (NoSeq and "UNKNOWN" when it finds nothing     *)
(* usable), mode is the ch/mode field of TRANSPORT_SWITCH ("OTHER": not a  *)
(* transport), and key is the menu entry that the first '1' or '2' among   *)
(* the characters of the line would select if the menu were to read it.    *)
(***************************************************************************)
Text == [seq  : Nat \cup {NoSeq},
         cmd  : {"SERVICE", "TRANSPORT_SWITCH", "UNKNOWN"},
         mode : Links \cup {"OTHER"},
         key  : Links \cup {None}]

ASSUME TestbenchAssumption ==
  /\ Texts \subseteq Text
  /\ MaxFrames \in Nat
  /\ MaxPowerCuts \in Nat
  /\ FlashFaults \in BOOLEAN
  /\ WifiFaults \in BOOLEAN
  /\ DriverFaults \in BOOLEAN

VARIABLES
  nvs,        \* the value under NVS_TRANSPORT_KEY; survives every reset
  pc,         \* where main() is
  mounted,    \* nvs_mount succeeded in this boot
  chosen,     \* main()'s local: the transport to bring up
  transport,  \* the pair transport_send/transport_read; None before it is set
  client,     \* wifi_transport.c: client_fd >= 0
  rx,         \* per link, the lines that arrived and were not yet read
  cmd,        \* the line being handled
  resp,       \* the response being built
  out,        \* every line a host could hear, oldest first
  asked,      \* every line the hosts sent, oldest first; its index is its id
  cuts,       \* power cuts so far
  promise     \* the last transport whose switch was acknowledged with OK

ram    == <<pc, mounted, chosen, transport, client, rx, cmd, resp>>
vars   == <<nvs, ram, out, asked, cuts, promise>>

NoFrame == [id |-> 0, link |-> None, seq |-> NoSeq, cmd |-> "UNKNOWN",
            mode |-> "OTHER", key |-> None]
NoResp  == [seq |-> NoSeq, status |-> "FAIL"]

-----------------------------------------------------------------------------
(* Fallible calls *)

\* The outcomes of a call that may fail: TRUE is success.
Outcomes(faulty) == IF faulty THEN BOOLEAN ELSE {TRUE}

\* What flash may hold after nvs_write_transport(v): its result is ignored,
\* and on a file system that is not mounted nvs_write does nothing.
Written(v) == IF mounted THEN {IF ok THEN v ELSE nvs : ok \in Outcomes(FlashFaults)}
                         ELSE {nvs}

-----------------------------------------------------------------------------
(* Lines *)

\* ztb_parse_frame's verdict: a seq that is not negative and a known command.
Parses(f) == f.seq >= 0 /\ f.cmd # "UNKNOWN"

\* A line that lost its beginning no longer starts with ZTB.
Garbled(f) == [f EXCEPT !.seq = NoSeq, !.cmd = "UNKNOWN", !.mode = "OTHER",
                        !.key = None]

\* transport_send: over WiFi a line goes nowhere without a client, and the
\* result of zsock_send is ignored.  id 0 marks a line that answers nothing.
Send(id, seq, status) ==
  LET line == [id |-> id, link |-> transport, seq |-> seq, status |-> status]
  IN  CASE transport = "UART"             -> out' = Append(out, line)
        [] transport = "WIFI" /\ ~client  -> out' = out
        [] transport = "WIFI" /\ client   ->
             \E ok \in Outcomes(WifiFaults) : out' = IF ok THEN Append(out, line) ELSE out

-----------------------------------------------------------------------------
(* Reset: RAM, UART FIFOs and sockets are gone, flash stays *)

Powered ==
  /\ pc = "boot"
  /\ mounted = FALSE
  /\ chosen = None
  /\ transport = None
  /\ client = FALSE
  /\ rx = [l \in Links |-> <<>>]
  /\ cmd = NoFrame
  /\ resp = NoResp

Reset ==
  /\ pc' = "boot"
  /\ mounted' = FALSE
  /\ chosen' = None
  /\ transport' = None
  /\ client' = FALSE
  /\ rx' = [l \in Links |-> <<>>]
  /\ cmd' = NoFrame
  /\ resp' = NoResp

Init ==
  /\ nvs \in Links \cup {None}
  /\ Powered
  /\ out = <<>>
  /\ asked = <<>>
  /\ cuts = 0
  /\ promise = None

-----------------------------------------------------------------------------
(* Boot *)

\* main.c:126: the values of NVS_TRANSPORT_KEY that need no menu.
\* Mutated: the test for TRANSPORT_WIFI is missing.
NeedsNoMenuUartOnly(saved) == saved = "UART"
NeedsNoMenu(saved) == saved \in Links

\* Where main() goes when flash does not say what to do.
\* Mutated: it gives up.
WithoutSavedHalts == "halted"
WithoutSaved == "menu"

\* nvs_read_transport and the choice that follows.
ReadSaved ==
  /\ pc = "boot"
  /\ \E ok \in Outcomes(FlashFaults) :
       /\ mounted' = ok
       /\ IF ok /\ NeedsNoMenu(nvs)
          THEN pc' = "transport" /\ chosen' = nvs
          ELSE pc' = WithoutSaved /\ chosen' = chosen
  /\ UNCHANGED <<nvs, transport, client, rx, cmd, resp, out, asked, cuts, promise>>

\* uart_menu returns l.
Pick(l) ==
  /\ pc = "menu"
  /\ pc' = "save"
  /\ chosen' = l
  /\ UNCHANGED <<nvs, mounted, transport, client, cmd, resp, out, asked, cuts, promise>>

\* The operator types 1 or 2 and nothing else is queued before it.
MenuType(l) ==
  /\ rx["UART"] = <<>>
  /\ Pick(l)
  /\ UNCHANGED rx

\* The menu polls single characters, so it also consumes a host's command
\* line: its first '1' or '2' is a choice, and what follows it stays queued.
MenuEatsFrame ==
  /\ pc = "menu"
  /\ rx["UART"] # <<>>
  /\ LET f == Head(rx["UART"])
     IN  IF f.key \in Links
         THEN /\ Pick(f.key)
              /\ \E rest \in {<<>>, <<Garbled(f)>>} :
                   rx' = [rx EXCEPT !["UART"] = rest \o Tail(@)]
         ELSE /\ rx' = [rx EXCEPT !["UART"] = Tail(@)]
              /\ UNCHANGED <<pc, chosen>>
              /\ UNCHANGED <<nvs, mounted, transport, client, cmd, resp, out, asked,
                             cuts, promise>>

\* What uart_menu returns when nobody chose.
\* Mutated: it returns TRANSPORT_NONE.
MenuDefaultMissing == None
MenuDefault == "UART"

\* Five seconds without a choice; the deadline may fall inside a line.
MenuTimeout ==
  /\ Pick(MenuDefault)
  /\ \/ UNCHANGED rx
     \/ /\ rx["UART"] # <<>>
        /\ rx' = [rx EXCEPT !["UART"] = <<Garbled(Head(@))>> \o Tail(@)]

\* The choice, the default of the timeout included, is saved.
SaveMenuChoice ==
  /\ pc = "save"
  /\ nvs' \in Written(chosen)
  /\ pc' = "transport"
  /\ UNCHANGED <<mounted, chosen, transport, client, rx, cmd, resp, out, asked, cuts, promise>>

\* main.c:144-147: without WiFi main returns and the board halts.
\* Mutated: it falls back to UART, or to the menu.
WifiInitFailsToUart == pc' = "services" /\ transport' = "UART"
WifiInitFailsToMenu == pc' = "menu" /\ transport' = transport
WifiInitFails       == pc' = "halted" /\ transport' = transport

\* wifi_transport_init may fail or time out, at the request, the lease or the socket.
InitTransport ==
  /\ pc = "transport"
  /\ \E ok \in Outcomes(WifiFaults /\ chosen = "WIFI") :
       IF ok THEN pc' = "services" /\ transport' = chosen
             ELSE WifiInitFails
  /\ UNCHANGED <<nvs, mounted, chosen, client, rx, cmd, resp, out, asked, cuts, promise>>

\* GPIO, DAC, UART, PWM, SPI in this order; the first failure is reported and halts.
ServicesInit ==
  /\ pc = "services"
  /\ \E ok \in Outcomes(DriverFaults) :
       IF ok THEN pc' = "ready" /\ out' = out
             ELSE pc' = "halted" /\ Send(0, NoSeq, "FAIL")
  /\ UNCHANGED <<nvs, mounted, chosen, transport, client, rx, cmd, resp, asked, cuts, promise>>

AnnounceReady ==
  /\ pc = "ready"
  /\ pc' = "read"
  /\ Send(0, NoSeq, "READY")
  /\ UNCHANGED <<nvs, mounted, chosen, transport, client, rx, cmd, resp, asked, cuts, promise>>

-----------------------------------------------------------------------------
(* The command loop *)

\* transport_read and ztb_parse_frame.  Over WiFi the read accepts the client.
ReadFrame ==
  /\ pc = "read"
  /\ rx[transport] # <<>>
  /\ LET f == Head(rx[transport])
     IN  /\ cmd' = f
         /\ CASE ~Parses(f) ->
                   pc' = "reply" /\ resp' = [seq |-> NoSeq, status |-> "FAIL"]
              [] Parses(f) /\ f.cmd = "SERVICE" ->
                   pc' = "exec" /\ resp' = resp
              [] Parses(f) /\ f.cmd = "TRANSPORT_SWITCH" /\ f.mode \notin Links ->
                   pc' = "reply" /\ resp' = [seq |-> f.seq, status |-> "FAIL"]
              [] Parses(f) /\ f.cmd = "TRANSPORT_SWITCH" /\ f.mode \in Links ->
                   pc' = "switch" /\ resp' = resp
  /\ rx' = [rx EXCEPT ![transport] = Tail(@)]
  /\ client' = (transport = "WIFI")
  /\ UNCHANGED <<nvs, mounted, chosen, transport, out, asked, cuts, promise>>

\* test_executor_execute: whatever the command does, one response with its seq.
Execute ==
  /\ pc = "exec"
  /\ \E status \in {"OK", "FAIL"} : resp' = [seq |-> cmd.seq, status |-> status]
  /\ pc' = "reply"
  /\ UNCHANGED <<nvs, mounted, chosen, transport, client, rx, cmd, out, asked, cuts, promise>>

Reply ==
  /\ pc = "reply"
  /\ Send(cmd.id, resp.seq, resp.status)
  /\ pc' = "read"
  /\ UNCHANGED <<nvs, mounted, chosen, transport, client, rx, cmd, resp, asked, cuts, promise>>

SaveSwitch ==
  /\ pc = "switch"
  /\ nvs' \in Written(cmd.mode)
  /\ pc' = "ack"
  /\ promise' = None
  /\ UNCHANGED <<mounted, chosen, transport, client, rx, cmd, resp, out, asked, cuts>>

\* What follows the acknowledgement (main.c:181-182).
\* Mutated: nothing, or the reply at the end of the loop as well.
AfterAckRead  == "read"
AfterAckReply == "reply"
AfterAck      == "reboot"

AckSwitch ==
  /\ pc = "ack"
  /\ Send(cmd.id, cmd.seq, "OK")
  /\ pc' = AfterAck
  /\ promise' = cmd.mode
  /\ UNCHANGED <<nvs, mounted, chosen, transport, client, rx, cmd, resp, asked, cuts>>

Reboot ==
  /\ pc = "reboot"
  /\ Reset
  /\ UNCHANGED <<nvs, out, asked, cuts, promise>>

-----------------------------------------------------------------------------
(* The environment *)

\* A host sends a line.  The WiFi link exists once the server listens.
HostSend(l, t) ==
  /\ Len(asked) < MaxFrames
  /\ l = "WIFI" => transport = "WIFI"
  /\ LET f == [id |-> Len(asked) + 1, link |-> l, seq |-> t.seq, cmd |-> t.cmd,
               mode |-> t.mode, key |-> t.key]
     IN  /\ asked' = Append(asked, f)
         /\ rx' = [rx EXCEPT ![l] = Append(@, f)]
  /\ UNCHANGED <<nvs, pc, mounted, chosen, transport, client, cmd, resp, out, cuts, promise>>

\* The supply is cut and restored, at any moment.
PowerCut ==
  /\ cuts < MaxPowerCuts
  /\ cuts' = cuts + 1
  /\ Reset
  /\ UNCHANGED <<nvs, out, asked, promise>>

-----------------------------------------------------------------------------
Board ==
  \/ ReadSaved \/ MenuEatsFrame \/ MenuTimeout \/ SaveMenuChoice
  \/ InitTransport \/ ServicesInit \/ AnnounceReady
  \/ ReadFrame \/ Execute \/ Reply
  \/ SaveSwitch \/ AckSwitch \/ Reboot

Environment ==
  \/ \E l \in Links : MenuType(l)
  \/ \E l \in Links, t \in Texts : HostSend(l, t)
  \/ PowerCut

Next == Board \/ Environment

Spec     == Init /\ [][Next]_vars
FairSpec == Spec /\ WF_vars(Board)     \* the thread runs whenever it can

-----------------------------------------------------------------------------
(* Properties *)

PCs == {"boot", "menu", "save", "transport", "services", "ready", "read", "exec",
        "reply", "switch", "ack", "reboot", "halted"}

\* Where main() has a working transport and has not yet saved another one.
Serving == {"services", "ready", "read", "exec", "reply", "switch"}

FrameType ==
  [id : Nat, link : Links \cup {None}, seq : Nat \cup {NoSeq},
   cmd : {"SERVICE", "TRANSPORT_SWITCH", "UNKNOWN"},
   mode : Links \cup {"OTHER"}, key : Links \cup {None}]

LineType ==
  [id : Nat, link : Links, seq : Nat \cup {NoSeq}, status : {"OK", "FAIL", "READY"}]

\* Every variable keeps its type, and from services_init on the function
\* pointers transport_send and transport_read are set.
TypeOK ==
  /\ nvs \in Links \cup {None}
  /\ pc \in PCs
  /\ mounted \in BOOLEAN
  /\ chosen \in Links \cup {None}
  /\ transport \in Links \cup {None}
  /\ client \in BOOLEAN
  /\ rx \in [Links -> Seq(FrameType)]
  /\ cmd \in FrameType
  /\ resp \in [seq : Nat \cup {NoSeq}, status : {"OK", "FAIL"}]
  /\ out \in Seq(LineType)
  /\ asked \in Seq(FrameType)
  /\ cuts \in 0..MaxPowerCuts
  /\ promise \in Links \cup {None}
  /\ pc \in Serving \cup {"ack", "reboot"} => transport \in Links

\* Once a switch was answered with OK, flash holds that transport until another
\* switch is saved, and every boot that gets to serve commands serves on it:
\* no power cut, menu or failed start in between undoes it (main.c:49, 126, 176).
PromiseKept ==
  promise # None =>
    /\ nvs = promise
    /\ pc \in Serving => transport = promise

\* What the board serves on is what flash says, also after a menu choice, so that
\* the next boot comes back on the same transport (main.c:137-152).
FlashDecides == pc \in Serving => transport = nvs

\* A saved transport is left only by a switch command that arrived over that
\* transport, however the boots in between ended: there is no other way back.
OnlyItsOwnLinkSwitches ==
  [][nvs # None /\ nvs' # nvs => /\ pc = "switch"
                                 /\ cmd.link = nvs
                                 /\ cmd.mode = nvs']_vars

\* The replies a host may hear answer lines it sent, on the link it used, in
\* the order it sent them and at most once each; only an unusable line is
\* answered with seq -1, and then with FAIL (main.c:161-192).
RepliesAreAnswers ==
  /\ \A i \in DOMAIN out : out[i].id # 0 =>
       /\ out[i].id \in DOMAIN asked
       /\ out[i].link = asked[out[i].id].link
       /\ \/ out[i].seq = asked[out[i].id].seq
          \/ out[i].seq = NoSeq /\ out[i].status = "FAIL"
  /\ \A i, j \in DOMAIN out :
       i < j /\ out[i].id # 0 /\ out[j].id # 0 => out[i].id < out[j].id

\* An acknowledged switch takes effect: the board comes back serving on it,
\* unless another switch was saved meanwhile, or the transport or a peripheral
\* cannot be brought up.
SwitchTakesEffect ==
  \A l \in Links :
    promise = l ~> (pc = "read" /\ transport = l) \/ promise # l \/ pc = "halted"

\* Every boot ends in the command loop when the access point and the
\* peripherals are there, whatever flash does.
BootServes == pc = "boot" ~> pc = "read"

\* What the board serves commands on: nothing before it is through services_init.
ServedOn == IF pc = "halted" THEN "halted"
            ELSE IF pc \in Serving \ {"services"} THEN transport ELSE None

\* All of this is a mode register that survives power cuts (TransportMode), its
\* fairness included.
Mode == INSTANCE TransportMode
          WITH saved <- nvs, told <- promise, Down <- "halted",
               serving <- ServedOn

ModeKept == Mode!ModeSpec

=============================================================================
