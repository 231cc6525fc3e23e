------------------------------ MODULE UartLink ------------------------------
(***************************************************************************)
(* The UART between the testbench (uart_service.c) and the board that is   *)
(* wired to it: DUT1 (uart_app.c) or DUT3 (uart_echo.c).  The testbench    *)
(* sends a line, or reads one, or does both and compares.  DUT1 collects   *)
(* characters in its receive interrupt, hands a complete line to its main  *)
(* loop through command_buffer and command_ready, and answers it there;    *)
(* DUT3 echoes it from within its interrupt, and is deaf meanwhile.        *)
(*                                                                         *)
(* Both sides move one character at a time and interleave freely.  What a  *)
(* line says is left out: its characters say which request they belong to, *)
(* and so do the characters of the answer to it.                           *)
(***************************************************************************)
EXTENDS Integers, Sequences

CONSTANTS
  MaxLines,   \* how many lines the testbench sends in a behaviour
  Sizes,      \* the lengths of these lines; 0 is a frame without tx
  Room        \* RX_BUFFER_SIZE - 1, BUF_SIZE - 1: the characters kept of a line

\* command->tx holds as many characters as the DUTs do (63), so no line of the
\* testbench is longer than Room.
ASSUME UartAssumption ==
  /\ MaxLines \in Nat
  /\ Room \in Nat
  /\ Sizes \subseteq 0..Room

VARIABLES
  tpc,       \* the testbench: "idle", or what the service call does next
  op,        \* the command of the last service call
  left,      \* uart_send_line: what it has yet to send
  line,      \* uart_read_line: rx_out[0..index)
  got,       \* what the last service call returned
  reads,     \* were lines asked for since the last one was sent? 0, 1 or 2 times
  asked,     \* the lines sent so far, their size and whether the link was settled
             \* when the line was begun; the index is the request
  down, up,  \* characters sent and not yet received, from and to the testbench
  dut,       \* the board at the other end; it stays
  rx,        \* rx_buffer[0..rx_index), rx_buf[0..rx_idx)
  command,   \* command_buffer
  ready,     \* command_ready
  dpc,       \* the main loop: where in uart_app_update it is
  local,     \* local_command
  todo,      \* what DUT1 (uart_send_string) or DUT3 (uart_cb) has yet to send
  handled    \* the lines DUT1 processed or DUT3 echoed

testbench == <<tpc, op, left, line, got, reads, asked>>
isr       == <<dut, rx>>
mainloop  == <<dpc, local, todo, handled>>
handover  == <<command, ready>>
vars      == <<testbench, down, up, isr, mainloop, handover>>

-----------------------------------------------------------------------------
(* Lines *)

Eol      == [of |-> 0, at |-> 0]                          \* '\n'
Word(n, size) == [k \in 1..size |-> [of |-> n, at |-> k]]

\* The request a text is, character by character; 0 if it is not one.
RequestOf(text) ==
  LET whole == {n \in DOMAIN asked : text = Word(n, asked[n].size) /\ text # <<>>}
  IN  IF whole = {} THEN 0 ELSE CHOOSE n \in whole : TRUE

\* The answer to a request: a word of DUT1's own (PONG, ACK and ERR have more
\* than one character), or the echo of DUT3.
AnswerSize == 2
Answer(n)  == Word(n, IF dut = "DUT1" THEN AnswerSize ELSE asked[n].size)

\* What process_command sends.
\* Mutated: the line is not ended.
AnswerUnended(n) == Answer(n)
AnswerLine(n)    == Append(Answer(n), Eol)

Nothing == [done |-> FALSE, text |-> <<>>]

\* uart_service_init leaves nothing in the receiver.
ServiceInit ==
  /\ tpc = "idle" /\ op = "NONE" /\ left = <<>> /\ line = <<>>
  /\ got = Nothing /\ reads = 0 /\ asked = <<>>
  /\ up = <<>>

\* uart_app_init, and the statics of uart_echo.c, which are 0.
DutInit ==
  /\ dut \in {"DUT1", "DUT3"}
  /\ down = <<>>
  /\ rx = <<>> /\ command = <<>> /\ ready = FALSE
  /\ dpc = "check" /\ local = <<>> /\ todo = <<>> /\ handled = <<>>

Init == ServiceInit /\ DutInit

-----------------------------------------------------------------------------
(* The testbench: uart_service.c *)

\* uart_cb is in its loop of uart_poll_out.  It returns when the last character
\* is with the transmitter, which has the one before still to shift out.
Echoing == dut = "DUT3" /\ Len(todo) > 1

\* The DUT has received, handled and answered all that was sent to it.
Settled == down = <<>> /\ rx = <<>> /\ ~ready /\ dpc = "check" /\ ~Echoing

\* uart_service_write and uart_service_send_expect begin with a flush.
StartWrite(o) ==
  /\ tpc = "idle"
  /\ Len(asked) < MaxLines
  /\ tpc' = "flush"
  /\ op' = o
  /\ got' = Nothing
  /\ reads' = 0
  /\ UNCHANGED <<left, line, asked, down, up, isr, mainloop, handover>>

\* uart_service_read.
StartRead ==
  /\ tpc = "idle"
  /\ tpc' = "read"
  /\ op' = "UART_READ"
  /\ line' = <<>>
  /\ got' = Nothing
  /\ reads' = IF reads = 0 THEN 1 ELSE 2
  /\ UNCHANGED <<left, asked, down, up, isr, mainloop, handover>>

\* uart_flush_rx discards until it finds nothing, and finds nothing now.
\* Mutated: it discards nothing.
Unflushed == up
Flushed   == <<>>

\* The flush, and the line that uart_send_line is about to send.
Flush ==
  /\ tpc = "flush"
  /\ tpc' = "send"
  /\ up' = Flushed
  /\ \E size \in Sizes :
       /\ asked' = Append(asked, [size |-> size, settled |-> Settled])
       /\ left' = Append(Word(Len(asked) + 1, size), Eol)
  /\ UNCHANGED <<op, line, got, reads, down, isr, mainloop, handover>>

SendChar ==
  /\ tpc = "send"
  /\ left # <<>>
  /\ down' = Append(down, Head(left))
  /\ left' = Tail(left)
  /\ UNCHANGED <<tpc, op, line, got, reads, asked, up, isr, mainloop, handover>>

\* UART_WRITE returns without an answer; UART_SEND_EXPECT goes on to read one.
SendDone ==
  /\ tpc = "send"
  /\ left = <<>>
  /\ tpc' = IF op = "UART_WRITE" THEN "idle" ELSE "read"
  /\ line' = <<>>
  /\ reads' = IF op = "UART_WRITE" THEN 0 ELSE 1
  /\ UNCHANGED <<op, left, got, asked, down, up, isr, mainloop, handover>>

\* One turn of uart_read_line; an empty line is skipped.
ReadChar ==
  /\ tpc = "read"
  /\ up # <<>>
  /\ up' = Tail(up)
  /\ IF Head(up) = Eol
     THEN IF line = <<>> THEN UNCHANGED <<tpc, line, got>>
          ELSE /\ tpc' = "idle"
               /\ got' = [done |-> TRUE, text |-> line]
               /\ line' = line
     ELSE /\ line' = Append(line, Head(up))
          /\ UNCHANGED <<tpc, got>>
  /\ UNCHANGED <<op, left, reads, asked, down, isr, mainloop, handover>>

\* The deadline: what was read so far is gone from the wire.
ReadTimeout ==
  /\ tpc = "read"
  /\ tpc' = "idle"
  /\ got' = [done |-> FALSE, text |-> line]
  /\ UNCHANGED <<op, left, line, reads, asked, down, up, isr, mainloop, handover>>

Testbench == StartRead \/ Flush \/ SendChar \/ SendDone \/ ReadChar \/ ReadTimeout
             \/ \E o \in {"UART_WRITE", "UART_SEND_EXPECT"} : StartWrite(o)

-----------------------------------------------------------------------------
(* DUT1: uart_app.c *)

\* uart_app_update holds the interrupts off between irq_lock and irq_unlock.
\* Mutated: it does not.
NeverLocked == FALSE
Locked      == dpc \in {"copy", "clear", "wipe"}

\* What an end of line leaves in command_buffer and command_ready.
\* Mutated: an empty line counts.
HandOverEmpty ==
  IF ready THEN UNCHANGED handover ELSE command' = rx /\ ready' = TRUE
HandOver ==
  IF rx = <<>> \/ ready THEN UNCHANGED handover ELSE command' = rx /\ ready' = TRUE

\* What another character makes of rx_buffer.
\* Mutated: the last character of the buffer is not used.
CollectedShort(c) == IF Len(rx) < Room - 1 THEN Append(rx, c) ELSE <<>>
Collected(c)      == IF Len(rx) < Room THEN Append(rx, c) ELSE <<>>

\* One turn of the loop in uart_rx_callback.
RxInterrupt ==
  /\ dut = "DUT1"
  /\ ~Locked
  /\ down # <<>>
  /\ down' = Tail(down)
  /\ IF Head(down) = Eol THEN HandOver /\ rx' = <<>>
                         ELSE rx' = Collected(Head(down)) /\ UNCHANGED handover
  /\ UNCHANGED <<testbench, up, dut, mainloop>>

\* uart_app_update, statement by statement.
Check ==
  /\ dpc = "check"
  /\ ready
  /\ dpc' = "copy"
  /\ UNCHANGED <<testbench, down, up, isr, handover, local, todo, handled>>

Copy ==
  /\ dpc = "copy"
  /\ local' = command
  /\ dpc' = "clear"
  /\ UNCHANGED <<testbench, down, up, isr, handover, todo, handled>>

Clear ==
  /\ dpc = "clear"
  /\ ready' = FALSE
  /\ dpc' = "wipe"
  /\ UNCHANGED <<testbench, down, up, isr, command, local, todo, handled>>

Wipe ==
  /\ dpc = "wipe"
  /\ command' = <<>>
  /\ dpc' = "process"
  /\ UNCHANGED <<testbench, down, up, isr, ready, local, todo, handled>>

\* process_command: whatever the command is, one line is sent.
Process ==
  /\ dpc = "process"
  /\ handled' = Append(handled, local)
  /\ todo' = AnswerLine(RequestOf(local))
  /\ dpc' = "answer"
  /\ UNCHANGED <<testbench, down, up, isr, handover, local>>

AnswerChar ==
  /\ dpc = "answer"
  /\ todo # <<>>
  /\ up' = Append(up, Head(todo))
  /\ todo' = Tail(todo)
  /\ dpc' = IF todo' = <<>> THEN "check" ELSE "answer"
  /\ UNCHANGED <<testbench, down, isr, handover, local, handled>>

MainLoop == Check \/ Copy \/ Clear \/ Wipe \/ Process \/ AnswerChar

-----------------------------------------------------------------------------
(* DUT3: uart_echo.c *)

\* What an end of line makes uart_cb send: nothing if the line is empty.
Echo == IF rx = <<>> THEN <<>> ELSE rx \o <<Eol, Eol>>

\* One turn of the loop in uart_cb; what does not fit rx_buf is dropped.
EchoInterrupt ==
  /\ dut = "DUT3"
  /\ ~Echoing
  /\ down # <<>>
  /\ down' = Tail(down)
  /\ IF Head(down) = Eol
     THEN /\ rx' = <<>>
          /\ todo' = todo \o Echo
          /\ handled' = IF rx = <<>> THEN handled ELSE Append(handled, rx)
     ELSE /\ rx' = IF Len(rx) < Room THEN Append(rx, Head(down)) ELSE rx
          /\ UNCHANGED <<todo, handled>>
  /\ UNCHANGED <<testbench, up, dut, handover, dpc, local>>

EchoChar ==
  /\ dut = "DUT3"
  /\ todo # <<>>
  /\ up' = Append(up, Head(todo))
  /\ todo' = Tail(todo)
  /\ UNCHANGED <<testbench, down, isr, handover, dpc, local, handled>>

\* The receiver holds one character; the next ones that arrive while nobody
\* fetches it are lost, ends of line too.
Overrun ==
  /\ Echoing
  /\ Len(down) > 1
  /\ down' = <<Head(down)>> \o Tail(Tail(down))
  /\ UNCHANGED <<testbench, up, isr, mainloop, handover>>

-----------------------------------------------------------------------------
Dut  == RxInterrupt \/ MainLoop \/ EchoInterrupt \/ EchoChar
Next == Testbench \/ Dut \/ Overrun

\* A service call that began goes on, and the DUT runs, takes its interrupts and
\* transmits; nobody has to start a call, and none needs to time out.
Calls    == Flush \/ SendChar \/ SendDone \/ ReadChar
Spec     == Init /\ [][Next]_vars
FairSpec == /\ Spec /\ WF_vars(Calls)
            /\ WF_vars(RxInterrupt) /\ WF_vars(MainLoop)
            /\ WF_vars(EchoInterrupt) /\ WF_vars(EchoChar)

-----------------------------------------------------------------------------
(* Properties *)

Chars == [of : 0..MaxLines, at : 0..(Room + AnswerSize)]

\* Every variable keeps its type, rx_buffer has room for its terminator, and
\* command_ready says whether command_buffer holds a line.
TypeOK ==
  /\ tpc \in {"idle", "flush", "send", "read"}
  /\ op \in {"NONE", "UART_WRITE", "UART_READ", "UART_SEND_EXPECT"}
  /\ {left, line, down, up, command, local, todo} \subseteq Seq(Chars)
  /\ dut \in {"DUT1", "DUT3"}
  /\ rx \in Seq(Chars) /\ Len(rx) <= Room
  /\ got \in [done : BOOLEAN, text : Seq(Chars)]
  /\ reads \in 0..2
  /\ asked \in Seq([size : Sizes, settled : BOOLEAN]) /\ Len(asked) <= MaxLines
  /\ ready \in BOOLEAN
  /\ dpc \in {"check", "copy", "clear", "wipe", "process", "answer"}
  /\ handled \in Seq(Seq(Chars))
  /\ dpc # "wipe" => (ready <=> command # <<>>)

Last == asked[Len(asked)]

\* The DUT acts on lines that were sent, whole, in order and at most once each:
\* never on an empty or torn one, however DUT1's interrupt and main loop
\* interleave (uart_app.c:57-97, 126-145).  DUT3 does so as long as it is left
\* to finish its echo before the next line begins (uart_echo.c:28).
WholeLinesOnce ==
  dut = "DUT1" \/ (\A n \in DOMAIN asked : asked[n].settled) =>
    /\ \A i \in DOMAIN handled : RequestOf(handled[i]) # 0
    /\ \A i, j \in DOMAIN handled :
         i < j => RequestOf(handled[i]) < RequestOf(handled[j])

\* A line that a service call returns is the whole answer to the last line that
\* was sent, whatever timed out before, if the link was settled when that line
\* was begun and it is read once (uart_service.c:88-133).
AnswerIsMine ==
  got.done /\ reads = 1 /\ Last.settled => got.text = Answer(Len(asked))

\* protocol.md:106-107: the response to the text that was sent is read.
AnswerIsLast == got.done /\ op = "UART_SEND_EXPECT" => got.text = Answer(Len(asked))

\* A line begun on a settled link is acted on, up to one that fills rx_buffer,
\* whatever is sent after it.  (One begun before that may be dropped, uart_app.c:80.)
NoneUnheard ==
  \A n \in 1..MaxLines :
    (n \in DOMAIN asked /\ asked[n].size # 0 /\ asked[n].settled)
      ~> (\E i \in DOMAIN handled : RequestOf(handled[i]) = n)

\* A call that waits for the answer to such a line gets it or times out: it never
\* has to time out.
AnswersCome ==
  (op = "UART_SEND_EXPECT" /\ tpc = "read" /\ Last.size # 0 /\ Last.settled)
    ~> tpc = "idle"

=============================================================================
