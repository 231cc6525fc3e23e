----------------------------- MODULE CommandPath -----------------------------
(***************************************************************************)
(* The way of one command: a keyword of the test suites writes a line,     *)
(* main() reads and parses it, the executor calls a service, the answer is *)
(* formatted and read by the keyword, which passes or fails.  What a       *)
(* service finds is an input here, except for SPI_SEND_EXPECT: the SPI     *)
(* slave of DUT2 (spi_slave.c) is modelled, which answers every four bytes *)
(* with PONG, however many the master transfers at a time.                 *)
(*                                                                         *)
(* Deadlines and lost lines are the subject of HostLink and WifiLink; here *)
(* every line arrives, in the length its buffer keeps.                     *)
(***************************************************************************)
EXTENDS Protocol

CONSTANTS
  Calls,      \* the calls of keywords: the fields of the command line after seq
  FirstSeq,   \* the sequence number of the first one; they count up
  MaxCalls,   \* calls in a behaviour
  Answers,    \* the lines a DUT may send over UART; empty ones are skipped
  Measures,   \* what a PWM measurement may result in
  Pong,       \* tx_data of DUT2
  Noise, Nul  \* a byte that nobody sent, and the byte 0

\* A line of a keyword: a command, every field at most once, and a command whose
\* name is cut is not another one.
IsCall(c) ==
  LET With(key) == {f \in Range(c) : f.key = key}
  IN  /\ c \in Seq(Range(c))
      /\ \A f \in Range(c) : IsField(f) /\ f.key # "seq"
      /\ \A i, j \in DOMAIN c : c[i].key = c[j].key => i = j
      /\ With("cmd") # {}
      /\ \A f \in With("cmd"), n \in 0..LineRoom :
           Cut(f.val, n) \in Names => Cut(f.val, n) = f.val
      /\ \A f \in With("ch") \cup With("mode") : Len(f.val) <= NameRoom
      /\ \A f \in With("expect") : Nul \notin Range(f.val)
      /\ Field("cmd", "GPIO_EXPECT") \in Range(c) => With("val") # {}

ASSUME PathAssumption ==
  /\ MaxCalls \in Nat /\ FirstSeq \in Nat
  /\ IsText(Pong) /\ Pong # <<>>
  /\ \A c \in Calls : IsCall(c)
  /\ \A text \in Answers : IsText(text) /\ text # <<>>
  /\ \A m \in Measures : {m.freq, m.duty} \subseteq Nat

\* Answers fit, the longest of them being that to PWM_READ_WITH_TOLERANCE.
ASSUME AnswerAssumption ==
  /\ {100, TextRoom + 60} \subseteq 0..AnswerRoom
  /\ \A c \in Calls, n \in FirstSeq..(FirstSeq + MaxCalls - 1), m \in Measures :
       LET Number(key) == Digits(ValueOf(c, {key}, 0))
       IN  128 + Digits(n) + Number("frequency") + Number("duty_cycle") + Digits(m.freq)
             + Digits(m.duty) + Number("freq_tol_pct") + Number("duty_tol_pp") <= AnswerRoom

VARIABLES
  pc,         \* where the command is: "host", "line", "exec" or "answer"
  call,       \* the call of the keyword
  seq,        \* its sequence number
  done,       \* calls so far
  command,    \* main()'s command
  response,   \* main()'s response
  shown,      \* what the service found out for this call
  verdict,    \* of the last call: "pass", "fail", or "none" if no answer came
  left,       \* DUT2: bytes of its transfer still to come; 0 between two of them
  orderly,    \* history: DUT2 was ready for every transfer, none of which went
              \* beyond the end of its own
  clocked     \* history: bytes so far of DUT2's transfer, while orderly

host  == <<call, seq, done>>
board == <<command, response, shown>>
dut2  == <<left, orderly, clocked>>
vars  == <<pc, host, board, verdict, dut2>>

Nothing == [ok |-> FALSE, text |-> <<>>]

Init ==
  /\ pc = "host" /\ call = <<>> /\ seq = 0 /\ done = 0
  /\ command = Blank /\ response = NoResponse /\ shown = Nothing
  /\ verdict = "none"
  /\ left = 0 /\ orderly = TRUE /\ clocked = 0

Arg(key)   == ValueOf(call, {key}, <<>>)
Line       == <<Field("seq", seq)>> \o call

-----------------------------------------------------------------------------
(* The host sends, main() reads *)

Send(c) ==
  /\ pc = "host"
  /\ done < MaxCalls
  /\ call' = c
  /\ seq' = FirstSeq + done
  /\ done' = done + 1
  /\ shown' = Nothing
  /\ pc' = "line"
  /\ UNCHANGED <<command, response, verdict, dut2>>

\* Mutated: main()'s command is not cleared.
Uncleared == command
Cleared   == Blank

\* What the line buffer keeps.
Received(line) == Shortened(line, LineRoom)

ReadLine ==
  /\ pc = "line"
  /\ command' = Parsed(Cleared, Received(Line))
  /\ IF Usable(command') THEN pc' = "exec" /\ response' = response
     ELSE pc' = "answer" /\ response' = FailResponse(-1, "PARSE_ERROR")
  /\ UNCHANGED <<host, shown, verdict, dut2>>

-----------------------------------------------------------------------------
(* test_executor_execute *)

\* The command is executed: this is found out, and that is the response to it.
Executed(found, answer) ==
  /\ shown' = found
  /\ response' = answer
  /\ pc' = "answer"
  /\ UNCHANGED <<host, command, verdict>>

Ok(ok) == [ok |-> ok, text |-> <<>>]

\* Commands that are done or not; their errors are shorter than most.
ExecuteWrite ==
  /\ pc = "exec"
  /\ command.cmd \in {"GPIO_WRITE", "DAC_WRITE", "UART_WRITE", "SPI_WRITE"}
  /\ \E ok \in BOOLEAN : Executed(Ok(ok), PassOrFail(command.seq, ok, "FAILED"))
  /\ UNCHANGED dut2

ExecuteGpioRead ==
  /\ pc = "exec"
  /\ command.cmd = "GPIO_READ"
  /\ \/ Executed(Ok(FALSE), FailResponse(command.seq, "GPIO_READ_FAILED"))
     \/ \E val \in {0, 1} : Executed(Ok(TRUE), GpioValue(command.seq, val))
  /\ UNCHANGED dut2

\* On a channel that does not exist, actual is whatever was on the stack.
ExecuteGpioExpect ==
  /\ pc = "exec"
  /\ command.cmd = "GPIO_EXPECT"
  /\ \E known \in BOOLEAN, actual \in {0, 1} :
       LET pass == known /\ actual = command.val
       IN  Executed(Ok(pass), GpioExpected(command.seq, pass, command.val, actual))
  /\ UNCHANGED dut2

\* What an array on the stack may hold that nobody wrote to.
OnStack == {<<>>, [i \in 1..TextRoom |-> Noise], command.expect}

\* A string ends at the first 0.
Text(bytes) ==
  LET nuls == {i \in DOMAIN bytes : bytes[i] = Nul}
  IN  IF nuls = {} THEN bytes ELSE SubSeq(bytes, 1, Min(nuls) - 1)

\* What uart_read_line leaves of the line of a DUT: the rest has no room.
UartRead(line) == Text(Cut(line, TextRoom))

ExecuteUartRead ==
  /\ pc = "exec"
  /\ command.cmd = "UART_READ"
  /\ \/ Executed(Ok(FALSE), FailResponse(command.seq, "UART_READ_TIMEOUT"))
     \/ \E line \in Answers :
          Executed([ok |-> TRUE, text |-> line],
                   WithRx(OkResponse(command.seq), UartRead(line)))
  /\ UNCHANGED dut2

\* What was read must be what is expected; on an unknown channel nothing is read.
ExecuteUartSendExpect ==
  /\ pc = "exec"
  /\ command.cmd = "UART_SEND_EXPECT"
  /\ \/ \E line \in Answers :
          LET pass == UartRead(line) = command.expect
          IN  Executed([ok |-> TRUE, text |-> line],
                       WithRx(PassOrFail(command.seq, pass, "UART_MISMATCH"), UartRead(line)))
     \/ \E text \in OnStack :
          Executed(Nothing, WithRx(FailResponse(command.seq, "UART_MISMATCH"), text))
  /\ UNCHANGED dut2

ExecutePwmWrite ==
  /\ pc = "exec"
  /\ command.cmd = "PWM_WRITE"
  /\ \E ok \in BOOLEAN :
       Executed(Ok(ok), PwmWritten(command.seq, ok, command.duty_cycle, command.frequency))
  /\ UNCHANGED dut2

ExecutePwmRead ==
  /\ pc = "exec"
  /\ command.cmd = "PWM_READ_WITH_TOLERANCE"
  /\ \E ok \in BOOLEAN, m \in Measures :
       Executed(Ok(ok), PwmCompared(command, ok, m.duty, m.freq))
  /\ UNCHANGED dut2

-----------------------------------------------------------------------------
(* SPI_SEND_EXPECT and DUT2 *)

\* What DUT2 sends in a transfer: the four characters of tx_data.
\* Mutated: with the 0 at their end, as by sizeof(tx_data).
TransferWithNul == Append(Pong, Nul)
Transfer        == Pong

\* What the master clocks in: the rest of a transfer of DUT2, then noise but for
\* what DUT2 sends if it begins another transfer before byte again + 1.
Clocked(size, again, noise) ==
  [i \in 1..size |->
     IF i <= left THEN Transfer[Len(Transfer) - left + i]
     ELSE IF i \in (again + 1)..(again + Len(Transfer)) THEN Transfer[i - again]
     ELSE noise]

\* What is left of DUT2's transfer after one of size bytes by the master.
LeftAfter(size, again) ==
  IF size < left THEN left - size
  ELSE IF size = again \/ size >= again + Len(Transfer) THEN 0
  ELSE Len(Transfer) - (size - again)

\* spi_service_send_expect compares as many characters as are expected.
Begins(text, expected) == IsPrefix(expected, text)

\* How much of PONG the orderly transfers before have taken.
Sofar == IF clocked = Len(Pong) THEN 0 ELSE clocked

\* The transfer.  DUT2 prints a line between two of its own, which takes longer
\* than what is left of the master's then: it begins one more at most.
ExecuteSpiSendExpect ==
  /\ pc = "exec"
  /\ command.cmd = "SPI_SEND_EXPECT"
  /\ command.tx # <<>>
  /\ LET size == Len(command.tx)
     IN  \E again \in (IF size < left THEN {size} ELSE left..size), noise \in {Noise, Nul} :
           LET rx   == Clocked(size, again, noise)
               pass == Begins(Text(rx), command.expect)
           IN  /\ Executed([ok |-> TRUE, text |-> rx],
                           WithRx(PassOrFail(command.seq, pass, "SPI_MISMATCH"), Text(rx)))
               /\ left' = LeftAfter(size, again)
               /\ orderly' = (orderly /\ left # 0 /\ Sofar + size <= Len(Pong))
               /\ clocked' = IF orderly' THEN Sofar + size ELSE 0

\* Without tx, or when the driver fails, rx_buffer was never set.
ExecuteSpiFails ==
  /\ pc = "exec"
  /\ command.cmd = "SPI_SEND_EXPECT"
  /\ \E text \in OnStack :
       Executed(Nothing, WithRx(FailResponse(command.seq, "SPI_MISMATCH"), text))
  /\ UNCHANGED dut2

\* DUT2 begins a transfer.
Arm ==
  /\ left = 0
  /\ left' = Len(Transfer)
  /\ UNCHANGED <<pc, host, board, verdict, orderly, clocked>>

-----------------------------------------------------------------------------
(* The answer *)

\* What the keyword requires of an answer besides status=OK.  (The text that is
\* expected of UART_READ is not in the line; that comparison is left out.)
\* Mutated: nothing.
MeetsNothing(answer) == TRUE
Meets(answer) ==
  LET Of(key) == ValueOf(answer, {key}, <<>>)
  IN  CASE Arg("cmd") = "GPIO_EXPECT" -> Of("expected") = Arg("val") /\ Of("actual") = Arg("val")
        [] Arg("cmd") \in {"UART_SEND_EXPECT", "SPI_SEND_EXPECT"} -> Begins(Of("rx"), Arg("expect"))
        [] OTHER -> TRUE

\* The keyword takes a line with its seq, which has to end.
Answer ==
  /\ pc = "answer"
  /\ LET answer == Formatted(response, command.cmd)
     IN  verdict' = IF ~Ended(answer) \/ response.seq # seq THEN "none"
                    ELSE IF ValueOf(answer, {"status"}, "") = "OK" /\ Meets(answer) THEN "pass"
                    ELSE "fail"
  /\ pc' = "host"
  /\ UNCHANGED <<host, board, dut2>>

-----------------------------------------------------------------------------
Execute ==
  \/ ExecuteWrite \/ ExecuteGpioRead \/ ExecuteGpioExpect
  \/ ExecuteUartRead \/ ExecuteUartSendExpect
  \/ ExecutePwmWrite \/ ExecutePwmRead
  \/ ExecuteSpiSendExpect \/ ExecuteSpiFails

Next ==
  \/ \E c \in Calls : Send(c)
  \/ ReadLine \/ Execute \/ Answer
  \/ Arm

Spec == Init /\ [][Next]_vars

-----------------------------------------------------------------------------
(* Properties *)

\* Every variable keeps its type, and the buffers their size.
TypeOK ==
  /\ pc \in {"host", "line", "exec", "answer"}
  /\ done \in 0..MaxCalls
  /\ command.cmd \in Names \cup {"UNKNOWN"}
  /\ {Len(command.tx), Len(command.expect), Len(response.rx)} \subseteq 0..TextRoom
  /\ verdict \in {"pass", "fail", "none"}
  /\ left \in 0..Len(Transfer)
  /\ orderly \in BOOLEAN
  /\ clocked \in 0..Len(Pong)

\* The line and its texts fit their buffers.
Fits ==
  /\ LineSize(Line) <= LineRoom
  /\ \A i \in DOMAIN call : call[i].key \in {"tx", "expect"} => Len(call[i].val) <= TextRoom

\* A command that is executed is the one the keyword wrote, up to the longest
\* line of the suites' kind, and holds nothing of the one before: what the line
\* does not say has its default (main.c:119, 162-165; ztb_protocol.c:58-125).
ParsedAsWritten ==
  pc = "exec" /\ Fits =>
    \A key \in DOMAIN Blank :
      command[key] = ValueOf(Line, IF key = "ch" THEN {"ch", "mode"} ELSE {key}, Blank[key])

\* A keyword that passes is right about the DUT, also if its line was cut, and
\* about this call: not about what an earlier one left on the stack.  Of a line
\* that a DUT sends over UART it knows what fits (uart_service.c:66).  If its line
\* fits it gets an answer, and passes if the DUT did what was expected
\* (common_keywords.robot; test_executor.c:34-170; ztb_protocol.c:127-330).
Right ==
  /\ shown.ok
  /\ CASE Arg("cmd") = "SPI_SEND_EXPECT"  -> Begins(shown.text, Arg("expect"))
       [] Arg("cmd") = "UART_SEND_EXPECT" -> UartRead(shown.text) = Arg("expect")
       [] OTHER                           -> TRUE

VerdictIsTrue ==
  pc = "host" /\ done > 0 =>
    /\ verdict = "pass" => Right
    /\ Fits /\ Arg("cmd") \in Names => verdict = IF Right THEN "pass" ELSE "fail"

\* The pieces of DUT2's answer stay in step: however the master divides PONG into
\* transfers, each brings what comes next of it, over any number of answers, as
\* long as DUT2 had time to begin and no transfer goes beyond the end of an answer
\* (spi_slave.c:36-42; spi_service.c:31-39).
AnswerInStep ==
  orderly /\ shown.ok /\ Arg("cmd") = "SPI_SEND_EXPECT" =>
    shown.text = SubSeq(Pong, clocked - Len(shown.text) + 1, clocked)

=============================================================================
