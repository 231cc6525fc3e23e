# Verification of the ZephyrHIL testbench

TLA+ models of the hardware-in-the-loop testbench in this repository, TLC runs
that check them on small instances, and TLAPS proofs of what matters most. Every
definition is translated from the C or Python it stands for; `PROJECT.json`
names the lines for each of them.

## 1. The system

```
 Robot Framework (PC)  --UART or TCP-->  ESP32 testbench  --GPIO/DAC/UART/SPI/PWM-->  DUT1, DUT2, DUT3
```

A host sends one command line, `ZTB|seq=N|cmd=...`; the testbench executes it
against its peripherals and answers with one line that repeats the seq. The
devices under test are small STM32 firmwares that react to the stimuli.

| Component | State | Operations | Interacts with |
|---|---|---|---|
| Controller, `testbench_esp32/src/main.c` | saved transport in flash, function pointers of the transport in use, the command and the response in progress | read flash, menu, transport and service start, READY, read/execute/reply, TRANSPORT_SWITCH, reboot | hosts by lines; flash; the services by calls |
| UART transport, `uart_transport.c` | hardware FIFO, index of the line | send, read a line | serial host library |
| WiFi transport, `wifi_transport.c` | server and client socket, line buffer | join, accept, receive, reply | TCP host library |
| Protocol, `ztb_protocol.c` | none | parse a line, format a response | controller |
| Executor, `test_executor.c` | none | one function per command | services |
| GPIO service, `gpio_service.c`, `board_map.c` | none beyond the pins | write, read, expect (polling) | DUT1 by wire |
| DAC service, `dac_service.c` | the outputs | write millivolts | DUT1's ADC, DUT3's ADC |
| UART service, `uart_service.c` | index of the line | flush and write, read a line, both and compare | DUT1's UART |
| PWM service, `pwm_service.c` | per input: edges, `active`, semaphore | write; capture by interrupt with a timeout; judge with tolerances | DUT3's outputs, its own interrupt |
| SPI service, `spi_service.c` | none | exchange; write one byte | DUT2, DUT3 |
| DUT1, `dut_stm32` | button, ADC warning, one line of UART buffer shared by interrupt and loop | mirror, warn, answer PING/HELLO | testbench by wire |
| DUT2, `dut_stm32_2` | where it is in its transfer of four bytes | SPI slave that always answers PONG | testbench |
| DUT3, `dut_stm32_3` | three threads, a semaphore, an LED, a capture | mirror a switch, follow a voltage, SPI command, reproduce a PWM, echo | testbench |
| Host libraries, `TestbenchSerial.py`, `TestbenchWifi.py` | the connection, the seq, a deadline | open, send a command and wait for its answer, close | controller |
| Robot suites | none | sequences of host calls | host libraries |

What is hard here, and what each component has to get right:

- *Controller.* A power cut may fall between any two of: flash is written, the
  switch is acknowledged, the board reboots. Correct: what was acknowledged is
  kept, the board serves on what flash says, and answers belong to lines.
- *Host libraries.* A call gives up and its answer arrives during the next one.
  Correct: a call returns the answer to its own line.
- *PWM capture.* The interrupt comes between any two statements of the thread,
  and the timeout races the last edge. Correct: no token and no edge of an
  earlier call, nothing changes while it is evaluated, the numbers are right.
- *UART with DUT1.* Interrupt and main loop share one buffer, and the testbench
  gives up on answers that then arrive. Correct: whole lines at most once, and
  an answer goes to its request.
- *WiFi.* One client at a time, while others wait and already send; clients
  disappear in the middle of a line. Correct: lines are whole, replies reach
  the session they belong to, whoever waits is served.
- *DUT3.* Two threads start before main has initialised anything. Correct:
  nobody uses a device that is not set, and every output follows its input. Its
  UART echo is sent inside the receive interrupt, which is deaf meanwhile.
- *One command from keyword to verdict.* Every buffer on the way cuts what does
  not fit, locals are reported that nobody set, and the SPI slave counts its own
  bytes. Correct: what is executed is what was written, and a keyword passes if
  and only if the DUT did what was expected.
- *Arithmetic.* Periods, pulses, percentages and ADC steps are integers that
  round and wrap. Correct: the suites' tolerances cover all roundings.

The full list, line by line, is under `hazards` in `PROJECT.json`.

## 2. Modules

| Module | Models | State and actions |
|---|---|---|
| `Testbench` | `main.c` with what it needs of flash, transports and parser | `pc` is the place in `main()`; an action is a stretch of code between two effects others can see: `ReadSaved`, `MenuType`/`MenuEatsFrame`/`MenuTimeout`, `SaveMenuChoice`, `InitTransport`, `ServicesInit`, `AnnounceReady`, `ReadFrame`, `Execute`, `Reply`, `SaveSwitch`, `AckSwitch`, `Reboot`; hosts, operator and supply are the environment |
| `TransportMode` | the abstract promise of transport selection: a saved mode, what is served, what was told; a board may fail to start and stay down | `Testbench` implements it under `saved <- nvs`, `told <- promise`, `serving <- ServedOn`, the link while commands are served |
| `HostLink` | `TestbenchSerial.send_ztb_command` on top of `Testbench` (EXTENDS it; composed by interleaving) | `Call`, `ReadLine`, `GiveUp`; `heard` is the position in what the board sent |
| `RequestReply` | the abstract promise of a host library with its transport and `main()`: requests, and things nobody asked for, are done at most once and in order, and a call returns the answer to its own | `HostLink` and `WifiLink` implement it: `done <-` what the lines the board sent answer (`Answering(line)`, `HostLink`) or the lines that were executed (`WifiLink`), `answered <-` what the last call returned |
| `PwmCapture` | `gpio_capture` and `capture_isr`; with `MinPeriod = 0` it is the capture of DUT3's `pwm_match.c` too | one action per statement of the thread, `Isr`, and `Tick` for the input and the 32-bit cycle counter |
| `UartLink` | `uart_service.c` with the whole of DUT1's `uart_app.c`, or DUT3's `uart_echo.c`, at the end of the wire (`dut`) | both sides character by character; DUT1's interrupt and each statement of its main loop; DUT3's interrupt with its polled echo and the overrun (`EchoInterrupt`, `EchoChar`) |
| `WifiLink` | `wifi_transport.c` with sessions of `TestbenchWifi.py`, lines that do not fit the buffer included | `Accept`, `RecvChar`, `RecvEnd`, `Execute`, `Reply`; per session `Open`, `Call`, `SendChar`, `ReadLine`, `GiveUp`, `Close`, `Vanish` |
| `Dut3` | the three threads of DUT3 with `SPI_WRITE` | `InitModule`..`Wake` of main, `Arm`/`Act`/`SpiError` of the SPI thread, `PassGate`..`SetMatch` of the matcher; who may run follows from the priorities |
| `GpioExpect` | GPIO commands with `board_map.c` against DUT1's 10 ms loop | `Poll`/`AfterSleep`/`Mismatch`, DUT1's `ReadButton`/`Mirror`, `Tick` of one millisecond |
| `Protocol` | `ztb_protocol.c`: parsing, the responses, formatting, and what buffers cut | operators only |
| `CommandPath` | keyword, line buffer, parser, `test_executor.c`, formatter, verdict; with the SPI slave of DUT2 (EXTENDS `Protocol`) | `Send`, `ReadLine`, one `Execute...` per command, `Answer`, `Arm` of DUT2 |
| `PwmMath` | the integer arithmetic of `pwm_service.c`, shared by DUT3's files, and what DUT3's timers make of a signal (`OnTimer`) | operators only |
| `PwmChain` | PWM_WRITE, `pwm_match_update`, PWM_READ_WITH_TOLERANCE one after the other (EXTENDS `PwmMath`) | `PwmWrite`, `PwmMatch`, `PwmRead` |
| `DacChain` | DAC_WRITE, DUT1's ADC warning, DUT3's fan (EXTENDS `PwmMath`) | `DacWrite`, `AdcUpdate`, `FanUpdate` |
| `MCTestbench`, `MCHostLink`, `MCCommandPath`, `MCPwmChain`, `MCDacChain` | small sets of inputs for TLC | |
| `TestbenchProofs` (with `HostLink`), `PwmCaptureProofs`, `UartLinkProofs`, `WifiLinkProofs`, `Dut3Proofs`, `GpioExpectProofs`, `ArithmeticProofs` (`PwmChain` and `DacChain`), `CommandPathProofs` | theorems about the module they extend | |

Abstractions worth knowing:

- A line in `Testbench` is a record of what the firmware can tell about it
  (`Text`): seq, kind of command, mode, and the menu entry its characters would
  select. Which lines parse is `Parses`; a line that the menu has bitten into is
  `Garbled`. Executing a service command answers OK or FAIL either way.
- `out`, `asked`, `handled`, `promise`, `copied`, `warnOf`, `fanOf`, `reads`,
  `orderly`, `clocked` and an edge's `call` are history: no action reads them to decide what the code does.
- In `Protocol` a line is the sequence of its fields, each with the length it has
  in characters: buffers cut a line at the character they do in the code, inside
  a number, a text or a key. Numbers have no sign but in `seq=-1`.
- In `CommandPath` what a service finds out is an input (the other modules are
  about that), and every line arrives. DUT2 counts the bytes of its own transfer
  of four; it can begin another one within a transfer of the master's, once. An
  array on the stack that nobody wrote to holds nothing, noise, or by chance
  just what is expected.
- In `UartLink` and `WifiLink` a character says which request it belongs to and
  where in it it stands, so that torn, merged, lost or repeated lines can be told
  apart. `TestbenchWifi.py:54` ends a line with two end characters and `WifiLink`
  with one: the second finds an empty buffer and is skipped (`wifi_transport.c:140`).
- `uart_read_line` keeps 63 characters of a line and drops the rest, and
  `uart_service_send_expect` compares what was kept (`UartRead`). A longer line
  passes when its first 63 characters are what is expected, and VerdictIsTrue speaks
  of those. Neither DUT1 (PONG, ACK, ERR) nor DUT3 (an echo of what fits `tx`)
  sends one, but another DUT may, see 5.
- In `PwmChain` the timers of DUT3 count microseconds
  (`boards/blackpill_f401cc.overlay:19`, `:29`), so that `pwm_set` cuts period and
  pulse to whole ones (`OnTimer`): 9901 Hz leaves as 10 kHz. The LED controller of
  the testbench may make the period up to half a percent short and take up to 5 parts
  in 10000 of it from the pulse (`Ledc`, `Errors`); this is an assumption about the
  chip, not in `src/`. The boards' clocks run alike and edges are stamped without
  delay.
- In `GpioExpect` reads of a pin do not fail (`gpio_service.c:78`, `dio_app.c:43`),
  which the GPIO drivers of these chips never report: a GPIO_EXPECT whose read failed
  would be answered with FAIL, and DUT1 would mirror a turn later.
- An edge interrupt may be late by up to `Latency`, and edges that come while it
  is pending are lost in it, which is how the hardware behaves.
- `Dut3` takes "main has priority 0 and blocks in `k_msleep` and `adc_read`" and
  "the slave's `spi_transceive` blocks until a byte or an error" from Zephyr; the
  interrupt of its PWM matcher is like that of `PwmCapture`.
- A value the code never set (`actual` in `execute_gpio_expect`) is any value.

## 3. Runs

`tlc -config <cfg> <module>`; each takes between some seconds and about two minutes.

| Run | Module, cfg | Properties | Bounds |
|---|---|---|---|
| `tb_safety` | MCTestbench, MCTestbenchSafety | TypeOK, PromiseKept, FlashDecides, RepliesAreAnswers, OnlyItsOwnLinkSwitches, SwitchTakesEffect, ModeKept | 3 lines out of 6 kinds, 1 power cut; WiFi, sockets and drivers may fail |
| `host_calls` | MCHostLink, MCHostLink | RequestsAnswered, CallsReturn, BootServes | 3 calls with a seq each, 1 power cut, flash may fail |
| `pwm_capture` | PwmCapture, MCPwmCapture | TypeOK, NoStaleToken, FreshEdges, Frozen, Accurate, CaptureSucceeds | period 6, high 4, latency 1, counter modulo 9 |
| `uart_link` | UartLink, UartLink | TypeOK, WholeLinesOnce, AnswerIsMine, NoneUnheard, AnswersCome | DUT1 or DUT3; 3 lines of 0 to 2 characters, a buffer for 2 |
| `wifi_link` | WifiLink, WifiLink | TypeOK, WholeLines, RequestsAnswered, Served | 2 sessions of 2 calls, lines of 1 or 3 characters, room for 2 |
| `command_path` | MCCommandPath, CommandPath | TypeOK, ParsedAsWritten, VerdictIsTrue, AnswerInStep | the code's buffers (127, 159, 63, 23 characters); 3 calls out of 19, DUT lines of 4, 6, 63 and 64 characters, seqs 9997 to 9999 |
| `dut3` | Dut3, Dut3 | TypeOK, MatchAfterInit, SpiAfterInit, OutputsFollow | 2 voltages; no signal, one in range, one out of range; any device may fail |
| `gpio_expect` | GpioExpect, GpioExpect | TypeOK, ExpectPasses | real periods (10 and 5 ms), sleeps up to 4 ms late, timeouts 0, 5, 15 |
| `pwm_chain` | MCPwmChain, MCPwmExact | PulseIsRight, TwoPointsSuffice | the code's nanoseconds and clocks; 6 frequencies up to 9900 Hz, 8 duty cycles, 3 tolerances, 3 errors of the LED controller |
| `dac_chain` | MCDacChain, MCDacChain | WarningIsRight, FanIsRight | 8 voltages, samples off by up to 16 steps, failing drivers |
| `pwm_slow` | MCPwmChain, MCPwmSlow | PulseIsRight is *violated* | 1 to 50 Hz |
| `uart_late_answer` | UartLink, UartLate | AnswerIsLast is *violated* | 2 lines of 2 characters |

What they show:

- `tb_safety`: no power cut, failed start or menu undoes an acknowledged switch;
  the saved transport changes only by a command that came over it; answers are
  in order and at most once, although the menu may have eaten part of a line.
  An acknowledged switch is served on in the end or the board is down, and the
  mode register of `TransportMode` is implemented together with its fairness.
- `host_calls`: as long as no seq is used twice, calls are those of
  `RequestReply`: a late answer is never taken for the answer to a later call;
  and flash that fails never keeps the board down.
- `pwm_capture`: the ordering of `edge_count`, `active`, `k_sem_reset`, the
  interrupt's configuration and `k_sem_take` leaves no window.
- `uart_link`: the hand-over in DUT1 neither tears, merges nor repeats lines; a
  line begun when DUT1 has settled is heard and its answer is the one returned,
  time-outs of earlier calls notwithstanding. Settled means that DUT1 has
  received, handled and answered all that was sent: the flush disposes of the rest.
  DUT3 loses characters while it echoes, but only of a testbench that did not
  wait for the echo.
- `wifi_link`: late replies stay in their session although each session counts
  from 1 (again the calls of `RequestReply`), a half line is not glued to the next
  client's, and what did not fit the buffer never becomes a line of its own.
- `command_path`: the suites' longest line fits with four digits of seq; a cut
  line, a cut or unset text and an SPI slave that is out of step never make a
  keyword pass wrongly, and no keyword fails when the DUT did as expected and
  the line fits. Short SPI transfers get DUT2's answer in pieces, in order, over
  as many answers as there are.
- `dut3`: that `spi_cmd_thread` needs no gate rests on main's priority; with a
  failed initialisation the thread behind the semaphore never runs, but
  `spi_cmd_thread` does reach `spi_transceive` with a device that is not set,
  after main has ended (SpiAfterInit says exactly this).
- `gpio_expect`: 15 ms of timeout are enough against the 10 ms loop at any phase,
  as long as a sleep is late by less than a polling period; with `Late` = 5 TLC
  finds a pause in which the last poll of the testbench comes too early.
- `pwm_chain`, `dac_chain`: the roundings on the way cost at most what the suites
  allow. The default of 2 percent and 2 points is needed: the timer of DUT3 alone
  may cost one percent of the frequency and a point of duty cycle.

**Bounds.** In `command_path` the buffers have the sizes of the code and the calls
lie on both sides of each limit; two calls are enough for one to see what another
left, three for an SPI transfer, a shifted one and one back in step. Two lines
and one time-out are enough for a late answer, three for what happens after it; one power cut can fall at every place, and after a reboot
the board's state differs only in flash. `Room` = 2 gives empty, filling and full
buffers. In `pwm_capture` the counter wraps inside two captures out of three, the high
and the low time differ, `Latency` is as long as it may be and `MinPeriod` is
below the period; calls are told apart modulo 3, which is enough to tell a call
from the one before. TLC's integers have 32 bits with sign, so `PwmChain` counts
products of nanoseconds modulo 2^31 - 1 where the code has 2^32; every product of
the frequencies in `MCPwmExact` is below both, so the values are the code's own.
`MCPwmSlow` takes microseconds and 2^32 / 1000 instead, so that the same
frequencies wrap.

**Deadlock.** `CHECK_DEADLOCK FALSE` stands where behaviours end by design: the
number of lines, calls or sessions is bounded, a board without its access point
halts, a thread in a fault stays there. `pwm_capture` runs for ever and is
checked for deadlock.

**Fairness.** `WF(Board)`: `main` is the only thread of the testbench; in
`TransportMode` this is weak fairness of starting or failing to.
`WF(ReadLine)`: a waiting call reads. Giving up, calling, typing and power cuts
are never fair: nothing relies on a time-out. In `PwmCapture` thread, interrupt
and clock are weakly fair, but for the time-out of `k_sem_take`. In `UartLink`
the service call in progress, the interrupt and the main loop are, with DUT3
its interrupt and the echo in it (`EchoInterrupt`, `EchoChar`). In `WifiLink`
the server is, and sessions are closed because the suites' teardown closes them
(`Suite Teardown`); the property exempts hosts that vanish. In `Dut3` the lower
threads need strong fairness, since main interrupts their turn again and again
but sleeps 10 ms each time; and neither `adc_read` nor `spi_transceive` fails for ever. In
`GpioExpect` both boards run and time passes.

## 4. Proofs

`tlapm <module>` checks them. They hold for all values of the constants that
satisfy the named assumptions (`TestbenchAssumption`, `PwmAssumption`, ...): any
number of lines, calls, sessions and power cuts, any buffer size. What a theorem
assumes beyond that stands in its `ASSUME` and is listed here with the reason why
the code, or how it is used, justifies it. Every invariant below was first run by
TLC on the configuration of its module.

**TestbenchProofs** (controller, then serial library).
`TypeCorrect` needs to know that a choice was made before it is saved and that a
switch in progress names a transport (`Locals`).
`RepliesInOrder` (RepliesAreAnswers) follows from `RInv`: the ids of the lines
that wait on a link grow (`Queued`), the line in progress is the last one that was
taken and unanswered until the reply (`InHand`), so that every later answer has a
larger id; a line that the menu has bitten into is still that line (`IsLine`).
`SwitchIsKept` (PromiseKept), `FlashIsObeyed` (FlashDecides) and `LockIn`
(OnlyItsOwnLinkSwitches) follow from `KInv`. PromiseKept alone is not inductive: a
boot in progress, a menu and the gap between write and acknowledgement have to be
tied to flash (`Kept`: past the boot flash is mounted, the menu is open only while
flash is empty, `chosen` is flash's value, an unacknowledged switch is promised to
nobody and already in flash), and lines have to stay on the link they came by
(`OnItsLink`). `ModeRefined` shows that initial states and steps map to
`TransportMode`, a start that fails to its `Fail`. These four assume
`~FlashFaults`, see 5.
`CallsGetTheirAnswers` shows that `HostLink` implements `RequestReply` step by
step, with every step of the board that the host does not see a stutter. The
invariant is `HInv`: `RInv`, and (`Calls`) one line per call and a seq that tells
which. It assumes `FreshSeqs`: no seq is used twice, which is what the libraries
do and suites 04 and 05 do not, see 5.

**PwmCaptureProofs.** `CaptureTyped`, `TokenIsFresh`, `EdgesAreFresh` and
`EdgesAreFrozen` for any input, latency and counter width. NoStaleToken is not
inductive: `HandOver` adds that edges are empty until the capture is armed, that
it is armed only from `Activate` to `Close`, and that a token, given or taken,
means three edges and a capture that is disarmed. `CaptureIsAccurate` (Accurate):
each edge in the buffer is stamped at most `Latency` after the edge of the input,
and one to three of them are consecutive edges (`OneEdge`, `TwoEdges`,
`ThreeEdges`, each relative to where input and counter are now, so that wrapping
does not matter). It assumes `ShortLatency`, an interrupt that is served
before the next edge; the code has no protection when it is not, and with
`Latency` = 2 TLC finds the property violated.

**UartLinkProofs.** `TypeCorrect`, `HandledInOrder` (WholeLinesOnce) and
`MineIsRead` (AnswerIsMine), without any assumption beyond the module's, for DUT1
and DUT3. Neither property is inductive. The last character that DUT1's
interrupt collected, what is on the wire, and what the testbench still has to send
form one text (`Down`): whole lines in the order of their requests, the first of
them possibly begun (`Lines`, `Ordered`, `Follows`). The invariant is `InStream`
(what was collected is the beginning of the line that goes on in `Down`),
`OneLine` (a line begun on a settled link is the only one under way) and `InOrder`
(what was handled came before what the main loop processes, that before what was
handed over in `command`, and that before `Down`, each of them a whole line). For
the answers `Reading` says it of the opposite direction (`Up`): after a line
begun on a settled link, all that can still arrive is the answer to it, whole or
the rest of it.

**WifiLinkProofs.** `TypeCorrect`, `LinesAreWhole` (WholeLines) and
`CallsGetTheirAnswers` (WifiLink implements `RequestReply`) for any number of
sessions and lines of any length. The invariant `WInv`: the buffer is a prefix of
one line of the current client (`Collecting`), followed by the rest of it at the
head of that client's stream (`Arriving`, `Rest`); a session's stream holds whole
lines newer than what was handled, but for the one it is sending (`Sending`); and
the replies of a session answer its calls one by one (`Answered`). No seq appears in
it, which is why equal seqs in different sessions do no harm.

**Dut3Proofs.** `Dut3Typed`, `MatchWaits` (MatchAfterInit) and `SpiWaits`
(SpiAfterInit): devices are set in the order in which main initialises modules
(`SetInOrder`), and a token of the gate, or a matcher behind it, means that all of
them were (`GateKept`).

**GpioExpectProofs.** `TypeCorrect` and `WrittenLevelIsRead`: a GPIO_EXPECT of a
level that is steady on the wire passes if its timeout covers a period of DUT1's
loop and one of its own. This is the safety half of ExpectPasses, which is
liveness and stays with TLC. The invariant is a race: DUT1 mirrors the level at
most one turn of its loop after the call began (`InTime`), and the call polls once
more after that (`LooksAgain`). It assumes `NotTooLate`, `Late < PollMs`: a
`k_msleep` comes back before the next polling period is over.

**ArithmeticProofs.** `PulseHolds` (PulseIsRight) for any tick and width of integers
if the hundredfold of each period fits (`PeriodsFit`), which in the code means
24 Hz and more; the run `pwm_slow` shows it is needed. `CopiesPass`
(TwoPointsSuffice) for every frequency up to 9900 Hz that fits, every duty cycle
from 2 to 99 and any two tolerances of at least two percent and two points whose
product with the largest frequency does not wrap (`Sensible`; the suites use 2 to
10). The invariant is what DUT3 reproduces (`CopyIsMatched`), for any error of the
LED controller that is `Precise`, half a percent of the period and 5 parts in 10000
for the pulse. The arithmetic goes station by station: a measurement loses less than one
point of duty cycle and never gains (`DutyBounds`), the frequency comes out at most a little
too high, and whole microseconds cost at most one part in a hundred of a period, which is
a hundred of them or more. Above 9900 Hz an LED controller that is fast may leave what
`pwm_match.c:100` reproduces. `Nanoseconds` says the tick is the code's.
`WarningHolds` (WarningIsRight) and `FanHolds` (FanIsRight) for every voltage. They
assume `QuietEnough`, a noise of at most 46 ADC steps (37 mV), beyond which 1500 mV
may read as less than the threshold, and `FanHolds` the code's `Nanoseconds` and
integers that hold a hundred million (`Wide`), the product of the fan's period of
10^6 ns and its duty cycle; the code's have 32 bits.

**CommandPathProofs.** `TypeCorrect`, `ParsedRight` (ParsedAsWritten), `VerdictRight`
(VerdictIsTrue) and `InStep` (AnswerInStep), for any calls, seqs, sizes of buffers,
answers, measurements and contents of the stack, and any transfer of DUT2.

- *The parser.* `Taken(seq, call)` is what `main()` makes of a line: cut to the line
  buffer, then parsed. `TakenIs` holds for every line, cut or not: a command that
  can be used is the one the keyword named, and its texts fit their arrays and begin
  as the keyword's do. `TakenWhole` holds for a line that fits: the command has
  exactly the values that were written, and defaults for the rest. Both rest on
  `StagesAre` (the command after each field) and `EndsAre`, `Whole`, `Short` (where
  the fields of a line end, and which of them a cut leaves).
- *The invariant* `Inv` ties the three stages of a command together. VerdictIsTrue
  speaks of the host between two calls only, and is not inductive. `Current` adds
  that the command in progress is the one of this call and nothing is known of it
  before it is executed; `Outcome` what the response says of what the service found:
  OK only if it was done, the text that was read in place of whatever was on the
  stack, and the PARSE_ERROR with seq -1 for a command that cannot be used.
- *The answer.* `AnswerFits`: the answer to a line that fits also fits, whichever
  command it is to (`FrameFields`, `FramedSize` give its fields and size). `RightGiven`
  and `PassGiven` are the two halves of the verdict: what passes is right, even if the
  line, the texts or the answer's text were cut; and what is right passes.
- *The answer of DUT2.* AnswerInStep is not inductive: what a transfer brings depends
  on how much of PONG earlier ones left. `Phase` ties the two ends of the wire: while
  no transfer went beyond the end of an answer, what DUT2 has left of its own transfer
  and what the master has taken of it make up one answer, or both are between two.

They assume what the module does. `IsCall` is what the keywords of
`common_keywords.robot` write: a command, no key twice, values that suit their keys,
`val` with GPIO_EXPECT, no byte 0 in an expected text, channel names that fit, and a
command whose name, if the buffer cuts it, is not another one (cutting
UART_SEND_EXPECT never leaves UART_READ). `AnswerAssumption` says
RESPONSE_BUF_SIZE holds the longest answers: 159 characters against the 123 a text of
63 needs, and 128 and the numbers in that to PWM_READ_WITH_TOLERANCE.
`LengthAssumption` gives the lengths of the keys, states and errors of answers, which
are unknown values to the provers. TLC evaluates all three.

That a recursive function has its values at every stage of a line is an induction
over its fields. The library's induction theorems take operators; the lemmas
`Induction` and `Recursion` say the same of sets and functions, and follow from the
well-foundedness of < on the naturals.

**Only model-checked** is all liveness and fairness (SwitchTakesEffect, ModeKept's
fairness, CallsReturn, BootServes, CaptureSucceeds, NoneUnheard, AnswersCome, Served,
OutputsFollow, ExpectPasses): ENABLED is out of the provers' reach.

## 5. Where code and documentation differ

Two of them are runs: `pwm_slow` (`pwm_service.c:97` wraps below 24 Hz, against
`docs/esp32_testbench_capabilities.md:21`) and `uart_late_answer`
(`uart_service.c:97` flushes once, and the answer to an earlier request, a UART_WRITE
or a call that timed out, that arrives later is taken for the new one, against `docs/protocol.md:106-107`). The others were met
while modelling; the models contain the behaviour of the code:

- `main.c:51` ignores the result of `nvs_write`, so a switch may be acknowledged
  and lost; `README.md:354` says it is stored. PromiseKept is therefore checked
  and proved for flash that does not fail; with `FlashFaults = TRUE` it is violated.
- `main.c:158` sends READY over WiFi before a client was accepted, so nobody
  hears what `README.md:371-375` shows.
- `main.c:165` answers a line it cannot parse with seq -1, also when the line had
  a seq; `README.md:106` says it is matched. RepliesAreAnswers allows for it.
- `main.c:73`: the menu takes the first 1 or 2 of a command line for a choice
  (`MenuEatsFrame`); `README.md:365` speaks of typing.
- `TestbenchSerial.py:126` matches by seq, and suites 04 and 05 use seqs again;
  RequestsAnswered holds with fresh seqs only.
- `uart_app.c:80` drops a line that ends while another one waits; NoneUnheard
  speaks of lines begun on a settled link.
- `spi_service.c:74` reports success for a byte that finds the slave of DUT3 not
  armed; OutputsFollow speaks of bytes that its `spi_transceive` returned.
- `uart_service.c:66` drops what does not fit 63 characters before
  `uart_service.c:132` compares: a longer answer with the expected beginning passes,
  where `docs/protocol.md:106-107` compares the response.
- `test_executor.c:37`: GPIO_EXPECT of an unknown channel reports a local that
  was never set, and UART_SEND_EXPECT and SPI_SEND_EXPECT that fail copy an
  array that was never set (`test_executor.c:92`, `:143`); VerdictIsTrue shows
  that no keyword passes on them.
- `common_keywords.robot:50-54` sends PWM_READ, which `ztb_protocol.c:8-56` does
  not know: the answer has seq -1, and that keyword can only time out.
- `ztb_protocol.c:60`: an omitted tolerance is 0, where `docs/protocol.md:144-145`
  says 2.
- `DUT3_FIRMWARE.md:17` and `:86` give `spi_cmd_thread` priority 2, `main.c:11`
  of DUT3 gives it 4; and `pwm_match.c:100` has no lower limit of 20 Hz
  (`DUT3_FIRMWARE.md:117`).

## 6. Not modelled

- Joining the WiFi network is one step that may fail; sockets are TCP streams.
- Opening and closing the serial port; the text a UART_READ is compared with,
  which is not in the line.
- `ztb_make_pwm_read_response` and `spi_service_write`, which nothing calls.
- `scripts/` each send one TRANSPORT_SWITCH, a line `Testbench` has.
- Device tree overlays, Kconfig, build files, documentation and recordings have
  no behaviour; of the overlays, the prescaler of DUT3's timers is in `PwmMath`. The
  robot suites are sequences of calls; their time-outs and
  tolerances are inputs of the models.

## 7. Plan

Order of work: the controller and its transport selection first, since every
test depends on it; then the races (capture, UART, WiFi, DUT3); then arithmetic;
then the command path with its buffers, DUT2 and the echo, and `RequestReply`;
then the proofs of section 4. What has behaviour is modelled; every invariant and
action property of the runs, and the steps of every refinement, are theorems. What
is left to TLC is liveness.

New questions go into the run of their module where the same state space
answers them.
