----------------------------- MODULE GpioExpect -----------------------------
(***************************************************************************)
(* GPIO_WRITE, GPIO_READ and GPIO_EXPECT (test_executor.c, gpio_service.c) *)
(* against DUT1's main loop, which mirrors PB0 on PB1 every 10 ms          *)
(* (dut_stm32/src/main.c, dio_app.c).  DIO_OUT1 drives PB0 and DIO_IN1     *)
(* sees PB1.  Both boards sleep between two looks at their pins; a tick is *)
(* a millisecond, and it passes when nobody has anything to do.            *)
(***************************************************************************)
EXTENDS Integers

CONSTANTS
  Channels,   \* the channel names hosts use; they may have names wrong
  Timeouts,   \* the timeout fields they send, in milliseconds
  Late        \* how many ms a sleep may take longer than it was asked for

ASSUME GpioAssumption ==
  /\ Timeouts \subseteq Int
  /\ Late \in Nat

VARIABLES
  dpc, button, dwait,   \* DUT1: "mirror" or "sleep"; button_state; ms to sleep
  pb0, pb1,             \* the wires DIO_OUT1-PB0 and PB1-DIO_IN1
  tpc, twait,           \* the testbench: "idle", "poll" or "sleep"; ms to sleep
  call,                 \* the GPIO_EXPECT in progress: channel, val, timeout
  elapsed, actual,      \* gpio_service_expect: elapsed_ms; the executor's actual
  resp                  \* the last response

dut       == <<dpc, button, dwait, pb1>>
testbench == <<tpc, twait, call, elapsed, actual, resp>>
vars      == <<dut, pb0, testbench>>

\* board_map.c: the channels and their direction.
Output    == {"DIO_OUT1", "DIO_OUT2"}
Known     == Output \cup {"DIO_IN1", "DIO_IN2"}

\* What a pin may read as.  DIO_IN2 sees another output of the DUT, and a pin
\* that is configured as an output only need not read back what it drives.
Readings(ch) == IF ch = "DIO_IN1" THEN {pb1} ELSE {0, 1}

NoResp    == [status |-> "NONE", expected |-> 0, actual |-> 0]
LoopMs    == 10            \* k_msleep(10) in DUT1's main
PollMs    == 5             \* k_msleep(5) in gpio_service_expect

\* dio_app_init switches the LED off; the boards do not start together.
DioInit ==
  /\ dpc = "sleep" /\ button = 0 /\ dwait \in 0..(LoopMs + Late)
  /\ pb1 = 0

\* gpio_service_init configures every output inactive.
GpioInit ==
  /\ pb0 = 0
  /\ tpc = "idle" /\ twait = 0 /\ elapsed = 0 /\ actual = 0
  /\ call = [ch |-> "DIO_IN1", val |-> 0, timeout |-> 100]
  /\ resp = NoResp

Init == DioInit /\ GpioInit

-----------------------------------------------------------------------------
(* DUT1 *)

\* k_msleep returns, and dio_app_update reads PB0.
ReadButton ==
  /\ dpc = "sleep" /\ dwait = 0
  /\ button' = pb0
  /\ dpc' = "mirror"
  /\ UNCHANGED <<dwait, pb0, pb1, testbench>>

\* Mutated: the LED is only ever switched on.
LedLatched(state) == IF pb1 = 1 THEN 1 ELSE state
Led(state)        == state

\* It drives PB1; ADC and UART updates follow, and main sleeps.
Mirror ==
  /\ dpc = "mirror"
  /\ pb1' = Led(button)
  /\ dpc' = "sleep"
  /\ dwait' \in LoopMs..(LoopMs + Late)
  /\ UNCHANGED <<button, pb0, testbench>>

-----------------------------------------------------------------------------
(* The testbench *)

\* execute_gpio_write: only an output is driven.
GpioWrite(ch, v) ==
  /\ tpc = "idle"
  /\ pb0' = IF ch = "DIO_OUT1" THEN v ELSE pb0
  /\ resp' = [NoResp EXCEPT !.status = IF ch \in Output THEN "OK" ELSE "FAIL"]
  /\ UNCHANGED <<dut, tpc, twait, call, elapsed, actual>>

\* execute_gpio_read.
GpioRead(ch) ==
  /\ tpc = "idle"
  /\ \/ /\ ch \in Known
        /\ \E level \in Readings(ch) :
             resp' = [NoResp EXCEPT !.status = "OK", !.actual = level]
     \/ ch \notin Known /\ resp' = [NoResp EXCEPT !.status = "FAIL"]
  /\ UNCHANGED <<dut, pb0, tpc, twait, call, elapsed, actual>>

\* execute_gpio_expect begins; its local actual is not initialised.
GpioExpect(ch, v, t) ==
  /\ tpc = "idle"
  /\ tpc' = "poll"
  /\ call' = [ch |-> ch, val |-> v, timeout |-> t]
  /\ elapsed' = 0
  /\ actual' \in {0, 1}
  /\ resp' = NoResp
  /\ UNCHANGED <<dut, pb0, twait>>

\* The loop goes on.
\* Mutated: always.
TimeLeftAlways == TRUE
TimeLeft       == elapsed <= call.timeout

Answer(status) == [status |-> status, expected |-> call.val, actual |-> actual']

\* One look at the pin; an unknown channel ends the call.
Poll ==
  /\ tpc = "poll"
  /\ TimeLeft
  /\ actual' \in IF call.ch \in Known THEN Readings(call.ch) ELSE {actual}
  /\ CASE call.ch \notin Known -> tpc' = "idle" /\ resp' = Answer("FAIL") /\ twait' = twait
       [] call.ch \in Known /\ actual' = call.val ->
            tpc' = "idle" /\ resp' = Answer("OK") /\ twait' = twait
       [] call.ch \in Known /\ actual' # call.val ->
            /\ tpc' = "sleep" /\ resp' = resp
            /\ twait' \in PollMs..(PollMs + Late)
  /\ UNCHANGED <<dut, pb0, call, elapsed>>

Advanced == elapsed + PollMs

AfterSleep ==
  /\ tpc = "sleep" /\ twait = 0
  /\ elapsed' = Advanced
  /\ tpc' = "poll"
  /\ UNCHANGED <<dut, pb0, twait, call, actual, resp>>

\* The time is up.
Mismatch ==
  /\ tpc = "poll"
  /\ ~TimeLeft
  /\ tpc' = "idle"
  /\ actual' = actual
  /\ resp' = Answer("FAIL")
  /\ UNCHANGED <<dut, pb0, twait, call, elapsed>>

-----------------------------------------------------------------------------
\* A millisecond passes while DUT1 sleeps and the testbench sleeps or is idle.
Tick ==
  /\ dpc = "sleep" /\ dwait > 0
  /\ tpc = "idle" \/ (tpc = "sleep" /\ twait > 0)
  /\ dwait' = dwait - 1
  /\ twait' = IF tpc = "sleep" THEN twait - 1 ELSE twait
  /\ UNCHANGED <<dpc, button, pb0, pb1, tpc, call, elapsed, actual, resp>>

Dut1  == ReadButton \/ Mirror
Steps == Poll \/ AfterSleep \/ Mismatch
Next  == \/ Dut1 \/ Steps \/ Tick
         \/ \E ch \in Channels, v \in {0, 1} : GpioWrite(ch, v)
         \/ \E ch \in Channels : GpioRead(ch)
         \/ \E ch \in Channels, v \in {0, 1}, t \in Timeouts : GpioExpect(ch, v, t)

\* Both boards run and time passes; nobody has to call.
Spec     == Init /\ [][Next]_vars
FairSpec == Spec /\ WF_vars(Dut1) /\ WF_vars(Steps) /\ WF_vars(Tick)

-----------------------------------------------------------------------------
(* Properties *)

\* Every variable keeps its type, and while a call polls, the time it has
\* counted is no more than one turn beyond its timeout.
TypeOK ==
  /\ dpc \in {"mirror", "sleep"} /\ {button, pb0, pb1, actual} \subseteq {0, 1}
  /\ dwait \in 0..(LoopMs + Late) /\ twait \in 0..(PollMs + Late)
  /\ tpc \in {"idle", "poll", "sleep"}
  /\ call \in [ch : Channels \cup {"DIO_IN1"}, val : {0, 1}, timeout : Timeouts \cup {100}]
  /\ resp \in [status : {"NONE", "OK", "FAIL"}, expected : {0, 1}, actual : {0, 1}]
  /\ elapsed = 0 \/ elapsed \in 0..(call.timeout + PollMs)

\* A GPIO_EXPECT of the level that was written passes if it may poll for longer
\* than DUT1's loop takes, at whatever point of that loop the write came and
\* however late (Late < PollMs: by 5 ms its last look may come too early) sleeps
\* end (gpio_service.c:93-115; dut_stm32/src/main.c:27-33).
WrittenIsRead ==
  [][tpc # "idle" /\ tpc' = "idle" /\ call.ch = "DIO_IN1" /\ call.val = pb0
         /\ call.timeout >= LoopMs + PollMs
       => resp'.status = "OK"]_vars

\* Every GPIO_EXPECT is answered as well.
ExpectPasses == (tpc = "poll" ~> tpc = "idle") /\ WrittenIsRead

=============================================================================
