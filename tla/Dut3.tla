-------------------------------- MODULE Dut3 --------------------------------
(***************************************************************************)
(* DUT3 (dut_stm32_3/src) and the testbench commands that drive it over    *)
(* SPI.  Three threads share one processor: main initialises the modules   *)
(* and then mirrors a switch and a voltage every 10 ms; spi_cmd_thread     *)
(* (priority 4) switches an LED on a byte from the testbench;              *)
(* pwm_match_thread (priority 5) reproduces a PWM signal.  Both threads    *)
(* start with the kernel, before main, but main has priority 0 and holds   *)
(* the processor until it blocks.  Only pwm_match_thread waits for a       *)
(* semaphore that main gives after the last initialisation.                *)
(*                                                                         *)
(* A signal or a voltage is one of a few values; what the arithmetic makes *)
(* of it is the concern of PwmChain and DacChain, how edges become one     *)
(* value is PwmCapture's.                                                  *)
(***************************************************************************)
EXTENDS Naturals

CONSTANTS
  Levels,       \* the voltages at the ADC input
  Signals,      \* the PWM signals at PB4 ...
  InRange,      \* ... those that pwm_match reproduces, ...
  NoSignal,     \* ... none at all, ...
  Junk,         \* ... and what two signals make together
  Faults        \* may a device not be ready, or adc_read fail?

ASSUME Dut3Assumption ==
  /\ InRange \subseteq Signals
  /\ NoSignal \in Signals \ InRange
  /\ Junk \notin Signals
  /\ Faults \in BOOLEAN

VARIABLES
  mpc,      \* main: the module to initialise, "loop", "adc", "drive", "asleep", "ended"
  set,      \* the modules whose device pointers are set and configured
  token,    \* pwm_match_ready
  spc,      \* spi_cmd_thread: "arm", "wait", "act", or "fault"
  byte,     \* rx_buf[0]; 0 between two transfers
  led,      \* PB5
  tpc,      \* pwm_match_thread: "gate", "begin", "capture", "compute"
  seen,     \* the signal the capture began with, Junk if it changed since,
            \* NoSignal between captures
  pin, volt, sig,            \* the inputs PB0, PA0 and PB4
  sample,                    \* fan_pwm_update's buf; NoSignal outside
  mirror, fan, match         \* the outputs PB1, PA8 and PB10

main    == <<mpc, set, sample, mirror, fan>>
spi     == <<spc, byte, led>>
matcher == <<tpc, seen, match>>
inputs  == <<pin, volt, sig>>
vars    == <<main, token, spi, matcher, inputs>>

Off     == 0
Modules == {"switch", "fan", "echo", "spi", "match"}
Then    == [switch |-> "fan", fan |-> "echo", echo |-> "spi",
            spi |-> "match", match |-> "give"]            \* the order in main

Init ==
  /\ mpc = "switch" /\ set = {} /\ token = 0
  /\ spc = "arm" /\ byte = 0 /\ led = Off
  /\ tpc = "gate" /\ seen = NoSignal
  /\ pin \in {0, 1} /\ volt \in Levels /\ sig \in Signals
  /\ sample = NoSignal /\ mirror = Off /\ fan = NoSignal /\ match = NoSignal

-----------------------------------------------------------------------------
(* Scheduling: a thread runs when those above it are blocked *)

MainBlocked  == mpc \in {"asleep", "adc", "ended"}
SpiBlocked   == spc = "wait"

\* Mutated: main does not outrank the threads.
SpiMayRunAlways == TRUE
SpiMayRun       == MainBlocked
MatchMayRun     == MainBlocked /\ SpiBlocked

-----------------------------------------------------------------------------
(* main *)

\* One xxx_init; the device pointer is set, and main returns if the device is
\* not ready.
InitModule ==
  /\ mpc \in Modules
  /\ \E ok \in IF Faults THEN BOOLEAN ELSE {TRUE} :
       IF ok THEN /\ set' = set \cup {mpc}
                  /\ mpc' = Then[mpc]
             ELSE set' = set /\ mpc' = "ended"
  /\ UNCHANGED <<sample, mirror, fan, token, spi, matcher, inputs>>

GiveReady ==
  /\ mpc = "give"
  /\ token' = 1
  /\ mpc' = "loop"
  /\ UNCHANGED <<set, sample, mirror, fan, spi, matcher, inputs>>

\* switch_led_update, and fan_pwm_update up to adc_read.
SwitchUpdate ==
  /\ mpc = "loop"
  /\ mirror' = pin
  /\ sample' = volt
  /\ mpc' = "adc"
  /\ UNCHANGED <<set, fan, token, spi, matcher, inputs>>

\* adc_read returns; after a failure the update returns early.
AdcDone ==
  /\ mpc = "adc"
  /\ \/ mpc' = "drive" /\ sample' = sample
     \/ Faults /\ mpc' = "asleep" /\ sample' = NoSignal
  /\ UNCHANGED <<set, mirror, fan, token, spi, matcher, inputs>>

\* pwm_set.
\* Mutated: the output is set once only.
DriveOnce == IF fan = NoSignal THEN sample ELSE fan
Drive     == sample

FanUpdate ==
  /\ mpc = "drive"
  /\ fan' = Drive
  /\ sample' = NoSignal
  /\ mpc' = "asleep"
  /\ UNCHANGED <<set, mirror, token, spi, matcher, inputs>>

Wake ==
  /\ mpc = "asleep"
  /\ mpc' = "loop"
  /\ UNCHANGED <<set, sample, mirror, fan, token, spi, matcher, inputs>>

Main == InitModule \/ GiveReady \/ SwitchUpdate \/ AdcDone \/ FanUpdate \/ Wake

-----------------------------------------------------------------------------
(* spi_cmd_thread *)

\* With rx_buf cleared, spi_transceive is entered, which needs spi_dev.
Arm ==
  /\ SpiMayRun
  /\ spc = "arm"
  /\ spc' = IF "spi" \in set THEN "wait" ELSE "fault"
  /\ UNCHANGED <<byte, led, main, token, matcher, inputs>>

\* What may come: LED_OFF, LED_ON and, as 2, any other byte.
Bytes == 0..2

\* The transfer ends with an error, and the thread begins again.
SpiError ==
  /\ Faults
  /\ spc = "wait"
  /\ spc' = "arm"
  /\ UNCHANGED <<byte, led, main, token, matcher, inputs>>

LedFor(b) == IF b \in {0, 1} THEN b ELSE led

\* The LED is driven, and the thread begins again.
Act ==
  /\ SpiMayRun
  /\ spc = "act"
  /\ led' = LedFor(byte)
  /\ spc' = "arm"
  /\ byte' = 0
  /\ UNCHANGED <<main, token, matcher, inputs>>

SpiThread == Arm \/ Act      \* it needs no errors to go on

-----------------------------------------------------------------------------
(* pwm_match_thread *)

\* Mutated: the thread does not wait for main.
GateOpen == TRUE
Gate     == token = 1

PassGate ==
  /\ MatchMayRun
  /\ tpc = "gate"
  /\ Gate
  /\ token' = 0
  /\ tpc' = "begin"
  /\ UNCHANGED <<seen, match, main, spi, inputs>>

BeginCapture ==
  /\ MatchMayRun
  /\ tpc = "begin"
  /\ seen' = sig
  /\ tpc' = "capture"
  /\ UNCHANGED <<match, main, token, spi, inputs>>

\* Three edges came, or 500 ms passed without them.
CaptureEnds ==
  /\ tpc = "capture"
  /\ tpc' = IF seen = NoSignal THEN "begin" ELSE "compute"
  /\ UNCHANGED <<seen, match, main, token, spi, inputs>>

\* Mutated: a signal out of range is reproduced too.
ReproducibleAll == Signals \ {NoSignal}
Reproducible    == InRange

\* Edges of two signals give any value, or are refused.
SetMatch ==
  /\ MatchMayRun
  /\ tpc = "compute"
  /\ tpc' = "begin"
  /\ match' \in IF seen = Junk THEN InRange \cup {match, Junk}
                ELSE IF seen \in Reproducible THEN {seen} ELSE {match}
  /\ seen' = NoSignal
  /\ UNCHANGED <<main, token, spi, inputs>>

MatchThread == PassGate \/ BeginCapture \/ CaptureEnds \/ SetMatch

-----------------------------------------------------------------------------
(* The testbench and the wires *)

\* execute_spi_write with LED_ON or LED_OFF, or a character of SPI_SEND_EXPECT,
\* which goes out on the same wires.  The transfer succeeds for the master whether
\* or not the slave is armed; if it is not, the byte is lost.
SpiWrite(b) ==
  /\ IF spc = "wait" THEN spc' = "act" /\ byte' = b ELSE UNCHANGED <<spc, byte>>
  /\ UNCHANGED <<led, inputs, main, token, matcher>>

\* GPIO_WRITE, DAC_WRITE and PWM_WRITE change what DUT3 sees.
ChangeInput ==
  /\ \/ pin' = 1 - pin /\ UNCHANGED <<volt, sig, seen>>
     \/ volt' \in Levels \ {volt} /\ UNCHANGED <<pin, sig, seen>>
     \/ /\ sig' \in Signals \ {sig}
        /\ seen' = IF tpc = "capture" THEN Junk ELSE seen
        /\ UNCHANGED <<pin, volt>>
  /\ UNCHANGED <<main, token, spi, tpc, match>>

Next == Main \/ SpiThread \/ SpiError \/ MatchThread \/ ChangeInput
        \/ \E b \in Bytes : SpiWrite(b)

\* The threads below main run while it sleeps, and it sleeps again and again; the
\* ADC does not fail for ever.
Spec     == Init /\ [][Next]_vars
FairSpec == /\ Spec
            /\ WF_vars(Main) /\ SF_vars(AdcDone /\ mpc' = "drive")
            /\ SF_vars(SpiThread) /\ SF_vars(MatchThread)

-----------------------------------------------------------------------------
(* Properties *)

\* Every variable keeps its type.
TypeOK ==
  /\ mpc \in Modules \cup {"give", "loop", "adc", "drive", "asleep", "ended"}
  /\ set \subseteq Modules
  /\ token \in {0, 1}
  /\ spc \in {"arm", "wait", "act", "fault"}
  /\ tpc \in {"gate", "begin", "capture", "compute"}
  /\ byte \in Bytes /\ {led, pin, mirror} \subseteq {0, 1}
  /\ volt \in Levels /\ {sample, fan} \subseteq Levels \cup {NoSignal}
  /\ sig \in Signals /\ seen \in Signals \cup {Junk}
  /\ match \in InRange \cup {NoSignal, Junk}

\* pwm_match_thread uses no device before every module is initialised, also
\* when main gives up half way (main.c:9, 45; pwm_match.c:115).
MatchAfterInit == tpc # "gate" => set = Modules

\* spi_cmd_thread has no such gate, and it is main's priority alone that keeps
\* it from using spi_dev before it is set; it does not if an initialisation fails
\* and main gives up.
SpiAfterInit == spc = "fault" => mpc = "ended"

\* The outputs follow inputs that stay: the switch, the voltage and any PWM
\* signal in range, however the three threads and the host interleave, unless an
\* initialisation failed.  A command byte that finds the slave armed takes effect
\* on the LED (protocol.md:161-176); the testbench has to leave time between two
\* of them, for one that does not is lost.
OutputsFollow ==
  /\ \A p \in {0, 1}  : pin = p ~> mirror = p \/ pin # p \/ mpc = "ended"
  /\ \A v \in Levels  : volt = v ~> fan = v \/ volt # v \/ mpc = "ended"
  /\ \A s \in InRange : sig = s ~> match = s \/ sig # s \/ mpc = "ended"
  /\ \A b \in {0, 1}  : spc = "act" /\ byte = b ~> spc # "act" /\ led = b

=============================================================================
