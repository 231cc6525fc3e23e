------------------------------ MODULE DacChain ------------------------------
(***************************************************************************)
(* A voltage on its way from DAC_WRITE (dac_service.c) to what the DUTs    *)
(* make of it: DUT1 raises a warning (adc_app_update), DUT3 sets the duty  *)
(* cycle of a fan (fan_pwm_update), which the testbench measures on        *)
(* PWM_IN1.  Either DAC output may be wired to the ADC.  A DAC write or an *)
(* ADC read may fail and a sample may be off by Noise.                     *)
(***************************************************************************)
EXTENDS PwmMath

CONSTANTS
  Millivolts,   \* what hosts ask for; not all of it is within the range
  Wired,        \* the DAC output wired to the ADC
  Noise,        \* in steps of the ADC
  Faults        \* may a driver call fail?

DacChannels == {"DAC_OUT1", "DAC_OUT2"}

ASSUME DacAssumption ==
  /\ Millivolts \subseteq Int
  /\ Wired \in DacChannels
  /\ Noise \in Nat
  /\ Faults \in BOOLEAN

VARIABLES
  volts,     \* what was asked for last on Wired and answered with OK
  dac,       \* the 8-bit values of the two outputs
  warning,   \* DUT1's PB5, wired to DIO_IN2
  fan,       \* the signal on DUT3's PA8
  warnOf, fanOf,   \* what was asked for when warning and fan were last set
  status     \* the status of the last DAC_WRITE

dacVars == <<volts, dac, warning, fan, warnOf, fanOf, status>>

ReferenceMv == 3300
AdcMax      == 4095
Threshold   == 1800           \* ADC_RAW_THRESHOLD

\* dac_service_init writes 0 to both outputs, adc_app_init switches the warning
\* off, fan_pwm_init leaves the fan without a signal.
DacInit    == volts = 0 /\ dac = [ch \in DacChannels |-> 0] /\ status = "NONE"
AdcInit    == warning = 0 /\ warnOf = 0
FanInit    == fan = Flat /\ fanOf = 0
BoardsInit == DacInit /\ AdcInit /\ FanInit

Clamp(mv) == IF mv < 0 THEN 0 ELSE IF mv > ReferenceMv THEN ReferenceMv ELSE mv

\* mv_to_raw_8bit.
Raw(mv) == (Clamp(mv) * 255) \div ReferenceMv

\* The samples the ADC may take of an 8-bit output.
Samples(raw) ==
  {s \in 0..AdcMax : Distance(s, (raw * AdcMax) \div 255) <= Noise}

\* dac_service_write_mv: an unknown channel or a failing driver changes nothing.
DacWrite(ch, mv) ==
  /\ \/ /\ ch \in DacChannels
        /\ dac' = [dac EXCEPT ![ch] = Raw(mv)]
        /\ volts' = IF ch = Wired THEN mv ELSE volts
        /\ status' = "OK"
     \/ /\ ch \notin DacChannels \/ Faults
        /\ UNCHANGED <<dac, volts>>
        /\ status' = "FAIL"
  /\ UNCHANGED <<warning, fan, warnOf, fanOf>>

\* adc_app_update.
\* Mutated: the comparison is the other way round.
WarnBelow(sample) == IF sample >= Threshold THEN 0 ELSE 1
Warn(sample)      == IF sample >= Threshold THEN 1 ELSE 0

AdcUpdate ==
  /\ \E sample \in Samples(dac[Wired]) : warning' = Warn(sample)
  /\ warnOf' = volts
  /\ UNCHANGED <<volts, dac, fan, fanOf, status>>

\* fan_pwm_update: full scale is 100 percent, and the signal has 1 kHz.
\* Mutated: full scale is taken for 3300, as if a sample were in millivolts.
DutyOfMillivolts(sample) == (sample * 100) \div ReferenceMv
Duty(sample)             == (sample * 100) \div AdcMax

FanUpdate ==
  /\ \E sample \in Samples(dac[Wired]) : fan' = OnTimer(Signal(1000, Duty(sample)))
  /\ fanOf' = volts
  /\ UNCHANGED <<volts, dac, warning, warnOf, status>>

DacNext ==
  \/ \E ch \in DacChannels \cup {"OTHER"}, mv \in Millivolts : DacWrite(ch, mv)
  \/ AdcUpdate \/ FanUpdate

DacSpec == BoardsInit /\ [][DacNext]_dacVars

-----------------------------------------------------------------------------
(* Properties *)

\* Once DUT1 has looked, the warning is off for what the suites call low (up to
\* 1400 mV) and on for what they call high (from 1500 mV), noise included.
WarningIsRight ==
  (warnOf <= 1400 => warning = 0) /\ (warnOf >= 1500 => warning = 1)

\* Once DUT3 has followed, the duty cycle the testbench measures is the asked
\* share of 3300 mV, but for three points at most.
FanIsRight ==
  LET m     == Measure(fan, EspClock, 20000)
      share == (Clamp(fanOf) * 100) \div ReferenceMv
  IN  m.ok => m.freq = 1000 /\ Distance(m.duty, share) <= 3

=============================================================================
