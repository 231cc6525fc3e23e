------------------------------ MODULE PwmChain ------------------------------
(***************************************************************************)
(* A PWM signal on its way through the testbench and DUT3: PWM_WRITE sets  *)
(* it on PWM_OUT1 (pwm_service_write), DUT3 measures it and reproduces it  *)
(* (pwm_match_update), PWM_READ_WITH_TOLERANCE measures the copy on        *)
(* PWM_IN2 and judges it (pwm_service_read_with_tolerance).  The code      *)
(* rounds to whole hertz and percent, the timer of DUT3 to microseconds    *)
(* and the LED controller of the testbench to fractions of its clock.  How *)
(* the edges are captured is PwmCapture's concern; here they are stamped   *)
(* without delay, by clocks that run alike.                                *)
(***************************************************************************)
EXTENDS PwmMath

CONSTANTS
  Freqs, Duties,   \* what hosts ask for; not all of it is accepted
  Tolerances,      \* the tolerance fields of a read; Omitted if it has none
  Errors           \* of the LED controller: how much shorter it makes the
                   \* period, and how much of the period it takes from the
                   \* pulse, both in parts of 10000

Omitted == <<-1, -1>>

ASSUME PwmChainAssumption ==
  /\ Freqs \subseteq Int /\ Duties \subseteq Int
  /\ Tolerances \subseteq (Nat \X Nat) \cup {Omitted}
  /\ Errors \subseteq Nat \X Nat

VARIABLES
  asked,    \* the last PWM_WRITE that was answered with OK: freq and duty
  wave,     \* the signal pwm_set was given for PWM_OUT1
  copy,     \* the signal on PB10, wired to PWM_IN2
  copied,   \* what was asked when DUT3 last measured
  report    \* the last response: its status and what was measured

vars == <<asked, wave, copy, copied, report>>

Nobody   == [freq |-> 0, duty |-> 0]
NoReport == [status |-> "NONE", freq |-> 0, duty |-> 0]

Init == asked = Nobody /\ wave = Flat /\ copy = Flat /\ copied = Nobody /\ report = NoReport

-----------------------------------------------------------------------------
MaxFreq == 100000

\* pwm_service_write: a negative number is a large one.
Accepts(f, d) == f \in 1..MaxFreq /\ d \in 0..100

\* The device may not be ready and pwm_set may fail, which changes nothing.
PwmWrite(f, d) ==
  /\ \/ /\ Accepts(f, d)
        /\ asked' = [freq |-> f, duty |-> d] /\ wave' = Signal(f, d)
        /\ report' = [NoReport EXCEPT !.status = "OK"]
     \/ /\ UNCHANGED <<asked, wave>>
        /\ report' = [NoReport EXCEPT !.status = "FAIL"]
  /\ UNCHANGED <<copy, copied>>

\* What the LED controller makes of a signal: its divider is cut to a fraction,
\* so that the period is a little short, and the pulse to a part of the period.
Ledc(w, error) ==
  LET short(t) == (t * error[1]) \div 10000
  IN  [period |-> w.period - short(w.period),
       pulse  |-> w.pulse - short(w.pulse) - (w.period * error[2]) \div 10000]

\* The frequencies pwm_match_update reproduces.
Matched == 1..10000

\* pwm_match_update: nothing is set if the capture fails or is out of range.  It
\* may time out, and pwm_set fail.
PwmMatch ==
  \/ \E error \in Errors :
       LET m == Measure(Ledc(wave, error), StmClock, Second)
       IN  /\ copied' = asked
           /\ copy' = IF m.ok /\ m.freq \in Matched THEN OnTimer(Signal(m.freq, m.duty)) ELSE copy
           /\ UNCHANGED <<asked, wave, report>>
  \/ UNCHANGED vars

\* ztb_parse_frame: a field that is not there is 0.
Parsed(tol) == IF tol = Omitted THEN <<0, 0>> ELSE tol

\* The two comparisons of pwm_service_read_with_tolerance.
\* Mutated: the duty cycle has to be closer than the tolerance.
WithinStrict(m, f, d, tol) ==
  /\ (Distance(m.freq, f) * 100) % Word <= (f * tol[1]) % Word
  /\ Distance(m.duty, d) < tol[2]
Within(m, f, d, tol) ==
  /\ (Distance(m.freq, f) * 100) % Word <= (f * tol[1]) % Word
  /\ Distance(m.duty, d) <= tol[2]

\* The host reads what it has asked for.
PwmRead(tol) ==
  LET m    == Measure(copy, EspClock, 20000)
      pass == m.ok /\ Within(m, asked.freq, asked.duty, Parsed(tol))
  IN  /\ asked # Nobody
      /\ report' = [status |-> IF pass THEN "OK" ELSE "FAIL",
                    freq |-> m.freq, duty |-> m.duty]
      /\ UNCHANGED <<asked, wave, copy, copied>>

Next == \/ \E f \in Freqs, d \in Duties : PwmWrite(f, d)
        \/ PwmMatch
        \/ \E tol \in Tolerances : PwmRead(tol)

Spec == Init /\ [][Next]_vars

-----------------------------------------------------------------------------
(* Properties *)

\* The signal on PWM_OUT1 has the duty cycle that was asked for, to a
\* hundredth of a tick of pulse for each percent (esp32_testbench_capabilities.md:21:
\* 1Hz-100kHz).
PulseIsRight ==
  asked # Nobody =>
    Distance(wave.period * asked.duty, 100 * wave.pulse) < 100

\* The frequencies that are Matched even if the LED controller is a little fast.
Low == 1..9900

\* DUT3 reproduces signals of at least 2 percent and less than 100.
Copied == copied = asked /\ asked.freq \in Low /\ asked.duty \in 2..99

\* Once DUT3 has followed, a read with the tolerances of the test suites passes, 2
\* percent and 2 points at least (common_keywords.robot:57): what the code, the LED
\* controller and the timer of DUT3 (pwm_match.c:106) cut off costs no more.
TwoPointsSuffice ==
  [][\A tol \in Tolerances \ {Omitted} : PwmRead(tol) /\ Copied =>
       /\ report'.status = "OK"
       /\ report'.duty \in (asked.duty - 2)..asked.duty]_vars

=============================================================================
