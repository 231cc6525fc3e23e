------------------------------ MODULE PwmMath ------------------------------
(***************************************************************************)
(* The arithmetic that the testbench (pwm_service.c) and DUT3 (pwm_match.c *)
(* and fan_pwm.c) do on PWM signals, in unsigned integers that wrap.       *)
(* A signal is its period and its pulse in ticks; the code's tick is a     *)
(* nanosecond.  A coarser tick, with a Word that is smaller in proportion, *)
(* shows the same wrapping with smaller numbers.                           *)
(***************************************************************************)
EXTENDS Integers

CONSTANTS
  Second,    \* ticks of a second: 10^9 in the code
  Word       \* integers count modulo Word: 2^32 in the code

ASSUME PwmMathAssumption == Second \in Nat \ {0} /\ Word \in Nat \ {0}

Flat == [period |-> 0, pulse |-> 0]          \* no signal was set yet

\* Whether a signal has edges: one that is always low or high has none.
HasEdges(w) == 0 < w.pulse /\ w.pulse < w.period

Period(freq) == Second \div freq

\* period_ns * duty / 100u.
\* Mutated: divided first.
PulseDividedFirst(period, duty) == (period \div 100) * duty
Pulse(period, duty)             == ((period * duty) % Word) \div 100

Signal(freq, duty) == [period |-> Period(freq), pulse |-> Pulse(Period(freq), duty)]

\* What pwm_set makes of a signal on a timer of DUT3, which counts microseconds:
\* both times are cut to whole ones.
Microsecond == Second \div 1000000
Whole(t)    == (t \div Microsecond) * Microsecond
OnTimer(w)  == [period |-> Whole(w.period), pulse |-> Whole(w.pulse)]

\* sys_clock_hw_cycles_per_sec of the two boards, in cycles per 1000 ticks.
EspClock == 240
StmClock == 84

\* What a span of ticks is in cycles, edges being stamped without delay.
Cycles(ticks, clock) == (ticks \div 1000) * clock + ((ticks % 1000) * clock) \div 1000

NoMeasure == [ok |-> FALSE, freq |-> 0, duty |-> 0]

\* What three edges of w are computed to; the noise limit is a period of
\* maxFreq.
Measure(w, clock, maxFreq) ==
  LET hz     == (Second \div 1000) * clock
      period == Cycles(w.period, clock)
      pulse  == Cycles(w.pulse, clock)
  IN  IF /\ HasEdges(w)
         /\ period # 0 /\ period >= hz \div maxFreq
         /\ pulse # 0 /\ pulse < period
      THEN [ok |-> TRUE, freq |-> hz \div period, duty |-> ((pulse * 100) % Word) \div period]
      ELSE NoMeasure

\* udiff.
Distance(a, b) == IF a > b THEN a - b ELSE b - a

=============================================================================
