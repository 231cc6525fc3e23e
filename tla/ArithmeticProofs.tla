-------------------------- MODULE ArithmeticProofs --------------------------
(***************************************************************************)
(* The two chains of conversions, for integers of any width.               *)
(*                                                                         *)
(* PwmChain: PWM_WRITE sets the pulse it was asked for, as long as nobody  *)
(* asks for a period whose hundredfold does not fit: with the code's       *)
(* nanoseconds and 32 bits, for every frequency from 24 Hz on.  Below, the *)
(* product wraps (run pwm_slow).  With the same frequencies, and the       *)
(* suites' tolerances, a read of what DUT3 reproduces passes.              *)
(*                                                                         *)
(* DacChain: for every voltage, either wiring and any driver fault, the    *)
(* warning of DUT1 is right while a sample is off by at most 46 steps of   *)
(* the ADC (37 mV; 1500 mV is then still above the threshold), and so is   *)
(* the fan of DUT3 with the code's nanoseconds.                            *)
(***************************************************************************)
EXTENDS PwmChain, DacChain, TLAPS

\* No accepted frequency has a period whose hundredfold does not fit.
PeriodsFit == \A f \in Freqs \cap (1..MaxFreq) : Period(f) * 100 < Word

\* A quotient by 100 is off by less than 100 from the dividend.
LEMMA Hundredth ==
  ASSUME NEW n \in Nat
  PROVE  /\ n \div 100 \in Nat
         /\ 100 * (n \div 100) <= n
         /\ n < 100 * (n \div 100) + 100
  BY SMT

\* What is smaller than the modulus is its own remainder.
LEMMA Remainder ==
  ASSUME NEW n \in Nat, NEW k \in Nat, n < k
  PROVE  n % k = n
  BY SMT

\* A product grows with its factors.
LEMMA ProductMonotone ==
  ASSUME NEW p \in Nat, NEW d \in 0..100
  PROVE  p * d \in Nat /\ p * d <= p * 100
<1>1. p * d \in Nat  BY SMT
<1>2. p * 100 = p * d + p * (100 - d)  BY SMT
<1>3. p * (100 - d) \in Nat
  <2>1. 100 - d \in Nat  BY SMT
  <2> QED BY <2>1, SMT
<1> QED BY <1>1, <1>2, <1>3, SMT

\* A pulse that does not wrap (pwm_service.c:97) is right.
LEMMA PulseExact ==
  ASSUME NEW p \in Nat, NEW d \in 0..100, p * 100 < Word
  PROVE  Distance(p * d, 100 * Pulse(p, d)) < 100
<1>1. p * d \in Nat /\ p * d <= p * 100
  BY ProductMonotone
<1>2. Word \in Nat /\ p * d < Word
  BY <1>1, PwmMathAssumption, SMT
<1>3. (p * d) % Word = p * d
  BY <1>1, <1>2, Remainder
<1>4. Pulse(p, d) = (p * d) \div 100
  BY <1>3 DEF Pulse
<1>5. ASSUME NEW n \in Nat
      PROVE  Distance(n, 100 * (n \div 100)) < 100
  BY Hundredth, SMT DEF Distance
<1> QED BY <1>1, <1>4, <1>5

\* What pwm_set is given for PWM_OUT1 is computed from what was asked for.
WaveIsAsked ==
  asked # Nobody => /\ asked.freq \in Freqs \cap (1..MaxFreq)
                    /\ asked.duty \in 0..100
                    /\ wave = Signal(asked.freq, asked.duty)

LEMMA WaveInit == Init => WaveIsAsked
  BY DEF Init, WaveIsAsked

LEMMA WaveStep ==
  ASSUME WaveIsAsked, [Next]_vars
  PROVE  WaveIsAsked'
<1>1. ASSUME NEW f \in Freqs, NEW d \in Duties, PwmWrite(f, d)
      PROVE  WaveIsAsked'
  <2>1. CASE Accepts(f, d) /\ asked' = [freq |-> f, duty |-> d] /\ wave' = Signal(f, d)
    <3>1. f \in Freqs \cap (1..MaxFreq) /\ d \in 0..100
      BY <2>1 DEF Accepts
    <3> QED BY <2>1, <3>1 DEF WaveIsAsked, Signal
  <2>2. CASE UNCHANGED <<asked, wave>>
    BY <2>2 DEF WaveIsAsked, Signal, Nobody
  <2> QED BY <1>1, <2>1, <2>2, Zenon DEF PwmWrite
<1>2. CASE PwmMatch
  <2>1. UNCHANGED <<asked, wave>>
    BY <1>2, Zenon DEF PwmMatch, vars
  <2> QED BY <2>1 DEF WaveIsAsked, Signal, Nobody
<1>3. ASSUME NEW tol \in Tolerances, PwmRead(tol)
      PROVE  WaveIsAsked'
  BY <1>3 DEF PwmRead, WaveIsAsked, Signal
<1>4. CASE UNCHANGED vars
  BY <1>4 DEF vars, WaveIsAsked, Signal
<1> QED BY <1>1, <1>2, <1>3, <1>4 DEF Next

LEMMA PeriodNat ==
  ASSUME NEW f \in 1..MaxFreq
  PROVE  Period(f) \in Nat
<1>1. ASSUME NEW s \in Nat, NEW k \in Nat, k > 0
      PROVE  s \div k \in Nat
  BY <1>1, SMT
<1>2. Second \in Nat /\ f \in Nat /\ f > 0
  BY PwmMathAssumption, SMT
<1> QED BY <1>1, <1>2 DEF Period

LEMMA WaveRight ==
  ASSUME PeriodsFit, WaveIsAsked
  PROVE  PulseIsRight
<1> SUFFICES ASSUME asked # Nobody
             PROVE  Distance(wave.period * asked.duty, 100 * wave.pulse) < 100
  BY DEF PulseIsRight
<1>1. /\ asked.freq \in Freqs \cap (1..MaxFreq)
      /\ asked.duty \in 0..100
      /\ wave = Signal(asked.freq, asked.duty)
  BY DEF WaveIsAsked
<1>2. /\ wave.period = Period(asked.freq)
      /\ wave.pulse = Pulse(wave.period, asked.duty)
  BY <1>1 DEF Signal
<1>3. wave.period \in Nat
  BY <1>1, <1>2, PeriodNat
<1>4. wave.period * 100 < Word
  BY <1>1, <1>2 DEF PeriodsFit
<1> QED BY <1>1, <1>2, <1>3, <1>4, PulseExact, SMTT(30)

\* PWM_WRITE sets the pulse it was asked for (pwm_service_write), if the
\* hundredfold of every period that is asked for fits the integers.
THEOREM PulseHolds ==
  ASSUME PeriodsFit
  PROVE  Spec => []PulseIsRight
<1>1. Init => WaveIsAsked
  BY WaveInit
<1>2. WaveIsAsked /\ [Next]_vars => WaveIsAsked'
  BY WaveStep
<1>3. WaveIsAsked => PulseIsRight
  BY WaveRight
<1> QED BY <1>1, <1>2, <1>3, PTL DEF Spec

-----------------------------------------------------------------------------
(* Two points suffice *)

\* The code's tick is a nanosecond.
Nanoseconds == Second = 1000000000

\* Hosts that give tolerances leave room for the roundings, and do not make the
\* product of pwm_service_read_with_tolerance wrap.
Sensible == \A tol \in Tolerances \ {Omitted} :
              tol[1] >= 2 /\ tol[2] >= 2 /\ MaxFreq * tol[1] < Word

LEMMA ProductOrder ==
  ASSUME NEW k \in Nat, NEW a \in Nat, NEW b \in Nat, a <= b
  PROVE  k * a \in Nat /\ k * a <= k * b
<1>1. k * a \in Nat  BY SMT
<1>2. PICK c \in Nat : b = a + c
  <2>1. b - a \in Nat /\ b = a + (b - a)  BY SMT
  <2> QED BY <2>1
<1>3. k * b = k * a + k * c /\ k * c \in Nat  BY <1>2, SMT
<1> QED BY <1>1, <1>3, SMT

LEMMA ScaleOrder ==
  ASSUME NEW k \in Nat, NEW a \in Nat, NEW b \in Nat, a <= b
  PROVE  a * k <= b * k
<1>1. k * a <= k * b  BY ProductOrder
<1>2. k * a = a * k /\ k * b = b * k  BY SMT
<1> QED BY <1>1, <1>2

LEMMA Quotient ==
  ASSUME NEW n \in Nat, NEW k \in Nat, k > 0
  PROVE  /\ n \div k \in Nat
         /\ k * (n \div k) <= n
         /\ n < k * (n \div k) + k
  BY SMT

\* What lies between two multiples has its quotient between the factors.
LEMMA QuotientBetween ==
  ASSUME NEW n \in Nat, NEW k \in Nat, k > 0, NEW a \in Nat, NEW b \in Nat,
         k * a <= n, n < k * b
  PROVE  n \div k \in Nat /\ a <= n \div k /\ n \div k < b
<1> DEFINE q == n \div k
<1>1. q \in Nat /\ k * q <= n /\ n < k * q + k
  BY Quotient
<1> HIDE DEF q
<1>2. k * (q + 1) = k * q + k
  BY <1>1, SMT
<1>3. a <= q
  <2> SUFFICES ASSUME q + 1 <= a PROVE FALSE
    BY <1>1, SMT
  <2>1. q + 1 \in Nat  BY <1>1, SMT
  <2>2. k * (q + 1) <= k * a  BY <2>1, ProductOrder
  <2>3. k * (q + 1) \in Nat /\ k * a \in Nat  BY <2>1, SMT
  <2> QED BY <1>1, <1>2, <2>2, <2>3, SMT
<1>4. q < b
  <2> SUFFICES ASSUME b <= q PROVE FALSE
    BY <1>1, SMT
  <2>1. k * b <= k * q  BY <1>1, ProductOrder
  <2>2. k * b \in Nat /\ k * q \in Nat  BY <1>1, SMT
  <2> QED BY <1>1, <2>1, <2>2, SMT
<1> QED BY <1>1, <1>3, <1>4 DEF q

Clocks  == {StmClock, EspClock}
Long(P) == P >= 100000           \* periods of Matched frequencies
Near(P) == P >= 99500            \* and of what the LED controller makes of them

\* The LED controller is exact to half a percent of the period and a twentieth of
\* a percent of duty cycle.
Precise == Errors \subseteq (0..50) \X (0..5)

\* q is the n-th of k, rounded down.
Floor(q, n, k) == q \in Nat /\ k * q <= n /\ n < k * q + k

\* A part of a period, and a span in cycles.
Percent(p, P, d)  == Floor(p, P * d, 100)
InCycles(C, P, k) == Floor(C, k * P, 1000)

\* What a span is in cycles, rounded down once.
LEMMA CyclesAre ==
  ASSUME NEW t \in Nat, NEW k \in Clocks
  PROVE  InCycles(Cycles(t, k), t, k)
  BY SMT DEF InCycles, Floor, Cycles, Clocks, StmClock, EspClock

\* A pulse of p in a period of P is d percent but for a tenth of a point.
Carries(p, P, d) == 100 * p <= P * d + 100 /\ 10 * (P * d) <= 1000 * p + P

\* P is R but for half a percent.
Almost(P, R) == P <= R /\ 995 * R <= 1000 * P

\* What the LED controller leaves of a signal.
LEMMA LedcBounds ==
  ASSUME NEW P \in Nat, NEW p \in Nat, NEW d \in 1..99, Long(P), Percent(p, P, d),
         NEW e \in 0..50, NEW h \in 0..5
  PROVE  LET w == Ledc([period |-> P, pulse |-> p], <<e, h>>)
         IN  /\ w.period \in Nat /\ Almost(w.period, P) /\ Near(w.period)
             /\ w.pulse \in Nat /\ w.pulse <= p
             /\ Carries(w.pulse, w.period, d)
<1> DEFINE A == P * e
           B == p * e
           G == P * h
           a == A \div 10000
           b == B \div 10000
           g == G \div 10000
           X == P * d
           D == d * a
           Z == d * A
<1>1. /\ 100 * p <= X /\ X <= 100 * p + 99 /\ X \in Nat
      /\ P <= X /\ X <= 99 * P
  <2>1. 1 <= d /\ d <= 99 /\ d \in Nat
    BY SMT
  <2>2. P * 1 <= P * d /\ P * d <= P * 99 /\ P * d \in Nat
    BY <2>1, ProductOrder
  <2>3. 100 * p <= P * d /\ P * d < 100 * p + 100
    BY DEF Percent, Floor
  <2> QED BY <2>2, <2>3, SMT
<1>2. A \in Nat /\ A <= 50 * P /\ B \in Nat /\ B <= 50 * p /\ G \in Nat /\ G <= 5 * P
  <2>1. e \in Nat /\ e <= 50 /\ h \in Nat /\ h <= 5
    BY SMT
  <2>2. P * e \in Nat /\ P * e <= P * 50 /\ p * e \in Nat /\ p * e <= p * 50
        /\ P * h \in Nat /\ P * h <= P * 5
    BY <2>1, ProductOrder
  <2> QED BY <2>2, SMT
<1>3. 100 * B <= Z /\ Z <= 100 * B + 99 * 50 /\ Z \in Nat
  <2>1. e \in Nat /\ e <= 50 /\ d \in Nat
    BY SMT
  <2>2. Z = X * e
    BY <2>1, SMT
  <2> DEFINE u == 100 * p
             v == 100 * p + 99
  <2>3. u \in Nat /\ v \in Nat /\ u <= X /\ X <= v
    BY <1>1, SMT
  <2>4. u * e = 100 * B /\ v * e = 100 * B + 99 * e
    BY <2>1, SMT
  <2> HIDE DEF u, v, X, Z
  <2>5. u * e <= X * e /\ X * e <= v * e
    BY <1>1, <2>1, <2>3, ScaleOrder
  <2>6. X * e \in Nat
    BY <1>1, <2>1, SMT
  <2> HIDE DEF B
  <2> QED BY <1>2, <2>1, <2>2, <2>4, <2>5, <2>6, SMT
<1>4. /\ a \in Nat /\ 10000 * a <= A /\ A < 10000 * a + 10000
      /\ b \in Nat /\ 10000 * b <= B /\ B < 10000 * b + 10000
      /\ g \in Nat /\ 10000 * g <= G /\ G < 10000 * g + 10000
  <2> HIDE DEF A, B, G
  <2> QED BY <1>2, Quotient
<1>5. D \in Nat /\ 10000 * D <= Z /\ Z <= 10000 * D + 10000 * 99
  <2>1. d \in Nat /\ d <= 99
    BY SMT
  <2> HIDE DEF A, a
  <2>2. 10000 * a \in Nat /\ 10000 * a + 10000 \in Nat /\ A <= 10000 * a + 10000
    BY <1>2, <1>4, SMT
  <2>3. d * (10000 * a) <= d * A /\ d * A <= d * (10000 * a + 10000)
    BY <1>2, <1>4, <2>1, <2>2, ProductOrder
  <2>4. D \in Nat /\ d * (10000 * a) = 10000 * D /\ d * (10000 * a + 10000) = 10000 * D + 10000 * d
    BY <1>4, <2>1, SMT
  <2> HIDE DEF D
  <2> QED BY <1>3, <2>1, <2>3, <2>4, SMT
<1> DEFINE Q == P - a
           q == p - b - g
<1>6. Q * d = X - D
  <2> HIDE DEF a
  <2> QED BY <1>4, SMT
<1> HIDE DEF A, B, G, a, b, g, D, X, Z
<1>7. Q \in Nat /\ Almost(Q, P) /\ Near(Q)
  BY <1>2, <1>4, SMT DEF Long, Near, Almost
<1>8. q \in Nat /\ q <= p
  BY <1>1, <1>2, <1>4, SMT DEF Long
<1>9. 100 * q <= (X - D) + 100
  BY <1>1, <1>2, <1>3, <1>4, <1>5, SMT
<1>10. 10 * (X - D) <= 1000 * q + Q
  BY <1>1, <1>2, <1>3, <1>4, <1>5, SMT DEF Long
<1>11. Carries(q, Q, d)
  BY <1>6, <1>9, <1>10 DEF Carries
<1>12. Ledc([period |-> P, pulse |-> p], <<e, h>>) = [period |-> Q, pulse |-> q]
  BY DEF Ledc, Q, q, a, b, g, A, B, G
<1> HIDE DEF Q, q
<1> QED BY <1>7, <1>8, <1>11, <1>12

\* A pulse of c cycles in a period of C shows d percent or one less.
Shows(c, C, d) == C * (d - 1) <= c * 100 /\ c * 100 < C * (d + 1)

\* In cycles of DUT3, a signal that carries d percent shows d percent or one less.
LEMMA DutyBounds ==
  ASSUME NEW P \in Nat, NEW p \in Nat, NEW C, NEW c, NEW d \in 1..99, Near(P),
         Carries(p, P, d), InCycles(C, P, StmClock), InCycles(c, p, StmClock)
  PROVE  0 < p /\ p < P /\ 0 < c /\ c < C /\ Shows(c, C, d)
<1> DEFINE X == P * d
           Y == C * d
<1>1. /\ 100 * p <= X + 100 /\ 10 * X <= 1000 * p + P
      /\ C \in Nat /\ 1000 * C <= 84 * P /\ 84 * P < 1000 * C + 1000
      /\ c \in Nat /\ 1000 * c <= 84 * p /\ 84 * p < 1000 * c + 1000
  BY SMT DEF Carries, InCycles, Floor, StmClock
<1>2. d \in Nat /\ 1 <= d /\ d <= 99
  BY SMT
<1>3. X \in Nat /\ P <= X /\ X <= 99 * P
  <2>1. P * 1 <= P * d /\ P * d <= P * 99 /\ P * d \in Nat
    BY <1>2, ProductOrder
  <2> QED BY <2>1, SMT
<1>4. Y \in Nat /\ 1000 * Y <= 84 * X /\ 84 * X < 1000 * Y + 1000 * d
  <2>1. Y \in Nat
    BY <1>1, <1>2, SMT
  <2>2. 1000 * C \in Nat /\ 84 * P \in Nat /\ 84 * P + 1 \in Nat /\ 1000 * C + 1000 \in Nat
        /\ 84 * P + 1 <= 1000 * C + 1000
    BY <1>1, SMT
  <2>3. (1000 * C) * d <= (84 * P) * d /\ (84 * P + 1) * d <= (1000 * C + 1000) * d
    BY <1>1, <1>2, <2>2, ScaleOrder
  <2>4. /\ (1000 * C) * d = 1000 * Y /\ (1000 * C + 1000) * d = 1000 * Y + 1000 * d
        /\ (84 * P) * d = 84 * X /\ (84 * P + 1) * d = 84 * X + d
    BY <1>1, <1>2, SMT
  <2> HIDE DEF X, Y
  <2> QED BY <1>2, <1>3, <2>1, <2>3, <2>4, SMT
<1>5. C * (d - 1) = Y - C /\ C * (d + 1) = Y + C
  BY <1>1, <1>2, SMT
<1> HIDE DEF X, Y
<1>6. 0 < p /\ p < P /\ 0 < c /\ c < C /\ C >= 8357
  BY <1>1, <1>2, <1>3, <1>4, SMT DEF Near
<1>7. Y - C <= c * 100 /\ c * 100 < Y + C
  BY <1>1, <1>2, <1>3, <1>4, <1>6, SMT
<1> QED BY <1>5, <1>6, <1>7 DEF Shows

Hz(k)        == (Second \div 1000) * k
Wrapped(c)   == (c * 100) % Word
Points(c, C) == (c * 100) \div C
Fits(c)      == Wrapped(c) = c * 100

\* The frequency DUT3 computes is the one that was asked for, or little more: at
\* most half a percent from the LED controller, and a rounding.
LittleMore(g, f) == f <= g /\ 8356 * g <= 8400 * f

LEMMA FrequencyBounds ==
  ASSUME Nanoseconds, NEW f \in Low, NEW R, NEW P \in Nat, NEW C,
         Floor(R, Second, f), Almost(P, R), Near(P), InCycles(C, P, StmClock)
  PROVE  LET g == Hz(StmClock) \div C
         IN  g \in Matched /\ LittleMore(g, f)
<1> DEFINE hz == Hz(StmClock)
           g == hz \div C
           X == f * R
           V == f * P
           Y == C * f
<1>1. hz = 84000000
  BY SMT DEF Nanoseconds, Hz, StmClock
<1>2. f \in Nat /\ 1 <= f /\ f <= 9900
  BY SMT DEF Low
<1>3. /\ R \in Nat /\ X <= 1000000000 /\ 1000000000 < X + f
      /\ C \in Nat /\ 1000 * C <= 84 * P /\ 84 * P < 1000 * C + 1000
      /\ P <= R /\ 995 * R <= 1000 * P /\ P >= 99500
  BY DEF InCycles, Floor, Nanoseconds, StmClock, Almost, Near
<1>4. X \in Nat /\ V \in Nat /\ Y \in Nat
  BY <1>2, <1>3, SMT
<1>5. V <= X /\ 995 * X <= 1000 * V
  <2>1. f * P <= f * R
    BY <1>2, <1>3, ProductOrder
  <2> DEFINE u == 995 * R
             v == 1000 * P
  <2>2. u \in Nat /\ v \in Nat /\ u <= v
    BY <1>3, SMT
  <2> HIDE DEF u, v
  <2>3. f * u <= f * v
    BY <1>2, <2>2, ProductOrder
  <2>4. f * u = 995 * X /\ f * v = 1000 * V
    BY <1>2, <1>3, SMT DEF u, v
  <2> QED BY <2>1, <2>3, <2>4
<1>6. 1000 * Y <= 84 * V /\ 84 * V <= 1000 * Y + 1000 * f
  <2>1. 1000 * C \in Nat /\ 84 * P \in Nat /\ 1000 * C + 1000 \in Nat /\ 84 * P <= 1000 * C + 1000
    BY <1>3, SMT
  <2>2. (1000 * C) * f <= (84 * P) * f /\ (84 * P) * f <= (1000 * C + 1000) * f
    BY <1>2, <1>3, <2>1, ScaleOrder
  <2>3. /\ (1000 * C) * f = 1000 * Y /\ (1000 * C + 1000) * f = 1000 * Y + 1000 * f
        /\ (84 * P) * f = 84 * V
    BY <1>2, <1>3, SMT
  <2> QED BY <2>2, <2>3
<1> HIDE DEF hz, X, V
<1>7. Y <= hz /\ 83560000 <= Y
  <2> HIDE DEF Y
  <2> QED BY <1>1, <1>2, <1>3, <1>4, <1>5, <1>6, SMT
<1>8. g \in Nat /\ C * g <= hz /\ hz < C * g + C /\ C > 0
  <2>1. hz \in Nat /\ C > 0
    BY <1>1, <1>3, SMT
  <2> QED BY <1>3, <2>1, Quotient
<1> DEFINE N == C * g
<1> HIDE DEF g
<1>9. f <= g
  <2> SUFFICES ASSUME g + 1 <= f PROVE FALSE
    BY <1>2, <1>8, SMT
  <2>1. g + 1 \in Nat
    BY <1>8, SMT
  <2>2. C * (g + 1) <= C * f
    BY <1>2, <1>3, <2>1, ProductOrder
  <2>3. C * (g + 1) = N + C /\ N \in Nat
    BY <1>3, <1>8, SMT
  <2>4. N + C <= Y /\ hz < N + C
    BY <1>8, <2>2, <2>3
  <2> HIDE DEF N, Y
  <2> QED BY <1>1, <1>3, <1>4, <1>7, <2>3, <2>4, SMT
<1>10. 8356 * g <= 8400 * f
  <2> DEFINE u == 8400 * f + 1
             v == 8356 * g
  <2>1. u \in Nat /\ v \in Nat
    BY <1>2, <1>8, SMT
  <2> SUFFICES ASSUME u <= v PROVE FALSE
    BY <1>2, <1>8, SMT
  <2>2. C * u <= C * v
    <3> HIDE DEF u, v
    <3> QED BY <1>3, <2>1, ProductOrder
  <2>3. C * u = 8400 * Y + C /\ C * v = 8356 * N /\ N \in Nat
    BY <1>2, <1>3, <1>8, SMT
  <2>4. 8400 * Y + C <= 8356 * N /\ N <= hz
    BY <1>8, <2>2, <2>3
  <2> HIDE DEF N, Y
  <2> QED BY <1>1, <1>3, <1>4, <1>7, <1>8, <2>3, <2>4, SMT
<1>11. g \in Matched
  BY <1>2, <1>8, <1>9, <1>10, SMT DEF Matched
<1> QED BY <1>9, <1>10, <1>11 DEF g, hz, LittleMore

\* What DUT3 measures of a signal from 1 to 99 percent: its duty cycle or one point
\* less, its frequency or little more.
Faithful(m, f, d) ==
  /\ m.ok
  /\ m.freq \in Matched /\ LittleMore(m.freq, f)
  /\ m.duty \in Nat /\ d - 1 <= m.duty /\ m.duty <= d

LEMMA PeriodBounds ==
  ASSUME Nanoseconds, NEW f \in Matched
  PROVE  Long(Period(f)) /\ Floor(Period(f), Second, f)
<1>1. Period(f) = Second \div f
  BY DEF Period
<1>2. f \in Nat /\ f > 0 /\ f <= 10000
  BY SMT DEF Matched
<1>3. /\ Second \div f \in Nat
      /\ f * (Second \div f) <= Second
      /\ Second < f * (Second \div f) + f
  BY <1>2, Quotient, PwmMathAssumption
<1>4. Period(f) \in Nat /\ f * Period(f) <= Second /\ Second < f * Period(f) + f
  BY <1>1, <1>3
<1>5. Long(Period(f))
  <2> SUFFICES ASSUME ~Long(Period(f)) PROVE FALSE
    OBVIOUS
  <2>1. Period(f) + 1 \in Nat /\ Period(f) + 1 <= 100000
    BY <1>4, SMT DEF Long
  <2>2. f * (Period(f) + 1) <= f * 100000
    BY <1>2, <2>1, ProductOrder, SMT
  <2>3. f * (Period(f) + 1) = f * Period(f) + f /\ f * Period(f) \in Nat
    BY <1>2, <1>4, SMT
  <2> QED BY <1>2, <1>4, <2>2, <2>3, SMT DEF Nanoseconds
<1> QED BY <1>4, <1>5 DEF Floor

LEMMA MeasureOf ==
  ASSUME NEW w, NEW k, NEW top, NEW C, NEW c, HasEdges(w),
         Cycles(w.period, k) = C, C # 0, C >= Hz(k) \div top,
         Cycles(w.pulse, k) = c, c # 0, c < C, Fits(c)
  PROVE  Measure(w, k, top) = [ok |-> TRUE, freq |-> Hz(k) \div C, duty |-> Points(c, C)]
<1> DEFINE D == Cycles(w.period, k)
           d == Cycles(w.pulse, k)
<1>1. Measure(w, k, top) =
        IF HasEdges(w) /\ D # 0 /\ D >= Hz(k) \div top /\ d # 0 /\ d < D
        THEN [ok |-> TRUE, freq |-> Hz(k) \div D, duty |-> Wrapped(d) \div D]
        ELSE NoMeasure
  BY DEF Measure, Hz, Wrapped
<1>2. D = C /\ d = c
  OBVIOUS
<1> HIDE DEF D, d
<1>3. Measure(w, k, top) = [ok |-> TRUE, freq |-> Hz(k) \div C, duty |-> Wrapped(c) \div C]
  BY <1>1, <1>2, Zenon
<1> QED BY <1>3, Zenon DEF Fits, Points

\* A pulse whose period fits is exact.
LEMMA PulseIs ==
  ASSUME NEW P \in Nat, NEW d \in 1..99, P * 100 < Word
  PROVE  Pulse(P, d) \in Nat /\ Percent(Pulse(P, d), P, d)
<1>1. d \in 0..100
  BY SMT
<1>2. P * d \in Nat /\ P * d <= P * 100
  BY <1>1, ProductMonotone
<1>3. Word \in Nat /\ P * d < Word
  BY <1>2, PwmMathAssumption, SMT
<1>4. (P * d) % Word = P * d
  BY <1>2, <1>3, Remainder
<1>5. Pulse(P, d) = (P * d) \div 100
  BY <1>4 DEF Pulse
<1> QED BY <1>2, <1>5, Hundredth DEF Percent, Floor

LEMMA DutFollows ==
  ASSUME Nanoseconds, Precise, NEW f \in Low, NEW d \in 1..99, NEW error \in Errors,
         Period(f) * 100 < Word
  PROVE  Faithful(Measure(Ledc(Signal(f, d), error), StmClock, Second), f, d)
<1> DEFINE R == Period(f)
           r == Pulse(R, d)
           w == Ledc(Signal(f, d), error)
           P == w.period
           p == w.pulse
           C == Cycles(P, StmClock)
           c == Cycles(p, StmClock)
           hz == Hz(StmClock)
<1>1. f \in Matched /\ d \in Nat /\ 1 <= d /\ d <= 99
  BY SMT DEF Low, Matched
<1>2. Long(R) /\ Floor(R, Second, f) /\ R \in Nat
  BY <1>1, PeriodBounds DEF Floor
<1>3. Word \in Nat /\ R * 100 < Word
  BY PwmMathAssumption
<1>4. r \in Nat /\ Percent(r, R, d)
  BY <1>2, <1>3, PulseIs
<1>5. PICK e \in 0..50, h \in 0..5 : error = <<e, h>>
  BY DEF Precise
<1>6. w = Ledc([period |-> R, pulse |-> r], <<e, h>>)
  BY <1>5 DEF Signal
<1> HIDE DEF R, r, w
<1>7. /\ P \in Nat /\ Almost(P, R) /\ Near(P)
      /\ p \in Nat /\ p <= r /\ Carries(p, P, d)
  BY <1>2, <1>4, <1>6, LedcBounds, Zenon DEF P, p
<1> HIDE DEF P, p
<1>8. StmClock \in Clocks
  BY DEF Clocks
<1>9. /\ InCycles(C, P, StmClock) /\ C \in Nat
      /\ InCycles(c, p, StmClock) /\ c \in Nat
  BY <1>7, <1>8, CyclesAre DEF InCycles, Floor
<1> HIDE DEF C, c
<1>10. 0 < p /\ p < P /\ 0 < c /\ c < C /\ Shows(c, C, d)
  BY <1>7, <1>9, DutyBounds
<1>11. hz \div C \in Matched /\ LittleMore(hz \div C, f)
  BY <1>2, <1>7, <1>9, <1>10, FrequencyBounds
<1>12. Points(c, C) \in Nat /\ d - 1 <= Points(c, C) /\ Points(c, C) < d + 1
  <2>1. d - 1 \in Nat /\ d + 1 \in Nat /\ C > 0 /\ c * 100 \in Nat
    BY <1>1, <1>9, <1>10, SMT
  <2> QED BY <1>9, <1>10, <2>1, QuotientBetween DEF Shows, Points
<1>13. Fits(c)
  <2>1. 100 * r <= R * d /\ R * d <= R * 100 /\ R * d \in Nat
    <3>1. d \in 0..100
      BY <1>1, SMT
    <3> QED BY <1>2, <1>4, <3>1, ProductMonotone DEF Percent, Floor
  <2>2. c <= r
    BY <1>4, <1>7, <1>9, SMT DEF InCycles, Floor, StmClock
  <2>3. c * 100 \in Nat /\ c * 100 < Word
    BY <1>2, <1>3, <1>4, <1>9, <2>1, <2>2, SMT
  <2> QED BY <1>3, <2>3, Remainder DEF Fits, Wrapped
<1>14. C >= hz \div Second
  <2>1. hz = 84000000 /\ Second = 1000000000
    BY SMT DEF Hz, StmClock, Nanoseconds
  <2> HIDE DEF hz
  <2>2. hz \div Second = 0
    BY <2>1, SMT
  <2> QED BY <1>9, <2>2, SMT
<1> DEFINE m == Measure(w, StmClock, Second)
<1>15. m = [ok |-> TRUE, freq |-> hz \div C, duty |-> Points(c, C)]
  <2>1. HasEdges(w)
    BY <1>10 DEF HasEdges, P, p
  <2>2. Cycles(w.period, StmClock) = C /\ Cycles(w.pulse, StmClock) = c
    BY DEF C, c, P, p
  <2>3. C # 0 /\ c # 0 /\ c < C
    BY <1>9, <1>10, SMT
  <2> HIDE DEF w, hz
  <2>4. Measure(w, StmClock, Second) = [ok |-> TRUE, freq |-> Hz(StmClock) \div C, duty |-> Points(c, C)]
    BY <1>13, <1>14, <2>1, <2>2, <2>3, MeasureOf, Zenon DEF hz
  <2> QED BY <2>4, Zenon DEF hz
<1> DEFINE g == hz \div C
           x == Points(c, C)
<1>16. g \in Matched /\ LittleMore(g, f) /\ x \in Nat /\ d - 1 <= x /\ x <= d
  <2>1. x \in Nat /\ x < d + 1
    BY <1>12
  <2>2. x <= d
    <3> HIDE DEF x
    <3> QED BY <1>1, <2>1, SMT
  <2> QED BY <1>11, <1>12, <2>2
<1>17. m.ok /\ m.freq = g /\ m.duty = x
  BY <1>15
<1> HIDE DEF g, x, m
<1>18. Faithful(m, f, d)
  BY <1>16, <1>17 DEF Faithful
<1> QED BY <1>18 DEF m, w

\* What the testbench measures of a signal from the timer of DUT3: the duty cycle
\* that was set or one point less, the frequency or up to one percent more.
Read(w) == Measure(w, EspClock, 20000)

ReadsAs(n, g, d) ==
  /\ n.ok
  /\ n.freq \in Nat /\ g <= n.freq /\ 100 * (n.freq - g) <= g
  /\ n.duty \in Nat /\ d - 1 <= n.duty /\ n.duty <= d

LEMMA ReadOf ==
  ASSUME Nanoseconds, NEW g \in Matched, NEW d \in 1..99, Period(g) * 100 < Word
  PROVE  ReadsAs(Read(OnTimer(Signal(g, d))), g, d)
<1> DEFINE P == Period(g)
           p == Pulse(P, d)
           T == P \div 1000
           t == p \div 1000
           C == 240 * T
           c == 240 * t
           hz == Hz(EspClock)
           w == OnTimer(Signal(g, d))
           X == P * d
           S == T * d
<1>1. Long(P) /\ P \in Nat /\ g * P <= Second /\ Second < g * P + g
  BY PeriodBounds DEF Floor
<1>2. g \in Nat /\ 1 <= g /\ g <= 10000 /\ d \in Nat /\ 1 <= d /\ d <= 99 /\ d \in 0..100
  BY SMT DEF Matched
<1>3. Word \in Nat /\ P * 100 < Word
  BY PwmMathAssumption
<1> HIDE DEF P
<1>4. p \in Nat /\ 100 * p <= X /\ X < 100 * p + 100 /\ X \in Nat /\ X <= P * 100
  <2>1. Percent(p, P, d)
    BY <1>1, <1>3, PulseIs
  <2>2. X \in Nat /\ X <= P * 100
    BY <1>1, <1>2, ProductMonotone
  <2> QED BY <2>1, <2>2 DEF Percent, Floor
<1> HIDE DEF p
<1>5. /\ T \in Nat /\ 1000 * T <= P /\ P < 1000 * T + 1000 /\ T >= 100
      /\ t \in Nat /\ 1000 * t <= p /\ p < 1000 * t + 1000
  BY <1>1, <1>4, SMT DEF Long
<1>6. w = [period |-> T * 1000, pulse |-> t * 1000]
  <2>1. Microsecond = 1000
    BY SMT DEF Microsecond, Nanoseconds
  <2>2. Whole(P) = T * 1000 /\ Whole(p) = t * 1000
    BY <2>1 DEF Whole
  <2>3. Signal(g, d) = [period |-> P, pulse |-> p]
    BY DEF Signal, P, p
  <2> QED BY <2>2, <2>3 DEF OnTimer
<1> HIDE DEF T, t, w
<1>7. Cycles(w.period, EspClock) = C /\ Cycles(w.pulse, EspClock) = c
  <2>1. ASSUME NEW s \in Nat PROVE Cycles(s * 1000, EspClock) = 240 * s
    <3>1. (s * 1000) \div 1000 = s /\ (s * 1000) % 1000 = 0
      BY SMT
    <3> QED BY <3>1, SMT DEF Cycles, EspClock
  <2> QED BY <1>5, <1>6, <2>1
<1>8. S \in Nat /\ 1000 * S <= X /\ X <= 1000 * S + 1000 * d
  <2>1. S \in Nat
    BY <1>2, <1>5, SMT
  <2>2. 1000 * T \in Nat /\ 1000 * T + 1000 \in Nat /\ P <= 1000 * T + 1000
    BY <1>1, <1>5, SMT
  <2>3. (1000 * T) * d <= P * d /\ P * d <= (1000 * T + 1000) * d
    BY <1>1, <1>2, <1>5, <2>2, ScaleOrder
  <2>4. (1000 * T) * d = 1000 * S /\ (1000 * T + 1000) * d = 1000 * S + 1000 * d
    BY <1>2, <1>5, SMT
  <2> QED BY <2>1, <2>3, <2>4
<1>9. T <= S /\ S <= 99 * T
  <2>1. T * 1 <= T * d /\ T * d <= T * 99
    BY <1>2, <1>5, ProductOrder
  <2> QED BY <1>5, <2>1, SMT
<1>10. X < 1000 * S + 1000 * d
  <2>1. P + 1 <= 1000 * T + 1000 /\ P + 1 \in Nat /\ 1000 * T + 1000 \in Nat
    BY <1>1, <1>5, SMT
  <2>2. (P + 1) * d <= (1000 * T + 1000) * d
    BY <1>2, <2>1, ScaleOrder
  <2>3. (P + 1) * d = X + d /\ (1000 * T + 1000) * d = 1000 * S + 1000 * d
    BY <1>1, <1>2, <1>5, SMT
  <2> HIDE DEF X, S
  <2> QED BY <1>2, <1>4, <1>8, <2>2, <2>3, SMT
<1>11. C * (d - 1) = 240 * S - C /\ C * (d + 1) = 240 * S + C
  BY <1>2, <1>5, SMT
<1> HIDE DEF X, S
<1>12. 0 < t /\ t < T
  BY <1>1, <1>2, <1>4, <1>5, <1>8, <1>9, <1>10, SMT DEF Long
<1>13. 100 * t < S + T /\ S - T <= 100 * t
  BY <1>2, <1>4, <1>5, <1>8, <1>10, SMT
<1>14. C \in Nat /\ c \in Nat /\ C >= 24000 /\ C > 0 /\ 0 < c /\ c < C /\ c * 100 = 240 * (100 * t)
  BY <1>5, <1>12, SMT
<1>15. Points(c, C) \in Nat /\ d - 1 <= Points(c, C) /\ Points(c, C) < d + 1
  <2>1. C * (d - 1) <= c * 100 /\ c * 100 < C * (d + 1)
    BY <1>5, <1>8, <1>11, <1>13, <1>14, SMT
  <2>2. d - 1 \in Nat /\ d + 1 \in Nat /\ c * 100 \in Nat
    BY <1>2, <1>14, SMT
  <2> HIDE DEF C, c
  <2> QED BY <1>14, <2>1, <2>2, QuotientBetween DEF Points
<1>16. hz = 240000000
  BY SMT DEF Nanoseconds, Hz, EspClock
<1> DEFINE h == hz \div C
<1>17. h \in Nat /\ C * h <= hz /\ hz < C * h + C
  <2> HIDE DEF hz, C
  <2> QED BY <1>14, <1>16, Quotient, SMT
<1> HIDE DEF h, hz
<1> DEFINE G == T * g
           H == T * h
<1>18. G \in Nat /\ G <= 1000000 /\ 1000000 < G + g
  <2> DEFINE Y == g * P
  <2>1. G \in Nat /\ Y \in Nat
    BY <1>1, <1>2, <1>5, SMT
  <2>2. 1000 * T \in Nat /\ P + 1 \in Nat /\ 1000 * T + 1000 \in Nat /\ P + 1 <= 1000 * T + 1000
    BY <1>1, <1>5, SMT
  <2>3. g * (1000 * T) <= g * P /\ g * (P + 1) <= g * (1000 * T + 1000)
    BY <1>1, <1>2, <1>5, <2>2, ProductOrder
  <2>4. g * (1000 * T) = 1000 * G /\ g * (P + 1) = Y + g /\ g * (1000 * T + 1000) = 1000 * G + 1000 * g
    BY <1>1, <1>2, <1>5, SMT
  <2>5. Y <= 1000000000 /\ 1000000000 < Y + g
    BY <1>1 DEF Nanoseconds
  <2>6. 1000 * G <= Y /\ Y + g <= 1000 * G + 1000 * g
    BY <2>3, <2>4
  <2> HIDE DEF G, Y
  <2> QED BY <1>2, <2>1, <2>5, <2>6, SMT
<1>19. H \in Nat /\ H <= 1000000 /\ 1000000 < H + T
  <2>1. H \in Nat /\ C * h = 240 * H
    BY <1>5, <1>17, SMT
  <2> HIDE DEF H
  <2> QED BY <1>5, <1>16, <1>17, <2>1, SMT
<1>20. g <= h
  <2> SUFFICES ASSUME h + 1 <= g PROVE FALSE
    BY <1>2, <1>17, SMT
  <2>1. h + 1 \in Nat
    BY <1>17, SMT
  <2>2. T * (h + 1) <= T * g
    BY <1>2, <1>5, <2>1, ProductOrder
  <2>3. T * (h + 1) = H + T
    BY <1>5, <1>17, SMT
  <2> HIDE DEF G, H
  <2> QED BY <1>5, <1>18, <1>19, <2>2, <2>3, SMT DEF G
<1>21. 100 * (h - g) <= g
  <2> DEFINE z == h - g
  <2>1. z \in Nat
    BY <1>2, <1>17, <1>20, SMT
  <2>2. H = G + T * z
    BY <1>2, <1>5, <1>17, SMT
  <2> HIDE DEF z
  <2>3. 100 * z <= T * z /\ T * z \in Nat
    BY <1>5, <2>1, ScaleOrder, SMT
  <2> HIDE DEF G, H
  <2>4. 100 * z <= g
    BY <1>2, <1>18, <1>19, <2>1, <2>2, <2>3, SMT
  <2> QED BY <2>4 DEF z
<1>22. Fits(c)
  <2>1. c * 100 \in Nat /\ c * 100 < Word
    BY <1>1, <1>3, <1>5, <1>12, <1>14, SMT
  <2> QED BY <1>3, <2>1, Remainder DEF Fits, Wrapped
<1>23. C >= hz \div 20000
  <2> HIDE DEF C
  <2> QED BY <1>14, <1>16, SMT
<1> HIDE DEF G, H
<1> DEFINE n == Read(w)
           top == 20000
<1>24. n = [ok |-> TRUE, freq |-> h, duty |-> Points(c, C)]
  <2>1. HasEdges(w)
    BY <1>5, <1>6, <1>12, SMT DEF HasEdges
  <2>2. C # 0 /\ c # 0 /\ c < C
    BY <1>14, SMT
  <2>3. C >= Hz(EspClock) \div top
    BY <1>23 DEF hz
  <2>4. n = Measure(w, EspClock, top)
    BY DEF Read
  <2> HIDE DEF C, c, hz, top, n
  <2>5. Measure(w, EspClock, top) = [ok |-> TRUE, freq |-> Hz(EspClock) \div C, duty |-> Points(c, C)]
    BY <1>7, <1>22, <2>1, <2>2, <2>3, MeasureOf, Zenon
  <2> QED BY <2>4, <2>5, Zenon DEF h, hz
<1> DEFINE x == Points(c, C)
<1>25. n.ok /\ n.freq = h /\ n.duty = x
  BY <1>24
<1>26. x \in Nat /\ d - 1 <= x /\ x <= d
  <2>1. x \in Nat /\ d - 1 <= x /\ x < d + 1
    BY <1>15
  <2> HIDE DEF x
  <2> QED BY <1>2, <2>1, SMT
<1> HIDE DEF x, n
<1>27. ReadsAs(n, g, d)
  BY <1>17, <1>20, <1>21, <1>25, <1>26 DEF ReadsAs
<1> QED BY <1>27 DEF n, w

LEMMA PeriodOrder ==
  ASSUME Nanoseconds, NEW f \in Matched, NEW g \in Matched, f <= g
  PROVE  Period(g) \in Nat /\ Period(f) \in Nat /\ Period(g) <= Period(f)
<1>1. f \in Nat /\ g \in Nat /\ g > 0
  BY SMT DEF Matched
<1> DEFINE P == Period(f)
           Q == Period(g)
<1>2. P \in Nat /\ Second < f * P + f /\ Q \in Nat /\ g * Q <= Second
  BY PeriodBounds DEF Floor
<1> HIDE DEF P, Q
<1>3. f * (P + 1) <= g * (P + 1)
  <2>1. P + 1 \in Nat  BY <1>2, SMT
  <2> QED BY <1>1, <2>1, ScaleOrder
<1>4. f * (P + 1) = f * P + f /\ f * P \in Nat /\ g * (P + 1) \in Nat /\ g * Q \in Nat
  BY <1>1, <1>2, SMT
<1>5. ~(P + 1 <= Q)
  <2> SUFFICES ASSUME P + 1 <= Q PROVE FALSE
    OBVIOUS
  <2>1. P + 1 \in Nat  BY <1>2, SMT
  <2>2. g * (P + 1) <= g * Q  BY <1>1, <1>2, <2>1, ProductOrder
  <2>3. Second \in Nat  BY PwmMathAssumption
  <2>4. f * P + f <= g * (P + 1)
    BY <1>3, <1>4
  <2> DEFINE a == f * P + f
             b == g * (P + 1)
             c == g * Q
  <2>5. a \in Nat /\ b \in Nat /\ c \in Nat
    BY <1>1, <1>2, <1>4, SMT
  <2>6. Second < a /\ a <= b /\ b <= c /\ c <= Second
    BY <1>2, <2>2, <2>4
  <2> HIDE DEF a, b, c
  <2> QED BY <2>3, <2>5, <2>6, SMT
<1>6. Q <= P
  BY <1>2, <1>5, SMT
<1> QED BY <1>2, <1>6 DEF P, Q

\* What DUT3 reproduces is what it measured last.
Matches(f, d) == \E m : Faithful(m, f, d) /\ copy = OnTimer(Signal(m.freq, m.duty))

CopyIsMatched ==
  copied # Nobody /\ copied.freq \in Low /\ copied.duty \in 2..99 =>
    Matches(copied.freq, copied.duty)

LEMMA CopyStep ==
  ASSUME PeriodsFit, Nanoseconds, Precise, WaveIsAsked, CopyIsMatched, [Next]_vars
  PROVE  CopyIsMatched'
<1>1. ASSUME UNCHANGED <<copy, copied>>
      PROVE  CopyIsMatched'
  BY <1>1 DEF CopyIsMatched, Matches, Nobody, Faithful, OnTimer, Signal
<1>2. ASSUME NEW f \in Freqs, NEW d \in Duties, PwmWrite(f, d)
      PROVE  CopyIsMatched'
  BY <1>1, <1>2, Zenon DEF PwmWrite
<1>3. ASSUME NEW error \in Errors, copied' = asked,
             LET m == Measure(Ledc(wave, error), StmClock, Second)
             IN  copy' = IF m.ok /\ m.freq \in Matched THEN OnTimer(Signal(m.freq, m.duty)) ELSE copy
      PROVE  CopyIsMatched'
  <2>1. Nobody' = Nobody /\ Low' = Low
    BY DEF Nobody, Low
  <2> SUFFICES ASSUME copied' # Nobody, copied'.freq \in Low, copied'.duty \in 2..99
               PROVE  Matches(copied.freq, copied.duty)'
    BY <2>1 DEF CopyIsMatched
  <2> DEFINE m == Measure(Ledc(wave, error), StmClock, Second)
  <2>2. asked # Nobody /\ asked.freq \in Low /\ asked.duty \in 2..99
    BY <1>3, Zenon
  <2>3. asked.freq \in Freqs \cap (1..MaxFreq) /\ wave = Signal(asked.freq, asked.duty)
    BY <2>2 DEF WaveIsAsked
  <2>4. Period(asked.freq) * 100 < Word /\ asked.duty \in 1..99
    <3>1. \A x \in 2..99 : x \in 1..99
      BY SMT
    <3> QED BY <2>2, <2>3, <3>1 DEF PeriodsFit
  <2>5. Faithful(m, asked.freq, asked.duty)
    <3>1. Faithful(Measure(Ledc(Signal(asked.freq, asked.duty), error), StmClock, Second),
                   asked.freq, asked.duty)
      BY <2>2, <2>4, DutFollows
    <3> QED BY <2>3, <3>1
  <2>6. copy' = IF m.ok /\ m.freq \in Matched THEN OnTimer(Signal(m.freq, m.duty)) ELSE copy
    BY <1>3, Zenon
  <2> HIDE DEF m
  <2>7. copy' = OnTimer(Signal(m.freq, m.duty))
    BY <2>5, <2>6 DEF Faithful
  <2>8. Matches(copied.freq, copied.duty)' <=>
          \E n : /\ Faithful(n, copied'.freq, copied'.duty)
                 /\ copy' = OnTimer(Signal(n.freq, n.duty))
    BY DEF Matches, Faithful, OnTimer, Signal
  <2>9. \E n : Faithful(n, asked.freq, asked.duty) /\ copy' = OnTimer(Signal(n.freq, n.duty))
    BY <2>5, <2>7
  <2> QED BY <1>3, <2>8, <2>9, Zenon
<1>4. CASE PwmMatch
  BY <1>1, <1>3, <1>4, Zenon DEF PwmMatch, vars
<1>5. ASSUME NEW tol \in Tolerances, PwmRead(tol)
      PROVE  CopyIsMatched'
  BY <1>1, <1>5 DEF PwmRead
<1>6. CASE UNCHANGED vars
  BY <1>1, <1>6, Zenon DEF vars
<1> QED BY <1>2, <1>4, <1>5, <1>6 DEF Next

\* What PWM_READ measures once DUT3 has followed: up to two percent more than the
\* frequency that was asked for, and at most two points of duty cycle less.
Seen == Read(copy)

Close(m, f, d) ==
  /\ m.ok
  /\ m.freq \in Nat /\ f <= m.freq /\ 100 * (m.freq - f) <= 2 * f
  /\ m.duty \in Nat /\ d - 2 <= m.duty /\ m.duty <= d

LEMMA ReadIsClose ==
  ASSUME PeriodsFit, Nanoseconds, WaveIsAsked, CopyIsMatched, Copied
  PROVE  Close(Seen, asked.freq, asked.duty)
<1> DEFINE f == asked.freq
           d == asked.duty
           n == Seen
<1>1. f \in Low /\ d \in 2..99 /\ copied = asked
  BY DEF Copied
<1>2. asked # Nobody
  <2>1. 0 \notin Low
    BY SMT DEF Low
  <2> QED BY <1>1, <2>1 DEF Nobody
<1>3. Period(f) * 100 < Word
  BY <1>2 DEF WaveIsAsked, PeriodsFit
<1>4. PICK m : Faithful(m, f, d) /\ copy = OnTimer(Signal(m.freq, m.duty))
  BY <1>1, <1>2 DEF CopyIsMatched, Matches
<1> HIDE DEF f, d
<1>5. m.freq \in Matched /\ LittleMore(m.freq, f) /\ f \in Matched
  <2>1. \A x \in Low : x \in Matched
    BY SMT DEF Low, Matched
  <2> QED BY <1>1, <1>4, <2>1 DEF Faithful
<1>6. m.duty \in 1..99 /\ d - 1 <= m.duty /\ m.duty <= d
  BY <1>1, <1>4, SMT DEF Faithful
<1>7. Period(m.freq) * 100 < Word
  <2>1. Period(m.freq) \in Nat /\ Period(f) \in Nat /\ Period(m.freq) <= Period(f)
    BY <1>5, PeriodOrder DEF LittleMore
  <2> QED BY <1>3, <2>1, PwmMathAssumption, SMT
<1>8. n = Read(OnTimer(Signal(m.freq, m.duty)))
  BY <1>4 DEF Seen
<1> HIDE DEF n
<1>9. /\ n.ok
      /\ n.freq \in Nat /\ m.freq <= n.freq /\ 100 * (n.freq - m.freq) <= m.freq
      /\ n.duty \in Nat /\ m.duty - 1 <= n.duty /\ n.duty <= m.duty
  <2>1. ReadsAs(n, m.freq, m.duty)
    BY <1>5, <1>6, <1>7, <1>8, ReadOf, Zenon
  <2> QED BY <2>1 DEF ReadsAs
<1>10. f <= n.freq /\ 100 * (n.freq - f) <= 2 * f
  <2>1. \A x, y \in Matched :
          LittleMore(x, y) => x \in Nat /\ y \in Nat /\ y <= x /\ 8356 * x <= 8400 * y
    BY SMT DEF LittleMore, Matched
  <2>2. m.freq \in Nat /\ f \in Nat /\ f <= m.freq /\ 8356 * m.freq <= 8400 * f
    BY <1>5, <2>1
  <2> QED BY <1>9, <2>2, SMT
<1>11. d - 2 <= n.duty /\ n.duty <= d
  BY <1>1, <1>6, <1>9, SMT
<1> QED BY <1>9, <1>10, <1>11, Zenon DEF Close, n, f, d

\* Both comparisons of pwm_service_read_with_tolerance hold for such a measure.
LEMMA CloseIsWithin ==
  ASSUME NEW m, NEW f \in Low, NEW d \in 2..99, Close(m, f, d),
         NEW t \in Nat, NEW u \in Nat, t >= 2, u >= 2, MaxFreq * t < Word
  PROVE  Within(m, f, d, <<t, u>>)
<1> DEFINE g == m.freq
           e == m.duty
<1>1. /\ g \in Nat /\ f <= g /\ 100 * (g - f) <= 2 * f
      /\ e \in Nat /\ d - 2 <= e /\ e <= d
  BY DEF Close
<1> HIDE DEF g, e
<1>2. f \in Nat /\ f <= 10000 /\ Word \in Nat
  BY PwmMathAssumption, SMT DEF Low
<1>3. f * t \in Nat /\ 2 * f <= f * t /\ f * t < Word
  <2>1. f * 2 <= f * t /\ f * t \in Nat
    BY <1>2, ProductOrder, SMT
  <2>2. f * t <= 10000 * t
    BY <1>2, ScaleOrder, SMT
  <2> QED BY <1>2, <2>1, <2>2, SMT DEF MaxFreq
<1>4. Distance(g, f) * 100 \in Nat /\ Distance(g, f) * 100 <= 2 * f
  BY <1>1, <1>2, SMT DEF Distance
<1>5. Distance(g, f) * 100 < Word
  BY <1>2, <1>3, <1>4, SMT
<1>6. (Distance(g, f) * 100) % Word = Distance(g, f) * 100 /\ (f * t) % Word = f * t
  BY <1>2, <1>3, <1>4, <1>5, Remainder
<1>7. (Distance(g, f) * 100) % Word <= (f * t) % Word
  BY <1>2, <1>3, <1>4, <1>6, SMT
<1>8. Distance(e, d) <= u
  BY <1>1, SMT DEF Distance
<1>9. <<t, u>>[1] = t /\ <<t, u>>[2] = u
  OBVIOUS
<1> QED BY <1>7, <1>8, <1>9, Zenon DEF Within, g, e

\* A read with the tolerances of the suites passes once DUT3 has followed
\* (pwm_match_update, pwm_service_read_with_tolerance): what the LED controller, the
\* integers of both boards and the microseconds of DUT3's timer cut off is at most
\* two percent of the frequency and two points of duty cycle, up to 9900 Hz and down
\* to where the hundredfold period fits.
THEOREM CopiesPass ==
  ASSUME PeriodsFit, Nanoseconds, Precise, Sensible
  PROVE  Spec => TwoPointsSuffice
<1> DEFINE A == \A tol \in Tolerances \ {Omitted} : PwmRead(tol) /\ Copied =>
                  /\ report'.status = "OK"
                  /\ report'.duty \in (asked.duty - 2)..asked.duty
<1>1. Init => WaveIsAsked /\ CopyIsMatched
  BY WaveInit DEF Init, CopyIsMatched
<1>2. WaveIsAsked /\ CopyIsMatched /\ [Next]_vars => WaveIsAsked' /\ CopyIsMatched'
  BY WaveStep, CopyStep
<1>3. WaveIsAsked /\ CopyIsMatched /\ [Next]_vars => [A]_vars
  <2> SUFFICES ASSUME WaveIsAsked, CopyIsMatched,
                      NEW tol \in Tolerances \ {Omitted}, PwmRead(tol), Copied
               PROVE  /\ report'.status = "OK"
                      /\ report'.duty \in (asked.duty - 2)..asked.duty
    BY Zenon DEF A
  <2> DEFINE m == Seen
             f == asked.freq
             d == asked.duty
  <2>1. Close(m, f, d)
    BY ReadIsClose, Zenon
  <2>2. f \in Low /\ d \in 2..99
    BY DEF Copied
  <2>3. Parsed(tol) = tol
    BY DEF Parsed
  <2>4. report' = [status |-> IF m.ok /\ Within(m, f, d, Parsed(tol)) THEN "OK" ELSE "FAIL",
                   freq |-> m.freq, duty |-> m.duty]
    BY DEF PwmRead, Seen, Read
  <2> HIDE DEF m, f
  <2>5. Within(m, f, d, tol)
    <3> HIDE DEF d
    <3>1. tol \in Nat \X Nat
      BY PwmChainAssumption
    <3>2. PICK t \in Nat, u \in Nat : tol = <<t, u>>
      BY <3>1
    <3>3. t >= 2 /\ u >= 2 /\ MaxFreq * t < Word
      BY <3>2 DEF Sensible
    <3>4. Within(m, f, d, <<t, u>>)
      BY <2>1, <2>2, <3>3, CloseIsWithin
    <3> QED BY <3>2, <3>4
  <2>6. m.ok /\ m.duty \in Nat /\ d - 2 <= m.duty /\ m.duty <= d
    BY <2>1 DEF Close
  <2>7. report'.status = "OK" /\ report'.duty = m.duty
    BY <2>3, <2>4, <2>5, <2>6
  <2>8. m.duty \in (d - 2)..d
    BY <2>2, <2>6, SMT
  <2> QED BY <2>7, <2>8
<1>4. WaveIsAsked /\ CopyIsMatched => WaveIsAsked /\ CopyIsMatched
  OBVIOUS
<1> QED BY <1>1, <1>2, <1>3, PTL DEF Spec, TwoPointsSuffice

-----------------------------------------------------------------------------
(* DacChain *)

QuietEnough == Noise <= 46

\* No product of a signal of 1 kHz wraps.
Wide == Word > 100000000

-----------------------------------------------------------------------------
(* Two roundings: of the voltage to 8 bits, of those to the ADC's 12 *)

LEMMA RawBounds ==
  ASSUME NEW mv \in Int
  PROVE  /\ Clamp(mv) \in 0..ReferenceMv /\ Raw(mv) \in 0..255
         /\ Raw(mv) * ReferenceMv <= Clamp(mv) * 255
         /\ Clamp(mv) * 255 < Raw(mv) * ReferenceMv + ReferenceMv
<1>1. Clamp(mv) \in 0..3300
  BY DEF Clamp, ReferenceMv
<1>2. PICK c \in 0..3300 : Clamp(mv) = c
  BY <1>1
<1>3. Raw(mv) = (c * 255) \div 3300
  BY <1>2 DEF Raw, ReferenceMv
<1>4. /\ (c * 255) \div 3300 \in 0..255
      /\ ((c * 255) \div 3300) * 3300 <= c * 255
      /\ c * 255 < ((c * 255) \div 3300) * 3300 + 3300
  BY SMT
<1> QED BY <1>2, <1>3, <1>4 DEF ReferenceMv

\* A sample is within a step of the outputs' (16 steps of the ADC's), a rounding
\* and the noise of what was asked for.
LEMMA SampleBounds ==
  ASSUME NEW mv \in Int, NEW s \in Samples(Raw(mv))
  PROVE  /\ s \in 0..AdcMax
         /\ s * 3300 <= Clamp(mv) * 4095 + Noise * 3300
         /\ s * 3300 > Clamp(mv) * 4095 - (Noise + 18) * 3300
<1>1. Clamp(mv) \in 0..3300 /\ Raw(mv) \in 0..255 /\ Noise \in Nat
  BY RawBounds, DacAssumption DEF DacAssumption, ReferenceMv
<1>2. Raw(mv) * 3300 <= Clamp(mv) * 255 /\ Clamp(mv) * 255 < Raw(mv) * 3300 + 3300
  BY RawBounds DEF ReferenceMv
<1>3. s \in 0..4095 /\ Distance(s, (Raw(mv) * 4095) \div 255) <= Noise
  BY DEF Samples, AdcMax
<1>4. PICK c \in 0..3300 : Clamp(mv) = c
  BY <1>1
<1>5. PICK r \in 0..255 : Raw(mv) = r
  BY <1>1
<1>6. PICK n \in Nat : Noise = n
  BY <1>1
<1>7. PICK x \in 0..4095 : s = x
  BY <1>3
<1> DEFINE m == (r * 4095) \div 255
<1>8. m \in Nat /\ m * 255 <= r * 4095 /\ r * 4095 < m * 255 + 255
  BY SMT
<1>9. /\ r * 3300 <= c * 255 /\ c * 255 < r * 3300 + 3300
      /\ Distance(x, m) <= n
  BY <1>2, <1>3, <1>4, <1>5, <1>6, <1>7
<1> HIDE DEF m
<1>10. x <= m + n /\ m <= x + n
  BY <1>8, <1>9, SMT DEF Distance
<1>11. m * 3300 <= c * 4095 /\ m * 3300 > c * 4095 - 18 * 3300
  BY <1>8, <1>9, SMT
<1>12. x * 3300 <= m * 3300 + n * 3300 /\ m * 3300 <= x * 3300 + n * 3300
  BY <1>8, <1>10, SMT
<1>13. x * 3300 <= c * 4095 + n * 3300
  BY <1>8, <1>11, <1>12, SMT
<1>14. x * 3300 > c * 4095 - (n + 18) * 3300
  BY <1>8, <1>11, <1>12, SMT
<1> QED BY <1>4, <1>6, <1>7, <1>13, <1>14 DEF AdcMax

-----------------------------------------------------------------------------
(* The warning *)

\* What the wired output holds is computed from what was asked for.
Wire == volts \in Int /\ dac[Wired] = Raw(volts) /\ dac \in [DacChannels -> 0..255]

LEMMA WireInit == BoardsInit => Wire
<1> SUFFICES ASSUME BoardsInit PROVE Wire
  OBVIOUS
<1>1. Raw(0) = 0
  BY SMT DEF Raw, Clamp, ReferenceMv
<1> QED BY <1>1, DacAssumption DEF BoardsInit, DacInit, Wire, DacAssumption

LEMMA WireStep == ASSUME Wire, [DacNext]_dacVars PROVE Wire'
<1>1. ASSUME NEW ch \in DacChannels \cup {"OTHER"}, NEW mv \in Millivolts, DacWrite(ch, mv)
      PROVE  Wire'
  <2>1. mv \in Int /\ Raw(mv) \in 0..255
    BY RawBounds, DacAssumption DEF DacAssumption
  <2>2. CASE /\ ch \in DacChannels /\ dac' = [dac EXCEPT ![ch] = Raw(mv)]
             /\ volts' = IF ch = Wired THEN mv ELSE volts
    BY <2>1, <2>2, DacAssumption DEF Wire, DacAssumption, Raw, Clamp
  <2>3. CASE UNCHANGED <<dac, volts>>
    BY <2>3 DEF Wire, Raw, Clamp
  <2> QED BY <1>1, <2>2, <2>3 DEF DacWrite
<1>2. CASE AdcUpdate \/ FanUpdate \/ UNCHANGED dacVars
  BY <1>2 DEF AdcUpdate, FanUpdate, dacVars, Wire, Raw, Clamp
<1> QED BY <1>1, <1>2 DEF DacNext

LEMMA WarnsRightly ==
  ASSUME QuietEnough, Wire, NEW s \in Samples(dac[Wired])
  PROVE  (volts <= 1400 => Warn(s) = 0) /\ (volts >= 1500 => Warn(s) = 1)
<1>1. /\ s \in 0..4095 /\ Noise \in Nat /\ volts \in Int /\ Noise <= 46
      /\ s * 3300 <= Clamp(volts) * 4095 + Noise * 3300
  BY SampleBounds, DacAssumption DEF Wire, DacAssumption, QuietEnough, AdcMax
<1>2. volts <= 1400 => Clamp(volts) <= 1400 /\ Clamp(volts) \in Int
  BY <1>1 DEF Clamp, ReferenceMv
<1>3. volts <= 1400 => s < 1800
  BY <1>1, <1>2, SMT
\* From below the bound of SampleBounds is too coarse: 1500 mV are 115 of 255.
<1>4. volts >= 1500 => Raw(volts) >= 115
  BY <1>1, SMT DEF Raw, Clamp, ReferenceMv
<1>5. Raw(volts) \in 0..255
  BY <1>1, RawBounds
<1>6. ASSUME NEW r \in 115..255
      PROVE  (r * 4095) \div 255 >= 1846 /\ (r * 4095) \div 255 \in Nat
  BY SMT
<1>7. Distance(s, (Raw(volts) * 4095) \div 255) <= Noise
  BY DEF Wire, Samples, AdcMax
<1>8. volts >= 1500 => s >= 1800
  BY <1>1, <1>4, <1>5, <1>6, <1>7, SMT DEF Distance
<1> QED BY <1>1, <1>3, <1>8 DEF Warn, Threshold

WInv == Wire /\ WarningIsRight

\* adc_app.c: for every voltage up to 1400 mV the warning stays off, for every one
\* from 1500 mV on it comes on, whichever output is wired and whatever fails.
THEOREM WarningHolds == ASSUME QuietEnough PROVE DacSpec => []WarningIsRight
<1>1. BoardsInit => WInv
  BY WireInit DEF BoardsInit, AdcInit, WInv, WarningIsRight
<1>2. WInv /\ [DacNext]_dacVars => WInv'
  <2> SUFFICES ASSUME WInv, [DacNext]_dacVars PROVE WarningIsRight'
    BY WireStep DEF WInv
  <2>1. CASE AdcUpdate
    BY <2>1, WarnsRightly DEF AdcUpdate, WInv, WarningIsRight
  <2>2. CASE UNCHANGED <<warning, warnOf>>
    BY <2>2 DEF WInv, WarningIsRight
  <2> QED BY <2>1, <2>2 DEF DacNext, DacWrite, FanUpdate, dacVars
<1>3. WInv => WarningIsRight
  BY DEF WInv
<1> QED BY <1>1, <1>2, <1>3, PTL DEF DacSpec

-----------------------------------------------------------------------------
(* The fan *)

\* The share of the range that was asked for.
Share(mv) == (Clamp(mv) * 100) \div ReferenceMv

LEMMA DutyIsShare ==
  ASSUME QuietEnough, NEW mv \in Int, NEW s \in Samples(Raw(mv))
  PROVE  Duty(s) \in 0..100 /\ Distance(Duty(s), Share(mv)) <= 3
<1>1. s \in 0..4095 /\ Clamp(mv) \in 0..3300 /\ Noise \in 0..46
  BY SampleBounds, RawBounds, DacAssumption DEF DacAssumption, QuietEnough, AdcMax, ReferenceMv
<1>2. PICK x \in 0..4095 : s = x
  BY <1>1
<1>3. PICK c \in 0..3300 : Clamp(mv) = c
  BY <1>1
<1>4. PICK n \in 0..46 : Noise = n
  BY <1>1
<1>5. x * 3300 <= c * 4095 + n * 3300 /\ x * 3300 > c * 4095 - (n + 18) * 3300
  BY <1>2, <1>3, <1>4, SampleBounds
<1> DEFINE d == (x * 100) \div 4095
           h == (c * 100) \div 3300
<1>6. d \in 0..100 /\ d * 4095 <= x * 100 /\ x * 100 < d * 4095 + 4095
  BY SMT
<1>7. h \in 0..100 /\ h * 3300 <= c * 100 /\ c * 100 < h * 3300 + 3300
  BY SMT
<1>8. Duty(s) = d /\ Share(mv) = h
  BY <1>2, <1>3 DEF Duty, Share, AdcMax, ReferenceMv
<1> HIDE DEF d, h
<1>9. d <= h + 3 /\ h <= d + 3
  BY <1>5, <1>6, <1>7, SMT
<1>10. Distance(d, h) <= 3
  BY <1>6, <1>7, <1>9, SMT DEF Distance
<1> QED BY <1>6, <1>8, <1>10

\* What the testbench measures of the fan's signal with a duty cycle.
FanMeasure(d) == Measure(OnTimer(Signal(1000, d)), EspClock, 20000)

MeasuresDuty(d) ==
  FanMeasure(d).ok => FanMeasure(d).freq = 1000 /\ FanMeasure(d).duty = d

\* At 1 kHz nothing wraps and no percent is lost: the testbench measures the duty
\* cycle that was set, in whole microseconds of DUT3's timer.
LEMMA FanMeasured ==
  ASSUME Nanoseconds, Wide, NEW d \in 0..100
  PROVE  MeasuresDuty(d)
<1> DEFINE w == OnTimer(Signal(1000, d))
<1>1. Second = 1000000000 /\ Word \in Nat /\ Word > 100000000
  BY PwmMathAssumption DEF PwmMathAssumption, Nanoseconds, Wide
<1>2. Period(1000) = 1000000
  BY <1>1, SMT DEF Period
<1>3. Pulse(1000000, d) = 10000 * d
  <2>1. 1000000 * d \in Nat /\ 1000000 * d < Word
    BY <1>1, SMT
  <2>2. (1000000 * d) % Word = 1000000 * d
    BY <1>1, <2>1, Remainder
  <2> QED BY <2>2, SMT DEF Pulse
<1>4. w.period = 1000000 /\ w.pulse = 10000 * d
  <2>1. Microsecond = 1000
    BY <1>1, SMT DEF Microsecond
  <2>2. Whole(1000000) = 1000000 /\ Whole(10000 * d) = 10000 * d
    BY <2>1, SMT DEF Whole
  <2> QED BY <1>2, <1>3, <2>2 DEF OnTimer, Signal
<1>5. Cycles(1000000, EspClock) = 240000
  BY SMT DEF Cycles, EspClock
<1>6. Cycles(10000 * d, EspClock) = 2400 * d
  <2>1. (10000 * d) \div 1000 = 10 * d /\ (10000 * d) % 1000 = 0
    BY SMT
  <2> QED BY <2>1, SMT DEF Cycles, EspClock
<1>7. ((2400 * d * 100) % Word) \div 240000 = d
  <2>1. 2400 * d * 100 \in Nat /\ 2400 * d * 100 < Word
    BY <1>1, SMT
  <2>2. (2400 * d * 100) % Word = 2400 * d * 100
    BY <1>1, <2>1, Remainder
  <2> QED BY <2>2, SMT
<1>8. ((Second \div 1000) * EspClock) \div 240000 = 1000
  BY <1>1, SMT DEF EspClock
<1> HIDE DEF w
<1>9. Measure(w, EspClock, 20000) # NoMeasure =>
        Measure(w, EspClock, 20000) = [ok |-> TRUE, freq |-> 1000, duty |-> d]
  <2> DEFINE hz == (Second \div 1000) * EspClock
  <2>1. Cycles(w.period, EspClock) = 240000 /\ Cycles(w.pulse, EspClock) = 2400 * d
    BY <1>4, <1>5, <1>6
  <2>2. Measure(w, EspClock, 20000) \in
          {NoMeasure, [ok |-> TRUE, freq |-> hz \div 240000,
                       duty |-> ((2400 * d * 100) % Word) \div 240000]}
    BY <2>1 DEF Measure
  <2> QED BY <2>2, <1>7, <1>8
<1>10. NoMeasure.ok = FALSE
  BY DEF NoMeasure
<1> QED BY <1>9, <1>10 DEF w, FanMeasure, MeasuresDuty

FInv == Wire /\ FanIsRight

\* fan_pwm.c and pwm_service.c: for every voltage, the duty cycle the testbench
\* measures of the fan is the asked share of the range, within three points.
THEOREM FanHolds == ASSUME QuietEnough, Nanoseconds, Wide PROVE DacSpec => []FanIsRight
<1>1. BoardsInit => FInv
  <2> SUFFICES ASSUME BoardsInit PROVE FanIsRight
    BY WireInit DEF FInv
  <2>1. fan = Flat /\ ~HasEdges(Flat)
    BY SMT DEF BoardsInit, FanInit, HasEdges, Flat
  <2>2. Measure(fan, EspClock, 20000) = NoMeasure
    BY <2>1 DEF Measure
  <2> QED BY <2>2 DEF FanIsRight, NoMeasure
<1>2. FInv /\ [DacNext]_dacVars => FInv'
  <2> SUFFICES ASSUME FInv, [DacNext]_dacVars PROVE FanIsRight'
    BY WireStep DEF FInv
  <2>1. CASE FanUpdate
    <3>1. PICK s \in Samples(dac[Wired]) : fan' = OnTimer(Signal(1000, Duty(s)))
      BY <2>1 DEF FanUpdate
    <3>2. fanOf' = volts /\ volts \in Int /\ dac[Wired] = Raw(volts)
      BY <2>1 DEF FanUpdate, FInv, Wire
    <3>3. Duty(s) \in 0..100 /\ Distance(Duty(s), Share(volts)) <= 3
      BY <3>1, <3>2, DutyIsShare
    <3>4. PICK d \in 0..100 : Duty(s) = d
      BY <3>3
    <3>5. fan' = OnTimer(Signal(1000, d)) /\ Distance(d, Share(volts)) <= 3
      BY <3>1, <3>3, <3>4
    <3>6. MeasuresDuty(d)
      BY FanMeasured, Zenon
    <3>7. FanIsRight' <=>
            (FanMeasure(d).ok => /\ FanMeasure(d).freq = 1000
                                 /\ Distance(FanMeasure(d).duty, Share(volts)) <= 3)
      BY <3>2, <3>5 DEF FanIsRight, FanMeasure, Share
    <3> QED BY <3>5, <3>6, <3>7 DEF MeasuresDuty
  <2>2. CASE UNCHANGED <<fan, fanOf>>
    BY <2>2 DEF FInv, FanIsRight
  <2> QED BY <2>1, <2>2 DEF DacNext, DacWrite, AdcUpdate, dacVars
<1>3. FInv => FanIsRight
  BY DEF FInv
<1> QED BY <1>1, <1>2, <1>3, PTL DEF DacSpec
=============================================================================
