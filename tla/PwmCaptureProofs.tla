-------------------------- MODULE PwmCaptureProofs --------------------------
(***************************************************************************)
(* The hand-over between the command thread and the GPIO interrupt, for    *)
(* every input, latency and counter width: no stale token, no edge of an   *)
(* earlier call, and nothing changes under the thread's hands.  And what   *)
(* the three edges measure: the period and the high time, as far off as    *)
(* the interrupt may be late.                                              *)
(***************************************************************************)
EXTENDS PwmCapture, TLAPS

\* Before the capture is armed there are no edges; it is armed only from Activate
\* to Close; a token in the semaphore, or one that was taken, means three edges.
HandOver ==
  /\ pc \in {"deactivate", "reset", "enable", "activate"} => edges = <<>>
  /\ pc \in {"enable", "activate"} => sem = 0
  /\ active => pc \in {"take", "disable", "close"}
  /\ pc = "take" /\ sem = 1 => Len(edges) = EdgesNeeded
  /\ pc \in Taken /\ ret = 0 => Len(edges) = EdgesNeeded /\ ~active

IInv == TypeOK /\ HandOver /\ FreshEdges

-----------------------------------------------------------------------------
\* uint32_t subtraction yields a uint32_t.
LEMMA SpanType == ASSUME NEW a \in Int, NEW b \in Int PROVE Span(a, b) \in Nat
<1>1. Word \in Nat /\ Word > 0
  BY PwmAssumption DEF PwmAssumption
<1> QED BY <1>1 DEF Span

\* What three edges evaluate to is a result.
LEMMA MeasuredType ==
  ASSUME edges \in Seq(Edge), Len(edges) = EdgesNeeded
  PROVE  Measured \in [ok : BOOLEAN, period : Nat, pulse : Nat]
<1>0. \A i \in 1..3 : edges[i] \in Edge
  <2>1. Len(edges) = 3
    BY DEF EdgesNeeded
  <2>2. \A i \in 1..Len(edges) : edges[i] \in Edge
    OBVIOUS
  <2> QED BY <2>1, <2>2
<1>1. edges[1] \in Edge /\ edges[2] \in Edge /\ edges[3] \in Edge
  BY <1>0
<1>2. edges[1].time \in Int /\ edges[2].time \in Int /\ edges[3].time \in Int
  BY <1>1 DEF Edge
<1>3. Pulse \in Nat /\ Span(edges[1].time, edges[3].time) \in Nat
  BY <1>2, SpanType DEF Pulse
<1> QED BY <1>3 DEF Measured, NoResult

\* The stamp the interrupt takes is an edge of this call.
LEMMA StampType == TypeOK => Stamp \in Edge /\ Stamp.call = call
  BY DEF TypeOK, Stamp, Edge, Level

LEMMA IInvInit == Init => IInv
<1> SUFFICES ASSUME Init PROVE IInv
  OBVIOUS
<1>1. Latency \in Nat /\ -1 \in -1..Latency
  BY PwmAssumption DEF PwmAssumption
<1>2. result \in [ok : BOOLEAN, period : Nat, pulse : Nat]
  BY DEF Init, NoResult
<1>3. edges = <<>> /\ edges \in Seq(Edge) /\ Len(edges) = 0 /\ ~active /\ pc = "idle"
  BY DEF Init
<1>4. TypeOK
  <2>1. active \in BOOLEAN /\ intr \in BOOLEAN
    BY DEF Init
  <2>2. sem \in {0, 1} /\ ret \in {0, -1} /\ call \in 0..2 /\ pending \in -1..Latency
    BY <1>1 DEF Init
  <2>3. phase \in 0..(Period - 1) /\ cycle \in 0..(Word - 1)
    BY DEF Init
  <2>4. Len(edges) <= EdgesNeeded
    BY <1>3 DEF EdgesNeeded
  <2> QED BY <1>2, <1>3, <2>1, <2>2, <2>3, <2>4 DEF TypeOK
<1>5. HandOver /\ FreshEdges
  BY <1>3 DEF HandOver, FreshEdges, Taken
<1> QED BY <1>4, <1>5 DEF IInv

-----------------------------------------------------------------------------
(* The interrupt *)

\* While the capture is armed an edge is added, and the third one ends it.
LEMMA IsrArmed ==
  ASSUME IInv, Isr, active
  PROVE  /\ edges' = Append(edges, Stamp)
         /\ edges' \in Seq(Edge)
         /\ Len(edges') = Len(edges) + 1
         /\ Len(edges') <= EdgesNeeded
         /\ \A i \in DOMAIN edges' : edges'[i].call = call
         /\ Len(edges') = EdgesNeeded => active' = FALSE /\ sem' = 1
         /\ Len(edges') # EdgesNeeded => active' = TRUE /\ sem' = sem
<1>1. edges \in Seq(Edge) /\ Len(edges) < EdgesNeeded /\ Len(edges) \in Nat
  BY DEF IInv, TypeOK
<1>2. edges' = Append(edges, Stamp)
  BY <1>1 DEF Isr
<1>3. Stamp \in Edge /\ Stamp.call = call
  BY StampType DEF IInv
<1> HIDE DEF Stamp
<1>4. edges' \in Seq(Edge) /\ Len(edges') = Len(edges) + 1
  BY <1>1, <1>2, <1>3
<1>5. Len(edges') <= EdgesNeeded
  BY <1>1, <1>4 DEF EdgesNeeded
<1>6. \A i \in DOMAIN edges' :
        edges'[i] = Stamp \/ (i \in DOMAIN edges /\ edges'[i] = edges[i])
  BY <1>1, <1>2, <1>3
<1>7. \A i \in DOMAIN edges' : edges'[i].call = call
  BY <1>3, <1>6 DEF IInv, FreshEdges
<1>8. /\ Len(edges') = EdgesNeeded => active' = FALSE /\ sem' = 1
      /\ Len(edges') # EdgesNeeded => active' = active /\ sem' = sem
  BY DEF Isr, End
<1>9. active = TRUE
  BY DEF IInv, TypeOK
<1> QED BY <1>2, <1>4, <1>5, <1>7, <1>8, <1>9

LEMMA IInvIsr == ASSUME IInv, Isr PROVE IInv'
<1>1. UNCHANGED <<intr, phase, cycle, pc, ret, result, call>> /\ pending' = -1
  BY DEF Isr, thread
<1>2. pending' \in -1..Latency
  BY <1>1, PwmAssumption DEF PwmAssumption
<1>3. CASE ~active
  BY <1>1, <1>2, <1>3
  DEF Isr, IInv, TypeOK, HandOver, FreshEdges, Waiting, Taken
<1>4. CASE active
  <2>1. Len(edges) < EdgesNeeded /\ Len(edges) \in Nat /\ sem \in {0, 1}
    BY <1>4 DEF IInv, TypeOK
  <2>2. pc \in {"take", "disable", "close"} /\ (pc \in Taken => ret # 0)
    BY <1>4 DEF IInv, HandOver
  <2>3. pc = "take" => sem = 0
    BY <2>1 DEF IInv, HandOver, EdgesNeeded
  <2>4. active' \in BOOLEAN /\ sem' \in {0, 1} /\ (active' => Len(edges') < EdgesNeeded)
    <3>1. Len(edges') \in Nat /\ Len(edges') <= EdgesNeeded
      BY <1>4, <2>1, IsrArmed
    <3>2. CASE Len(edges') = EdgesNeeded
      BY <1>4, <3>2, IsrArmed
    <3>3. CASE Len(edges') # EdgesNeeded
      BY <1>4, <2>1, <3>1, <3>3, IsrArmed DEF EdgesNeeded
    <3> QED BY <3>2, <3>3
  <2>5. TypeOK'
    BY <1>1, <1>2, <1>4, <2>4, IsrArmed DEF IInv, TypeOK, Waiting, Taken
  <2>6. HandOver'
    <3>1. CASE Len(edges') = EdgesNeeded
      <4>1. active' = FALSE
        BY <1>4, <3>1, IsrArmed
      <4> QED BY <1>1, <2>2, <3>1, <4>1 DEF HandOver, Taken
    <3>2. CASE Len(edges') # EdgesNeeded
      <4>1. active' = TRUE /\ sem' = sem
        BY <1>4, <3>2, IsrArmed
      <4> QED BY <1>1, <2>2, <2>3, <4>1 DEF HandOver, Taken
    <3> QED BY <3>1, <3>2
  <2>7. FreshEdges'
    BY <1>1, <1>4, IsrArmed DEF FreshEdges
  <2> QED BY <2>5, <2>6, <2>7 DEF IInv
<1> QED BY <1>3, <1>4

-----------------------------------------------------------------------------
LEMMA IInvStep == IInv /\ [Next]_vars => IInv'
<1> SUFFICES ASSUME IInv, [Next]_vars PROVE IInv'
  OBVIOUS
<1> USE DEF IInv, TypeOK, HandOver, FreshEdges, Waiting, Taken
<1>1. CASE Begin
  <2>1. call' \in 0..2
    BY <1>1 DEF Begin
  <2>2. edges' = <<>> /\ result' \in [ok : BOOLEAN, period : Nat, pulse : Nat]
    BY <1>1 DEF Begin, Cleared, NoResult
  <2> QED BY <1>1, <2>1, <2>2 DEF Begin, world, EdgesNeeded
<1>2. CASE Deactivate
  BY <1>2 DEF Deactivate, world
<1>3. CASE ResetToken
  BY <1>3 DEF ResetToken, ResetSem, world
<1>4. CASE EnableInterrupt
  BY <1>4 DEF EnableInterrupt, world
<1>5. CASE Activate
  BY <1>5 DEF Activate, world, EdgesNeeded
<1>6. CASE Take
  <2>1. UNCHANGED <<edges, active, intr, result, call, pending, phase, cycle>>
    BY <1>6 DEF Take, world
  <2>2. pc = "take" /\ pc' = "disable" /\ sem' = 0 /\ ret' \in {0, -1}
    BY <1>6 DEF Take
  <2>3. ret' = 0 => Len(edges) = EdgesNeeded
    BY <1>6 DEF Take
  <2>4. Len(edges) = EdgesNeeded => ~active
    BY DEF EdgesNeeded
  <2>5. TypeOK'
    BY <2>1, <2>2
  <2>6. HandOver'
    BY <2>1, <2>2, <2>3, <2>4
  <2> QED BY <2>1, <2>5, <2>6
<1>7. CASE DisableInterrupt
  <2>1. pending' \in -1..Latency
    BY <1>7, PwmAssumption DEF DisableInterrupt, PwmAssumption
  <2> QED BY <1>7, <2>1 DEF DisableInterrupt
<1>8. CASE Close
  BY <1>8 DEF Close, world
<1>9. CASE Compute
  <2>1. result' \in [ok : BOOLEAN, period : Nat, pulse : Nat]
    BY <1>9, MeasuredType DEF Compute, NoResult
  <2> QED BY <1>9, <2>1 DEF Compute, shared, world
<1>10. CASE Isr
  BY <1>10, IInvIsr
<1>11. CASE Tick
  <2>0. Word \in Nat /\ Word > 0 /\ Period \in Nat /\ Period > 0
    BY PwmAssumption DEF PwmAssumption
  <2>1. cycle' \in 0..(Word - 1) /\ phase' \in 0..(Period - 1)
    <3>1. cycle + 1 \in Int /\ phase + 1 \in Int
      BY <2>0
    <3>2. \A x \in Int : x % Word \in 0..(Word - 1) /\ x % Period \in 0..(Period - 1)
      BY <2>0
    <3> QED BY <1>11, <3>1, <3>2 DEF Tick
  <2>2. pending' \in -1..Latency
    BY <1>11, PwmAssumption DEF Tick, PwmAssumption
  <2> QED BY <1>11, <2>1, <2>2 DEF Tick, thread, shared
<1>12. CASE UNCHANGED vars
  BY <1>12 DEF vars, thread, shared, world
<1> QED
  BY <1>1, <1>2, <1>3, <1>4, <1>5, <1>6, <1>7, <1>8, <1>9, <1>10, <1>11, <1>12
  DEF Next, Thread

LEMMA IInvariant == Spec => []IInv
  BY IInvInit, IInvStep, PTL DEF Spec

\* The capture state of pwm_service.c keeps its type; the interrupt never finds
\* edge_times full while it is armed (pwm_service.c:40-60).
THEOREM CaptureTyped == Spec => []TypeOK
<1>1. IInv => TypeOK
  BY DEF IInv
<1> QED BY <1>1, IInvariant, PTL

\* k_sem_take never succeeds on the token of an earlier call (pwm_service.c:110-125).
THEOREM TokenIsFresh == Spec => []NoStaleToken
<1>1. IInv => NoStaleToken
  BY DEF IInv, HandOver, NoStaleToken
<1> QED BY <1>1, IInvariant, PTL

\* gpio_capture evaluates edges of its own call only (pwm_service.c:127-134).
THEOREM EdgesAreFresh == Spec => []FreshEdges
<1>1. IInv => FreshEdges
  BY DEF IInv
<1> QED BY <1>1, IInvariant, PTL

\* A late interrupt does not touch edges that the thread evaluates.
THEOREM EdgesAreFrozen == Spec => Frozen
<1> DEFINE Still == (pc \in Taken /\ ret = 0 /\ pc' # "idle") => edges' = edges
<1>1. IInv /\ [Next]_vars => [Still]_vars
  <2> SUFFICES ASSUME IInv, Next, pc \in Taken, ret = 0, pc' # "idle"
               PROVE  edges' = edges
    BY DEF vars
  <2>1. ~active
    BY DEF IInv, HandOver
  <2>2. CASE Isr
    BY <2>1, <2>2 DEF Isr
  <2>3. CASE Tick
    BY <2>3 DEF Tick, shared
  <2>4. CASE Thread
    BY <2>4
    DEF Thread, Taken, Begin, Deactivate, ResetToken, EnableInterrupt, Activate, Take,
        DisableInterrupt, Close, Compute, shared
  <2> QED BY <2>2, <2>3, <2>4 DEF Next
<1> QED BY <1>1, IInvariant, PTL DEF Spec, Frozen

-----------------------------------------------------------------------------
(* How far off a capture may be *)

\* No edge is lost in the interrupt of the one before it.
ShortLatency == Latency < High /\ Latency < Period - High

\* Rising edges come at phase 0, falling ones at High.
Start(level) == IF level = 1 THEN 0 ELSE High
Half(level)  == IF level = 1 THEN High ELSE Period - High

\* An edge to level came gone ticks ago, and the one after it has not run its
\* interrupt yet: this is where the input is, and since when that one waits.
Gone(gone, level, ph, pend) ==
  /\ gone <= Half(level) + Latency
  /\ pend = IF gone < Half(level) THEN -1 ELSE gone - Half(level)
  /\ ph = IF gone < Half(level) THEN Start(level) + gone
                                ELSE Start(1 - level) + (gone - Half(level))

\* Edge was stamped d ticks late, and is the last one that came.
Since(edge, d) == Gone(Span(edge.time, cycle) + d, edge.level, phase, pending)

\* b is the next edge after a; they were stamped da and db ticks late.
Apart(a, b, da, db) ==
  Span(a.time, b.time) = Half(a.level) + db - da /\ b.level = 1 - a.level

Delays == 0..Latency

OneEdge ==
  Len(edges) = 1 => \E d \in Delays : Since(edges[1], d)

TwoEdges ==
  Len(edges) = 2 =>
    \E d1, d2 \in Delays : Apart(edges[1], edges[2], d1, d2) /\ Since(edges[2], d2)

ThreeEdges ==
  Len(edges) = 3 =>
    \E d1, d2, d3 \in Delays :
      /\ Apart(edges[1], edges[2], d1, d2) /\ Apart(edges[2], edges[3], d2, d3)
      /\ Span(edges[1].time, edges[3].time) = Period + d3 - d1

\* While the thread waits, every edge is captured.
Armed ==
  /\ pc \in {"activate", "take"} => intr
  /\ pc = "take" => active \/ Len(edges) = EdgesNeeded

\* An interrupt that waits was raised by an edge so many ticks ago.
Raised == pending >= 0 => phase = pending \/ phase = High + pending

AInv ==
  /\ IInv /\ Raised /\ Armed /\ Accurate
  /\ pc = "take" => OneEdge /\ TwoEdges
  /\ pc = "take" \/ (pc \in Taken /\ ret = 0) => ThreeEdges

\* The remainder by w, for a number that is off by less than one turn.
LEMMA ModIs ==
  ASSUME NEW x \in Int, NEW w \in Nat \ {0}
  PROVE  /\ 0 <= x /\ x < w => x % w = x
         /\ x < 0 /\ -w <= x => x % w = x + w
         /\ w <= x /\ x < 2 * w => x % w = x - w
  OBVIOUS

LEMMA Constants ==
  /\ Period \in Nat /\ High \in Nat /\ Latency \in Nat /\ Word \in Nat \ {0}
  /\ 0 < High /\ High < Period /\ Word > Period + Latency
  BY PwmAssumption DEF PwmAssumption

\* uint32_t subtraction, with and without a wrap between the two.
LEMMA SpanIs ==
  ASSUME NEW a \in 0..(Word - 1), NEW b \in 0..(Word - 1)
  PROVE  /\ a <= b => Span(a, b) = b - a
         /\ b < a => Span(a, b) = b - a + Word
         /\ Span(a, b) \in 0..(Word - 1)
<1>1. Word \in Nat \ {0} /\ b - a \in Int /\ -Word <= b - a /\ b - a < Word
  BY Constants
<1>2. a <= b => 0 <= b - a
  OBVIOUS
<1>3. b < a => b - a < 0
  OBVIOUS
<1>4. /\ 0 <= b - a => (b - a) % Word = b - a
      /\ b - a < 0 => (b - a) % Word = b - a + Word
  BY <1>1, ModIs
<1> QED BY <1>1, <1>2, <1>3, <1>4 DEF Span

\* Spans of the cycle counter add up as long as they do not wrap.
LEMMA SpanAdds ==
  ASSUME NEW a \in 0..(Word - 1), NEW b \in 0..(Word - 1), NEW c \in 0..(Word - 1),
         Span(a, b) + Span(b, c) < Word
  PROVE  Span(a, c) = Span(a, b) + Span(b, c)
<1>1. PICK x \in 0..(Word - 1) :
        x = Span(a, b) /\ (a <= b => x = b - a) /\ (b < a => x = b - a + Word)
  BY SpanIs
<1>2. PICK y \in 0..(Word - 1) :
        y = Span(b, c) /\ (b <= c => y = c - b) /\ (c < b => y = c - b + Word)
  BY SpanIs
<1>3. PICK z \in 0..(Word - 1) :
        z = Span(a, c) /\ (a <= c => z = c - a) /\ (c < a => z = c - a + Word)
  BY SpanIs
<1>4. x + y < Word
  BY <1>1, <1>2
<1>5. z = x + y
  BY <1>1, <1>2, <1>3, <1>4, Constants
<1> QED BY <1>1, <1>2, <1>3, <1>5

\* Nothing passes between a stamp and itself; a tick is one more.
LEMMA SpanSelf == ASSUME NEW a \in 0..(Word - 1) PROVE Span(a, a) = 0
  BY SpanIs

LEMMA SpanTick ==
  ASSUME NEW t \in 0..(Word - 1), NEW c \in 0..(Word - 1), Span(t, c) + 1 < Word
  PROVE  Span(t, (c + 1) % Word) = Span(t, c) + 1 /\ (c + 1) % Word \in 0..(Word - 1)
<1>1. (c + 1) % Word = IF c + 1 < Word THEN c + 1 ELSE 0
  <2>1. Word \in Nat \ {0} /\ c + 1 \in Int /\ 0 <= c + 1
    BY Constants
  <2>2. CASE c + 1 < Word
    BY <2>1, <2>2, ModIs
  <2>3. CASE c + 1 = Word
    <3>1. (c + 1) % Word = c + 1 - Word
      BY <2>1, <2>3, ModIs
    <3> QED BY <2>1, <2>3, <3>1
  <2> QED BY <2>1, <2>2, <2>3
<1>2. PICK n \in 0..(Word - 1) : n = (c + 1) % Word /\ n = IF c + 1 < Word THEN c + 1 ELSE 0
  BY <1>1, Constants
<1>3. Span(c, n) = 1
  <2>1. 1 < Word
    BY Constants, SpanIs
  <2>2. CASE c + 1 < Word
    BY <1>2, <2>2, SpanIs, Constants
  <2>3. CASE c + 1 = Word
    <3>1. n = 0 /\ n < c
      BY <1>2, <2>1, <2>3, Constants
    <3>2. Span(c, n) = n - c + Word
      BY <3>1, SpanIs
    <3> QED BY <2>3, <3>1, <3>2, Constants
  <2> QED BY <2>2, <2>3, Constants
<1>4. Span(t, n) = Span(t, c) + Span(c, n)
  BY <1>3, SpanAdds
<1> QED BY <1>2, <1>3, <1>4

\* An edge that is stamped k ticks late begins to wait for the next one.
LEMMA GoneFirst ==
  ASSUME ShortLatency, NEW k \in Delays, NEW level \in {0, 1}
  PROVE  Gone(k, level, Start(level) + k, -1)
  BY Constants DEF ShortLatency, Delays, Gone, Start, Half

\* A tick of the clock.
LEMMA GoneOn ==
  ASSUME NEW g \in Nat, NEW level \in {0, 1}, NEW ph \in Int, NEW pend \in Int,
         NEW ph2 \in Int, NEW pend2 \in Int,
         Gone(g, level, ph, pend), pend < Latency, ph2 = (ph + 1) % Period,
         pend2 = IF pend >= 0 THEN pend + 1 ELSE IF ph2 \in {0, High} THEN 0 ELSE -1,
         ShortLatency
  PROVE  Gone(g + 1, level, ph2, pend2)
<1>1. 0 <= ph /\ ph < Period
  <2>1. CASE level = 1
    BY <2>1, Constants DEF ShortLatency, Gone, Start, Half
  <2>2. CASE level = 0
    BY <2>2, Constants DEF ShortLatency, Gone, Start, Half
  <2> QED BY <2>1, <2>2
<1>2. ph2 = IF ph + 1 < Period THEN ph + 1 ELSE 0
  <2>1. Period \in Nat \ {0} /\ ph + 1 \in Int /\ 0 <= ph + 1 /\ ph + 1 < 2 * Period
    BY <1>1, Constants
  <2>2. CASE ph + 1 < Period
    BY <2>1, <2>2, ModIs
  <2>3. CASE ph + 1 = Period
    <3>1. Period <= Period /\ Period < 2 * Period
      BY <2>1
    <3>2. Period % Period = Period - Period
      BY <2>1, <3>1, ModIs
    <3> QED BY <2>1, <2>3, <3>2
  <2> QED BY <1>1, <2>1, <2>2, <2>3
<1>3. CASE level = 1
  BY <1>1, <1>2, <1>3, Constants DEF ShortLatency, Gone, Start, Half
<1>4. CASE level = 0
  BY <1>1, <1>2, <1>4, Constants DEF ShortLatency, Gone, Start, Half
<1> QED BY <1>3, <1>4

\* The interrupt captures an edge that was raised pending ticks ago.
LEMMA EdgeComes ==
  ASSUME AInv, ShortLatency, Isr, active, pc = "take"
  PROVE  /\ pending \in Delays /\ cycle \in 0..(Word - 1)
         /\ edges' = Append(edges, Stamp) /\ Stamp.time = cycle /\ Stamp.level = Level
         /\ Level \in {0, 1} /\ phase = Start(Level) + pending
         /\ cycle' = cycle /\ phase' = phase /\ pending' = -1
<1>1. /\ edges' = Append(edges, Stamp) /\ pending >= 0 /\ cycle' = cycle /\ phase' = phase
      /\ pending' = -1
  BY IsrArmed DEF AInv, Isr
<1>2. /\ pending \in -1..Latency /\ cycle \in 0..(Word - 1) /\ phase \in 0..(Period - 1)
  BY DEF AInv, IInv, TypeOK
<1>3. pending \in Delays
  BY <1>1, <1>2, Constants DEF Delays
<1>4. phase = pending \/ phase = High + pending
  BY <1>1 DEF AInv, Raised
<1>5. Level \in {0, 1} /\ phase = Start(Level) + pending
  BY <1>3, <1>4, Constants DEF ShortLatency, Level, Start, Delays
<1> QED BY <1>1, <1>2, <1>3, <1>5 DEF Stamp

\* The next edge after the one that was stamped d ticks late.
LEMMA NextEdge ==
  ASSUME NEW e \in Edge, NEW d \in Delays, Since(e, d),
         pending \in Delays, phase \in Nat, cycle \in 0..(Word - 1), ShortLatency
  PROVE  Span(e.time, cycle) = Half(e.level) + pending - d /\ Level = 1 - e.level
<1>1. e.time \in 0..(Word - 1) /\ e.level \in {0, 1}
  BY DEF Edge
<1>2. PICK s \in Nat : s = Span(e.time, cycle)
  BY <1>1, SpanIs
<1>3. PICK k \in Int, ph \in Int : k = pending /\ ph = phase /\ k >= 0 /\ d \in Nat
  BY Constants DEF Delays
<1>4. Gone(s + d, e.level, ph, k) /\ s + d \in Nat
  BY <1>2, <1>3 DEF Since
<1>5. CASE e.level = 1
  <2>1. Gone(s + d, 1, ph, k)
    BY <1>4, <1>5
  <2>2. s = High + k - d /\ ~(ph < High)
    BY <1>3, <2>1, Constants DEF ShortLatency, Gone, Start, Half
  <2> QED BY <1>2, <1>3, <1>5, <2>2 DEF Half, Level
<1>6. CASE e.level = 0
  <2>1. Gone(s + d, 0, ph, k)
    BY <1>4, <1>6
  <2>2. s = Period - High + k - d /\ ph < High
    BY <1>3, <2>1, Constants DEF ShortLatency, Gone, Start, Half, Delays
  <2> QED BY <1>2, <1>3, <1>6, <2>2 DEF Half, Level
<1> QED BY <1>1, <1>5, <1>6

\* The stamp of each edge is the half period after the one before it, as far off
\* as the two interrupts were late.
LEMMA IsrKeeps == ASSUME AInv, ShortLatency, Isr PROVE AInv'
<1>1. IInv'
  BY IInvIsr DEF AInv
<1>2. /\ UNCHANGED <<pc, ret, result, call, intr>> /\ pending' = -1
  BY DEF Isr, thread
<1>3. Raised' /\ Accurate'
  BY <1>2 DEF AInv, Raised, Accurate
<1>4. CASE ~active
  <2>1. UNCHANGED <<edges, active>>
    BY <1>4 DEF Isr
  <2>2. Armed'
    BY <1>2, <2>1 DEF AInv, Armed
  <2>3. pc = "take" => Len(edges) = EdgesNeeded
    BY <1>4 DEF AInv, Armed
  <2>4. pc = "take" => (OneEdge /\ TwoEdges)'
    BY <2>1, <2>3 DEF OneEdge, TwoEdges, EdgesNeeded
  <2> QED BY <1>1, <1>2, <1>3, <2>1, <2>2, <2>4 DEF AInv, ThreeEdges
<1>5. CASE active /\ pc # "take"
  <2>1. ~(pc \in Taken /\ ret = 0) /\ pc \notin {"activate"}
    BY <1>5 DEF AInv, IInv, HandOver
  <2> QED BY <1>1, <1>2, <1>3, <1>5, <2>1 DEF AInv, Armed
<1>6. CASE active /\ pc = "take"
  <2>1. /\ pending \in Delays /\ cycle \in 0..(Word - 1)
        /\ edges' = Append(edges, Stamp) /\ Stamp.time = cycle /\ Stamp.level = Level
        /\ Level \in {0, 1} /\ phase = Start(Level) + pending
        /\ cycle' = cycle /\ phase' = phase /\ pending' = -1
    BY <1>6, EdgeComes
  <2>2. /\ edges \in Seq(Edge) /\ Stamp \in Edge /\ Len(edges) < 3 /\ Len(edges) \in Nat
        /\ phase \in Nat
    BY <1>6, StampType DEF AInv, IInv, TypeOK, EdgesNeeded
  <2> HIDE DEF Stamp
  <2>3. /\ Len(edges') = Len(edges) + 1 /\ edges'[Len(edges) + 1] = Stamp
        /\ \A i \in 1..Len(edges) : edges'[i] = edges[i] /\ edges[i] \in Edge
    BY <2>1, <2>2
  <2>4. Armed'
    <3>1. Len(edges') = EdgesNeeded \/ active'
      BY <1>6, IsrArmed DEF AInv
    <3> QED BY <1>2, <1>6, <3>1 DEF AInv, Armed
  <2>5. PICK k \in Delays, e \in Edge :
          k = pending /\ e = Stamp /\ e.time = cycle /\ e.level = Level
    BY <2>1, <2>2
  <2>6. Since(e, k)'
    <3>1. Span(cycle, cycle) + k = k
      BY <2>1, SpanSelf, Constants DEF Delays
    <3>2. Gone(k, e.level, Start(e.level) + k, -1)
      BY <2>1, <2>5, GoneFirst
    <3> QED BY <2>1, <2>5, <3>1, <3>2 DEF Since
  <2>7. OneEdge'
    <3> SUFFICES ASSUME Len(edges') = 1 PROVE OneEdge'
      BY DEF OneEdge
    <3>1. PICK n \in Nat : n = Len(edges) /\ n + 1 = 1
      BY <2>2, <2>3
    <3>2. edges'[1] = e
      BY <2>3, <2>5, <3>1
    <3> QED BY <2>6, <3>2 DEF OneEdge
  <2>8. TwoEdges'
    <3> SUFFICES ASSUME Len(edges') = 2 PROVE TwoEdges'
      BY DEF TwoEdges
    <3>0. PICK n \in Nat : n = Len(edges) /\ n + 1 = 2
      BY <2>2, <2>3
    <3>1. Len(edges) = 1 /\ Len(edges) + 1 = 2
      BY <3>0
    <3>2. PICK a \in Edge : a = edges[1] /\ edges'[1] = a /\ edges'[2] = e
      BY <2>3, <2>5, <3>1
    <3>3. PICK d \in Delays : Since(a, d)
      BY <1>6, <3>1, <3>2 DEF AInv, OneEdge
    <3>4. Apart(a, e, d, k)
      BY <2>1, <2>2, <2>5, <3>3, NextEdge DEF Apart
    <3> QED BY <2>6, <3>2, <3>4 DEF TwoEdges
  <2>9. ThreeEdges'
    <3> SUFFICES ASSUME Len(edges') = 3 PROVE ThreeEdges'
      BY DEF ThreeEdges
    <3>0. PICK n \in Nat : n = Len(edges) /\ n + 1 = 3
      BY <2>2, <2>3
    <3>1. Len(edges) = 2 /\ Len(edges) + 1 = 3
      BY <3>0
    <3>2. PICK a \in Edge, b \in Edge :
            /\ a = edges[1] /\ b = edges[2]
            /\ edges'[1] = a /\ edges'[2] = b /\ edges'[3] = e
      BY <2>3, <2>5, <3>1
    <3>3. PICK d1 \in Delays, d2 \in Delays : Apart(a, b, d1, d2) /\ Since(b, d2)
      BY <1>6, <3>1, <3>2 DEF AInv, TwoEdges
    <3>4. Apart(b, e, d2, k)
      BY <2>1, <2>2, <2>5, <3>3, NextEdge DEF Apart
    <3>5. Span(a.time, e.time) = Period + k - d1
      <4>1. PICK x \in Int, y \in Int : x = Span(a.time, b.time) /\ y = Span(b.time, e.time)
        BY SpanIs DEF Edge
      <4>2. d1 \in Int /\ d2 \in Int /\ k \in Int /\ 0 <= d1 /\ k <= Latency
        BY Constants DEF Delays
      <4>3. a.level \in {0, 1} /\ b.level = 1 - a.level
        BY <3>3 DEF Apart, Edge
      <4>4. PICK h \in Int : h = Half(a.level) /\ Half(b.level) = Period - h
        BY <4>3, Constants DEF Half
      <4>5. x = h + d2 - d1 /\ y = Period - h + k - d2
        BY <3>3, <3>4, <4>1, <4>4 DEF Apart
      <4>6. x + y = Period + k - d1 /\ x + y < Word
        BY <4>2, <4>4, <4>5, Constants
      <4>7. Span(a.time, e.time) = x + y
        BY <4>1, <4>6, SpanAdds DEF Edge
      <4> QED BY <4>6, <4>7
    <3> QED BY <3>2, <3>3, <3>4, <3>5 DEF ThreeEdges
  <2> QED BY <1>1, <1>2, <1>3, <1>6, <2>4, <2>7, <2>8, <2>9 DEF AInv
<1> QED BY <1>4, <1>5, <1>6

\* A tick of the clock, for the thread that waits for the edge after e.
LEMMA TickSince ==
  ASSUME NEW e \in Edge, NEW d \in Delays, IInv, intr, Tick, ShortLatency, Since(e, d)
  PROVE  Since(e, d)'
<1>1. e.time \in 0..(Word - 1) /\ e.level \in {0, 1}
  BY DEF Edge
<1>2. /\ cycle \in 0..(Word - 1) /\ phase \in 0..(Period - 1) /\ pending \in -1..Latency
  BY DEF IInv, TypeOK
<1>3. PICK s \in Nat, l \in {0, 1}, ph \in Int, k \in Int :
        s = Span(e.time, cycle) /\ l = e.level /\ ph = phase /\ k = pending
  <2>1. e.time \in Int /\ cycle \in Int
    BY <1>1, <1>2, Constants
  <2>3. Span(e.time, cycle) \in Nat
    BY <2>1, SpanType
  <2>2. phase \in Int /\ pending \in Int
    BY <1>2, Constants
  <2> QED BY <1>1, <2>2, <2>3
<1>4. Gone(s + d, l, ph, k) /\ k < Latency /\ d \in Nat /\ s + d \in Nat
  BY <1>3, Constants DEF Since, Tick, Delays
<1>5. PICK ph2 \in Int, k2 \in Int :
        /\ ph2 = phase' /\ k2 = pending' /\ ph2 = (ph + 1) % Period
        /\ k2 = IF k >= 0 THEN k + 1 ELSE IF ph2 \in {0, High} THEN 0 ELSE -1
  BY <1>3, Constants DEF Tick
<1>6. Gone(s + d + 1, l, ph2, k2)
  BY <1>3, <1>4, <1>5, GoneOn
<1>7. s + 1 < Word
  <2>1. CASE l = 1
    BY <1>4, <2>1, Constants DEF Gone, Half
  <2>2. CASE l = 0
    BY <1>4, <2>2, Constants DEF Gone, Half
  <2> QED BY <2>1, <2>2
<1>8. Span(e.time, (cycle + 1) % Word) = s + 1
  BY <1>1, <1>2, <1>3, <1>7, SpanTick
<1>9. Span(e.time, cycle') + d = s + d + 1
  BY <1>3, <1>4, <1>8 DEF Tick
<1> QED BY <1>3, <1>5, <1>6, <1>9 DEF Since

LEMMA TickKeeps == ASSUME AInv, ShortLatency, Tick PROVE AInv'
<1>1. IInv'
  BY IInvStep DEF AInv, Next
<1>2. UNCHANGED <<pc, ret, result, call, edges, active, sem, intr>>
  BY DEF Tick, thread, shared
<1>3. Accurate' /\ Armed'
  BY <1>2 DEF AInv, Accurate, Armed
<1>4. Raised'
  <2>1. PICK ph \in 0..(Period - 1), k \in -1..Latency : ph = phase /\ k = pending
    BY DEF AInv, IInv, TypeOK
  <2>2. PICK ph2 \in 0..(Period - 1), k2 \in -1..Latency : ph2 = phase' /\ k2 = pending'
    BY <1>1 DEF IInv, TypeOK
  <2>3. k < Latency /\ ph2 = (ph + 1) % Period
    BY <2>1, <2>2 DEF Tick
  <2>4. CASE k >= 0
    <3>1. k2 = k + 1 /\ (ph = k \/ ph = High + k)
      BY <2>1, <2>2, <2>4, Constants DEF Tick, AInv, Raised
    <3>2. ph + 1 < Period /\ 0 <= ph + 1 /\ ph + 1 \in Int /\ Period \in Nat \ {0}
      BY <2>3, <2>4, <3>1, Constants DEF ShortLatency
    <3>3. ph2 = ph + 1
      BY <2>3, <3>2, ModIs
    <3> QED BY <2>2, <3>1, <3>3, Constants DEF Raised
  <2>5. CASE ~(k >= 0)
    <3>1. k2 >= 0 => k2 = 0 /\ ph2 \in {0, High}
      BY <2>1, <2>2, <2>5 DEF Tick
    <3> QED BY <2>2, <3>1, Constants DEF Raised
  <2> QED BY <2>4, <2>5
<1>5. pc = "take" => intr /\ OneEdge /\ TwoEdges
  BY DEF AInv, Armed
<1>6. ASSUME pc = "take" PROVE OneEdge' /\ TwoEdges'
  <2>1. edges \in Seq(Edge)
    BY DEF AInv, IInv, TypeOK
  <2>2. \A e \in Edge : \A d \in Delays : Since(e, d) => Since(e, d)'
    BY <1>5, <1>6, TickSince DEF AInv
  <2>3. OneEdge'
    <3> SUFFICES ASSUME Len(edges) = 1 PROVE OneEdge'
      BY <1>2 DEF OneEdge
    <3>1. PICK e \in Edge : e = edges[1]
      BY <2>1
    <3>2. PICK d \in Delays : Since(e, d)
      BY <1>5, <1>6, <3>1 DEF OneEdge
    <3>3. Since(e, d)'
      BY <2>2, <3>2
    <3>4. edges'[1] = e
      BY <1>2, <3>1
    <3> QED BY <3>3, <3>4 DEF OneEdge
  <2>4. TwoEdges'
    <3> SUFFICES ASSUME Len(edges) = 2 PROVE TwoEdges'
      BY <1>2 DEF TwoEdges
    <3>1. PICK a \in Edge, b \in Edge : a = edges[1] /\ b = edges[2]
      BY <2>1
    <3>2. PICK d1 \in Delays, d2 \in Delays : Apart(a, b, d1, d2) /\ Since(b, d2)
      BY <1>5, <1>6, <3>1 DEF TwoEdges
    <3>3. Since(b, d2)'
      BY <2>2, <3>2
    <3>4. edges'[1] = a /\ edges'[2] = b
      BY <1>2, <3>1
    <3> QED BY <3>2, <3>3, <3>4 DEF TwoEdges
  <2> QED BY <2>3, <2>4
<1> QED BY <1>1, <1>2, <1>3, <1>4, <1>6 DEF AInv, ThreeEdges

-----------------------------------------------------------------------------
LEMMA AInit == Init => AInv
<1> SUFFICES ASSUME Init PROVE AInv
  OBVIOUS
<1>1. IInv
  BY IInvInit
<1>2. pc = "idle" /\ pending = -1 /\ result.ok = FALSE
  BY DEF Init, NoResult
<1> QED BY <1>1, <1>2 DEF AInv, Raised, Armed, Accurate, Taken

\* Three edges that were stamped at most Latency ticks late give the period and
\* the high time up to Latency.
LEMMA MeasuredIsAccurate ==
  ASSUME edges \in Seq(Edge), Len(edges) = 3, ThreeEdges, ShortLatency, Measured.ok
  PROVE  /\ Measured.period \in (Period - Latency)..(Period + Latency)
         /\ Measured.pulse \in (High - Latency)..(High + Latency)
<1>1. PICK a \in Edge, b \in Edge, c \in Edge : a = edges[1] /\ b = edges[2] /\ c = edges[3]
  OBVIOUS
<1>2. PICK d1 \in Delays, d2 \in Delays, d3 \in Delays :
        /\ Apart(a, b, d1, d2) /\ Apart(b, c, d2, d3)
        /\ Span(a.time, c.time) = Period + d3 - d1
  BY <1>1 DEF ThreeEdges
<1>3. Measured.period = Span(a.time, c.time) /\ Measured.pulse = Pulse
  BY <1>1 DEF Measured, NoResult
<1>4. /\ d1 \in Int /\ 0 <= d1 /\ d1 <= Latency /\ d2 \in Int /\ 0 <= d2 /\ d2 <= Latency
      /\ d3 \in Int /\ 0 <= d3 /\ d3 <= Latency
  BY Constants DEF Delays
<1>5. CASE a.level = 1
  <2>1. Pulse = High + d2 - d1
    BY <1>1, <1>2, <1>5 DEF Pulse, Apart, Half
  <2> QED BY <1>2, <1>3, <1>4, <2>1, Constants
<1>6. CASE a.level = 0
  <2>1. Pulse = High + d3 - d2
    <3>1. b.level = 1
      BY <1>2, <1>6 DEF Apart
    <3> QED BY <1>1, <1>2, <1>6, <3>1 DEF Pulse, Apart, Half
  <2> QED BY <1>2, <1>3, <1>4, <2>1, Constants
<1>7. a.level \in {0, 1}
  BY DEF Edge
<1> QED BY <1>5, <1>6, <1>7

LEMMA ThreadKeeps == ASSUME AInv, ShortLatency, Thread PROVE AInv'
<1>1. IInv'
  BY IInvStep DEF AInv, Next
<1>2. CASE Begin
  <2>1. pc' = "deactivate" /\ result'.ok = FALSE /\ UNCHANGED <<pending, phase>>
    BY <1>2 DEF Begin, NoResult, world
  <2> QED BY <1>1, <2>1 DEF AInv, Raised, Armed, Accurate, Taken
<1>3. CASE Deactivate
  BY <1>1, <1>3 DEF Deactivate, world, AInv, Raised, Armed, Accurate, Taken
<1>4. CASE ResetToken
  BY <1>1, <1>4 DEF ResetToken, world, AInv, Raised, Armed, Accurate, Taken
<1>5. CASE EnableInterrupt
  BY <1>1, <1>5 DEF EnableInterrupt, world, AInv, Raised, Armed, Accurate, Taken
<1>6. CASE Activate
  <2>1. /\ pc' = "take" /\ active' /\ edges' = <<>> /\ intr'
        /\ UNCHANGED <<pending, phase, result>>
    BY <1>6 DEF Activate, world, AInv, IInv, HandOver, Armed
  <2>2. Len(edges') = 0
    BY <2>1
  <2> QED
    BY <1>1, <2>1, <2>2
    DEF AInv, Raised, Armed, Accurate, OneEdge, TwoEdges, ThreeEdges
<1>7. CASE Take
  <2>1. /\ pc' = "disable" /\ pc = "take"
        /\ UNCHANGED <<edges, pending, phase, cycle, result>>
    BY <1>7 DEF Take, world
  <2>2. ThreeEdges'
    BY <2>1 DEF AInv, ThreeEdges
  <2> QED BY <1>1, <2>1, <2>2 DEF AInv, Raised, Armed, Accurate
<1>8. CASE DisableInterrupt
  <2>1. /\ pc' = "close" /\ pc = "disable" /\ pending' \in {pending, -1}
        /\ UNCHANGED <<edges, phase, cycle, result, ret>>
    BY <1>8 DEF DisableInterrupt
  <2>2. ThreeEdges => ThreeEdges'
    BY <2>1 DEF ThreeEdges
  <2>3. Raised'
    <3>1. CASE pending' = pending
      BY <2>1, <3>1 DEF AInv, Raised
    <3>2. CASE pending' = -1
      BY <3>2 DEF Raised
    <3> QED BY <2>1, <3>1, <3>2
  <2> QED BY <1>1, <2>1, <2>2, <2>3 DEF AInv, Armed, Accurate, Taken
<1>9. CASE Close
  <2>1. /\ pc' = "compute" /\ pc = "close"
        /\ UNCHANGED <<edges, pending, phase, cycle, result, ret>>
    BY <1>9 DEF Close, world
  <2>2. ThreeEdges => ThreeEdges'
    BY <2>1 DEF ThreeEdges
  <2> QED BY <1>1, <2>1, <2>2 DEF AInv, Raised, Armed, Accurate, Taken
<1>10. CASE Compute
  <2>1. pc' = "idle" /\ pc = "compute" /\ UNCHANGED <<pending, phase>>
    BY <1>10 DEF Compute, world
  <2>2. Accurate'
    <3>1. CASE ret = 0 /\ Len(edges) = EdgesNeeded
      <4>1. edges \in Seq(Edge) /\ Len(edges) = 3 /\ ThreeEdges
        BY <2>1, <3>1 DEF AInv, IInv, TypeOK, Taken, EdgesNeeded
      <4>2. result' = Measured
        BY <1>10, <3>1 DEF Compute
      <4> QED BY <4>1, <4>2, MeasuredIsAccurate DEF Accurate
    <3>2. CASE ~(ret = 0 /\ Len(edges) = EdgesNeeded)
      BY <1>10, <3>2 DEF Compute, NoResult, Accurate
    <3> QED BY <3>1, <3>2
  <2> QED BY <1>1, <2>1, <2>2 DEF AInv, Raised, Armed, Taken
<1> QED
  BY <1>2, <1>3, <1>4, <1>5, <1>6, <1>7, <1>8, <1>9, <1>10 DEF Thread

LEMMA AStep == AInv /\ ShortLatency /\ [Next]_vars => AInv'
<1> SUFFICES ASSUME AInv, ShortLatency, [Next]_vars PROVE AInv'
  OBVIOUS
<1>1. CASE UNCHANGED vars
  <2>1. IInv'
    BY <1>1, IInvStep DEF AInv
  <2> QED
    BY <1>1, <2>1
    DEF vars, thread, shared, world, AInv, Raised, Armed, Accurate,
        OneEdge, TwoEdges, ThreeEdges, Since, Apart
<1> QED BY <1>1, ThreadKeeps, IsrKeeps, TickKeeps DEF Next

\* gpio_capture reports the period and the high time within the interrupt's
\* latency, whichever edge came first and also when the cycle counter wraps
\* (pwm_service.c:127-155), for every input whose high and low times are both
\* longer than the latency.
THEOREM CaptureIsAccurate == ASSUME ShortLatency PROVE Spec => []Accurate
<1>1. AInv /\ [Next]_vars => AInv'
  BY AStep
<1>2. AInv => Accurate
  BY DEF AInv
<1> QED BY <1>1, <1>2, AInit, PTL DEF Spec
=============================================================================
