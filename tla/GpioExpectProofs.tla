-------------------------- MODULE GpioExpectProofs --------------------------
(***************************************************************************)
(* GpioExpect for every set of channels and timeouts: types, and, while    *)
(* sleeps are late by less than a polling interval, that the level that    *)
(* was written is the one GPIO_EXPECT reads.                               *)
(***************************************************************************)
EXTENDS GpioExpect, TLAPS

NotTooLate == Late < PollMs

-----------------------------------------------------------------------------
(* Types *)

\* The call sleeps only within its time.
Typed == TypeOK /\ (tpc = "sleep" => elapsed <= call.timeout)

LEMMA TimeoutInt == ASSUME NEW t \in Timeouts \cup {100} PROVE t \in Int
  BY GpioAssumption DEF GpioAssumption

LEMMA TypedInit == Init => Typed
  BY GpioAssumption
  DEF GpioAssumption, Init, DioInit, GpioInit, Typed, TypeOK, NoResp, LoopMs, PollMs

LEMMA TypedStep == Typed /\ [Next]_vars => Typed'
<1> SUFFICES ASSUME Typed, [Next]_vars PROVE Typed'
  OBVIOUS
<1> USE GpioAssumption DEF GpioAssumption, Typed, TypeOK, LoopMs, PollMs
<1>0. call.timeout \in Int /\ call.val \in {0, 1}
  <2>1. call.timeout \in Timeouts \cup {100} /\ call.val \in {0, 1}
    OBVIOUS
  <2> QED BY <2>1, TimeoutInt, Zenon
<1>1. CASE ReadButton
  BY <1>1 DEF ReadButton, testbench
<1>2. CASE Mirror
  BY <1>2 DEF Mirror, testbench, Led
<1>3. CASE Poll
  <2>1. /\ tpc = "poll" /\ elapsed <= call.timeout /\ elapsed' = elapsed /\ call' = call
        /\ UNCHANGED <<dut, pb0>> /\ actual' \in {0, 1}
    BY <1>3 DEF Poll, TimeLeft, Readings
  <2>2. /\ tpc' \in {"idle", "sleep"} /\ twait' \in 0..(PollMs + Late)
        /\ \/ resp' = resp
           \/ \E st \in {"OK", "FAIL"} : resp' = Answer(st)
    <3>1. CASE call.ch \notin Known
      BY <1>3, <3>1 DEF Poll
    <3>2. CASE call.ch \in Known /\ actual' = call.val
      BY <1>3, <3>2 DEF Poll
    <3>3. CASE call.ch \in Known /\ actual' # call.val
      BY <1>3, <3>3 DEF Poll
    <3> QED BY <3>1, <3>2, <3>3
  <2>3. resp' \in [status : {"NONE", "OK", "FAIL"}, expected : {0, 1}, actual : {0, 1}]
    BY <1>0, <2>1, <2>2 DEF Answer
  <2> QED BY <2>1, <2>2, <2>3 DEF dut
<1>4. CASE AfterSleep
  BY <1>0, <1>4 DEF AfterSleep, Advanced, dut
<1>5. CASE Mismatch
  BY <1>0, <1>5 DEF Mismatch, Answer, dut
<1>6. CASE Tick
  BY <1>6 DEF Tick
<1>7. CASE \E ch \in Channels, v \in {0, 1} : GpioWrite(ch, v)
  BY <1>7 DEF GpioWrite, NoResp, dut
<1>8. CASE \E ch \in Channels : GpioRead(ch)
  <2>1. PICK ch \in Channels : GpioRead(ch)
    BY <1>8
  <2>2. resp' \in [status : {"NONE", "OK", "FAIL"}, expected : {0, 1}, actual : {0, 1}]
    <3>1. Readings(ch) \subseteq {0, 1}
      BY DEF Readings
    <3>2. CASE ch \in Known
      <4>1. PICK level \in {0, 1} : resp' = [NoResp EXCEPT !.status = "OK", !.actual = level]
        BY <2>1, <3>1, <3>2 DEF GpioRead
      <4> QED BY <4>1 DEF NoResp
    <3>3. CASE ch \notin Known
      <4>1. resp' = [NoResp EXCEPT !.status = "FAIL"]
        BY <2>1, <3>3 DEF GpioRead
      <4> QED BY <4>1 DEF NoResp
    <3> QED BY <3>2, <3>3
  <2> QED BY <2>1, <2>2 DEF GpioRead, dut
<1>9. CASE \E ch \in Channels, v \in {0, 1}, t \in Timeouts : GpioExpect(ch, v, t)
  BY <1>9 DEF GpioExpect, NoResp, dut
<1>10. CASE UNCHANGED vars
  BY <1>10 DEF vars, dut, testbench
<1> QED
  BY <1>1, <1>2, <1>3, <1>4, <1>5, <1>6, <1>7, <1>8, <1>9, <1>10 DEF Next, Dut1, Steps

\* The loops of gpio_service.c and DUT1 keep their variables well typed, whatever
\* the channel and the timeout of a call.
THEOREM TypeCorrect == Spec => []TypeOK
<1>1. Typed => TypeOK
  BY DEF Typed
<1> QED BY <1>1, TypedInit, TypedStep, PTL DEF Spec

-----------------------------------------------------------------------------
(* The race of two loops *)

\* A call that must pass.
Expecting ==
  /\ tpc # "idle" /\ call.ch = "DIO_IN1" /\ call.val = pb0
  /\ call.timeout >= LoopMs + PollMs

\* How many ms have passed since the call began, at least.
Passed == IF tpc = "sleep" THEN elapsed + PollMs - twait ELSE elapsed

Mirrored == pb1 = pb0 /\ (dpc = "mirror" => button = pb0)

\* DUT1 has copied what was written, or will within a turn of its loop.
InTime ==
  \/ Mirrored
  \/ dpc = "sleep" /\ Passed + dwait <= LoopMs + Late
  \/ dpc = "mirror" /\ button = pb0 /\ Passed <= LoopMs + Late
  \/ dpc = "mirror" /\ Passed <= 0

\* The call looks again after that turn.
LooksAgain ==
  /\ tpc = "poll"  => elapsed \in {0, 5, 10, 15}
  /\ tpc = "sleep" => elapsed \in {0, 5, 10}

Race == Expecting => InTime /\ LooksAgain
GInv == Typed /\ Race

LEMMA RaceInit == Init => GInv
  BY TypedInit DEF Init, GpioInit, GInv, Race, Expecting

\* Of the facts of a step, those the race is about.
LEMMA RaceStep == ASSUME NotTooLate, GInv, [Next]_vars PROVE GInv'
<1> SUFFICES Race'
  BY TypedStep DEF GInv
<1> USE DEF LoopMs, PollMs
<1>0. /\ dpc \in {"mirror", "sleep"} /\ tpc \in {"idle", "poll", "sleep"}
      /\ button \in {0, 1} /\ pb0 \in {0, 1} /\ pb1 \in {0, 1}
      /\ dwait \in 0..(10 + Late) /\ twait \in 0..(5 + Late)
      /\ Late \in 0..4 /\ elapsed \in Int
  <2>1. Late \in 0..4
    BY GpioAssumption DEF GpioAssumption, NotTooLate
  <2>2. /\ dpc \in {"mirror", "sleep"} /\ tpc \in {"idle", "poll", "sleep"}
        /\ button \in {0, 1} /\ pb0 \in {0, 1} /\ pb1 \in {0, 1}
        /\ dwait \in 0..(10 + Late) /\ twait \in 0..(5 + Late)
        /\ elapsed = 0 \/ elapsed \in 0..(call.timeout + 5)
    BY DEF GInv, Typed, TypeOK
  <2> QED BY <2>1, <2>2
<1>1. CASE ReadButton
  <2>1. /\ dpc = "sleep" /\ dwait = 0 /\ button' = pb0 /\ dpc' = "mirror"
        /\ UNCHANGED <<dwait, pb0, pb1, tpc, twait, call, elapsed>>
    BY <1>1 DEF ReadButton, testbench
  <2>2. Expecting' => Expecting /\ Passed' = Passed /\ LooksAgain' = LooksAgain
    BY <2>1 DEF Expecting, Passed, LooksAgain
  <2>3. Passed \in Int
    BY <1>0 DEF Passed
  <2>4. InTime => InTime'
    BY <1>0, <2>1, <2>3 DEF InTime, Mirrored, Passed
  <2> QED BY <2>2, <2>4 DEF GInv, Race
<1>2. CASE Mirror
  <2>1. /\ dpc = "mirror" /\ pb1' = button /\ dpc' = "sleep" /\ dwait' \in 10..(10 + Late)
        /\ UNCHANGED <<button, pb0, tpc, twait, call, elapsed>>
    BY <1>2 DEF Mirror, testbench, Led
  <2>2. Expecting' => Expecting /\ Passed' = Passed /\ LooksAgain' = LooksAgain
    BY <2>1 DEF Expecting, Passed, LooksAgain
  <2>3. Passed \in Int
    BY <1>0 DEF Passed
  <2>4. InTime => InTime'
    <3>1. CASE button = pb0
      BY <2>1, <3>1 DEF InTime, Mirrored
    <3>2. CASE button # pb0
      <4>1. InTime => Passed <= 0
        BY <1>0, <2>1, <3>2 DEF InTime, Mirrored
      <4>2. Passed' = Passed
        BY <2>1 DEF Passed
      <4>3. PICK w \in 10..(10 + Late) : dwait' = w
        BY <2>1
      <4>4. Passed <= 0 => Passed + w <= 10 + Late
        BY <1>0, <2>3
      <4> QED BY <2>1, <4>1, <4>2, <4>3, <4>4 DEF InTime
    <3> QED BY <3>1, <3>2
  <2> QED BY <2>2, <2>4 DEF GInv, Race
<1>3. CASE Poll
  <2> SUFFICES ASSUME Expecting' PROVE InTime' /\ LooksAgain'
    BY DEF Race
  <2>1. /\ tpc = "poll" /\ UNCHANGED <<dpc, button, dwait, pb1, pb0, call, elapsed>>
        /\ actual' \in (IF call.ch \in Known THEN Readings(call.ch) ELSE {actual})
    BY <1>3 DEF Poll, dut
  <2>2. Expecting /\ call.ch = "DIO_IN1" /\ call.ch \in Known /\ call.val = pb0
    BY <2>1 DEF Expecting, Known
  <2>3. actual' = pb1
    BY <2>1, <2>2 DEF Readings
  <2>4. pb1 # pb0 /\ tpc' = "sleep" /\ twait' \in 5..(5 + Late)
    BY <1>3, <2>1, <2>2, <2>3 DEF Poll, Expecting
  <2>5. InTime /\ LooksAgain
    BY <2>2 DEF GInv, Race
  <2>6. Passed = elapsed /\ Passed' = elapsed + 5 - twait'
    BY <2>1, <2>4 DEF Passed
  <2>7. PICK w \in 5..(5 + Late) : twait' = w
    BY <2>4
  <2>8. elapsed <= 14
    BY <1>0, <2>1, <2>4, <2>5, <2>6 DEF InTime, Mirrored
  <2>9. InTime'
    <3>1. Passed = elapsed /\ Passed' = elapsed + 5 - w
      BY <2>6, <2>7
    <3>2. elapsed + dwait <= 10 + Late => (elapsed + 5 - w) + dwait <= 10 + Late
      BY <1>0
    <3>3. elapsed <= 10 + Late => elapsed + 5 - w <= 10 + Late
      BY <1>0
    <3>4. elapsed <= 0 => elapsed + 5 - w <= 0
      BY <1>0
    <3> QED BY <2>1, <2>4, <2>5, <3>1, <3>2, <3>3, <3>4 DEF InTime, Mirrored
  <2> QED BY <2>1, <2>4, <2>5, <2>8, <2>9 DEF LooksAgain
<1>4. CASE AfterSleep
  <2> SUFFICES ASSUME Expecting' PROVE InTime' /\ LooksAgain'
    BY DEF Race
  <2>1. /\ tpc = "sleep" /\ twait = 0 /\ elapsed' = elapsed + 5 /\ tpc' = "poll"
        /\ UNCHANGED <<dpc, button, dwait, pb1, pb0, call>>
    BY <1>4 DEF AfterSleep, Advanced, dut
  <2>2. InTime /\ LooksAgain
    BY <2>1 DEF GInv, Race, Expecting
  <2>3. Passed' = Passed
    BY <1>0, <2>1 DEF Passed
  <2> QED BY <2>1, <2>2, <2>3 DEF InTime, Mirrored, LooksAgain
<1>5. CASE Tick
  <2> SUFFICES ASSUME Expecting' PROVE InTime' /\ LooksAgain'
    BY DEF Race
  <2>1. /\ dpc = "sleep" /\ tpc = "sleep" /\ dwait' = dwait - 1 /\ twait' = twait - 1
        /\ UNCHANGED <<dpc, button, pb0, pb1, tpc, call, elapsed>>
    BY <1>5 DEF Tick, Expecting
  <2>2. InTime /\ LooksAgain
    BY <2>1 DEF GInv, Race, Expecting
  <2>3. Passed' + dwait' = Passed + dwait
    BY <1>0, <2>1 DEF Passed
  <2> QED BY <2>1, <2>2, <2>3 DEF InTime, Mirrored, LooksAgain
<1>6. CASE \E ch \in Channels, v \in {0, 1}, t \in Timeouts : GpioExpect(ch, v, t)
  <2>1. tpc' = "poll" /\ elapsed' = 0 /\ UNCHANGED <<dpc, dwait>>
    BY <1>6 DEF GpioExpect, dut
  <2> QED BY <1>0, <2>1 DEF Race, InTime, LooksAgain, Passed
<1>7. CASE Mismatch \/ (\E ch \in Channels, v \in {0, 1} : GpioWrite(ch, v))
           \/ \E ch \in Channels : GpioRead(ch)
  BY <1>7 DEF Mismatch, GpioWrite, GpioRead, Race, Expecting
<1>8. CASE UNCHANGED vars
  BY <1>8
  DEF vars, dut, testbench, GInv, Race, Expecting, InTime, LooksAgain, Passed, Mirrored
<1> QED
  BY <1>1, <1>2, <1>3, <1>4, <1>5, <1>6, <1>7, <1>8 DEF Next, Dut1, Steps

\* gpio_service_expect and DUT1's main loop: whatever the phase of the two loops
\* and the timeouts of calls, the level that was written is what is read.
THEOREM WrittenLevelIsRead == ASSUME NotTooLate PROVE Spec => WrittenIsRead
<1> DEFINE A == tpc # "idle" /\ tpc' = "idle" /\ call.ch = "DIO_IN1" /\ call.val = pb0
                  /\ call.timeout >= LoopMs + PollMs
                => resp'.status = "OK"
<1>1. GInv /\ [Next]_vars => [A]_vars
  <2> SUFFICES ASSUME GInv, Next, tpc # "idle", tpc' = "idle", Expecting
               PROVE  resp'.status = "OK"
    BY DEF Expecting
  <2>1. tpc = "poll" /\ (Poll \/ Mismatch)
    <3>1. CASE ReadButton \/ Mirror \/ Tick
      BY <3>1 DEF ReadButton, Mirror, Tick, testbench
    <3>2. CASE Poll \/ Mismatch
      BY <3>2 DEF Poll, Mismatch
    <3>3. CASE AfterSleep
      BY <3>3 DEF AfterSleep
    <3>4. \A ch, v : ~GpioWrite(ch, v) /\ ~GpioRead(ch) /\ \A t : ~GpioExpect(ch, v, t)
      BY DEF GpioWrite, GpioRead, GpioExpect
    <3> QED BY <3>1, <3>2, <3>3, <3>4 DEF Next, Dut1, Steps
  <2>2. TimeLeft
    <3>1. elapsed \in {0, 5, 10, 15} /\ call.timeout >= 15
      BY <2>1 DEF GInv, Race, LooksAgain, Expecting, LoopMs, PollMs
    <3>2. call.timeout \in Timeouts \cup {100}
      BY DEF GInv, Typed, TypeOK
    <3>3. call.timeout \in Int
      BY <3>2, TimeoutInt, Zenon
    <3> QED BY <3>1, <3>3 DEF TimeLeft
  <2>3. Poll /\ call.ch \in Known
    BY <2>1, <2>2 DEF Mismatch, Expecting, Known
  <2>4. resp' = Answer("OK")
    BY <2>3 DEF Poll
  <2> QED BY <2>4 DEF Answer
<1>2. GInv /\ [Next]_vars => GInv'
  BY RaceStep
<1> QED BY <1>1, <1>2, RaceInit, PTL DEF Spec, WrittenIsRead
=============================================================================
