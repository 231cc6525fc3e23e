----------------------------- MODULE PwmCapture -----------------------------
(***************************************************************************)
(* The three-edge PWM capture of the testbench (pwm_service.c): the        *)
(* command thread arms the capture, waits on a semaphore with a timeout    *)
(* and disarms it; the GPIO interrupt stamps the edges with the 32-bit     *)
(* cycle counter.  Both write edge_count and active without a lock, and    *)
(* the interrupt may come between any two statements of the thread.        *)
(*                                                                         *)
(* The input is high for High out of every Period ticks.  The interrupt    *)
(* runs at most Latency ticks after the first edge it was raised for;      *)
(* edges that come before it has run are lost in it.                       *)
(***************************************************************************)
EXTENDS Integers, Sequences

CONSTANTS
  Period, High,  \* the input, in ticks of the cycle counter
  Latency,       \* bound on the interrupt's delay, in ticks
  Word,          \* the cycle counter counts modulo Word (2^32 in the code)
  MinPeriod      \* min_period_cy: shorter periods are refused as noise

EdgesNeeded == 3

ASSUME PwmAssumption ==
  /\ Period \in Nat /\ High \in 1..(Period - 1)
  /\ Latency \in Nat /\ MinPeriod \in Nat
  /\ Word \in Nat /\ Word > Period + Latency

VARIABLES
  pc,       \* the thread: the statement of gpio_capture it executes next
  edges,    \* the first edge_count entries of edge_times and edge_levels
  active,   \* cap->active
  sem,      \* cap->sem, a binary semaphore
  ret,      \* what k_sem_take returned: 0, or -1 after the timeout
  intr,     \* the pin's interrupt is configured
  pending,  \* ticks since the interrupt was raised, -1 if it is not
  phase,    \* where the input is in its period; it is high below High
  cycle,    \* k_cycle_get_32()
  result,   \* what the last capture returned
  call      \* which call this is; calls are told apart modulo 3

thread == <<pc, ret, result, call>>
shared == <<edges, active, sem, intr>>
world  == <<pending, phase, cycle>>
vars   == <<thread, shared, world>>

NoResult == [ok |-> FALSE, period |-> 0, pulse |-> 0]
Level    == IF phase < High THEN 1 ELSE 0
Span(a, b) == (b - a) % Word             \* uint32_t subtraction

Init ==
  /\ pc = "idle" /\ ret = 0 /\ result = NoResult /\ call = 0
  /\ edges = <<>> /\ active = FALSE /\ sem = 0 /\ intr = FALSE
  /\ pending = -1 /\ phase \in 0..(Period - 1) /\ cycle \in 0..(Word - 1)

-----------------------------------------------------------------------------
(* The thread: gpio_capture, one action per statement *)

\* cap->edge_count = 0.
\* Mutated: the edges of the last call stay.
Uncleared == edges
Cleared   == <<>>

Begin ==
  /\ pc = "idle"
  /\ pc' = "deactivate"
  /\ edges' = Cleared
  /\ call' = (call + 1) % 3
  /\ result' = NoResult
  /\ UNCHANGED <<active, sem, intr, ret, world>>

Deactivate ==
  /\ pc = "deactivate"
  /\ pc' = "reset"
  /\ active' = FALSE
  /\ UNCHANGED <<edges, sem, intr, ret, result, call, world>>

\* k_sem_reset.
\* Mutated: the semaphore keeps what the last call left.
ResetSemMissing == sem' = sem
ResetSem        == sem' = 0

ResetToken ==
  /\ pc = "reset"
  /\ pc' = "enable"
  /\ ResetSem
  /\ UNCHANGED <<edges, active, intr, ret, result, call, world>>

EnableInterrupt ==
  /\ pc = "enable"
  /\ \/ pc' = "activate" /\ intr' = TRUE
     \/ pc' = "idle" /\ intr' = intr      \* it cannot be configured
  /\ UNCHANGED <<edges, active, sem, ret, result, call, world>>

\* Mutated: the capture is never armed.
ActivateMissing ==
  /\ pc = "activate"
  /\ pc' = "take"
  /\ UNCHANGED <<edges, active, sem, intr, ret, result, call, world>>
Activate ==
  /\ pc = "activate"
  /\ pc' = "take"
  /\ active' = TRUE
  /\ UNCHANGED <<edges, sem, intr, ret, result, call, world>>

Take ==
  /\ pc = "take"
  /\ pc' = "disable"
  /\ \/ sem = 1 /\ sem' = 0 /\ ret' = 0
     \/ sem = 0 /\ sem' = 0 /\ ret' = -1
  /\ UNCHANGED <<edges, active, intr, result, call, world>>

\* An interrupt that is already raised may still be delivered.
DisableInterrupt ==
  /\ pc = "disable"
  /\ pc' = "close"
  /\ intr' = FALSE
  /\ pending' \in {pending, -1}
  /\ UNCHANGED <<edges, active, sem, ret, result, call, phase, cycle>>

Close ==
  /\ pc = "close"
  /\ pc' = "compute"
  /\ active' = FALSE
  /\ UNCHANGED <<edges, sem, intr, ret, result, call, world>>

\* The high time is the first interval if the capture began with a rising edge.
\* Mutated: always the first.
PulseFirst == Span(edges[1].time, edges[2].time)
Pulse == IF edges[1].level = 1 THEN Span(edges[1].time, edges[2].time)
                               ELSE Span(edges[2].time, edges[3].time)

Measured ==
  LET period == Span(edges[1].time, edges[3].time)
      sound  == /\ period # 0 /\ period >= MinPeriod
                /\ Pulse # 0 /\ Pulse < period
  IN  IF sound THEN [ok |-> TRUE, period |-> period, pulse |-> Pulse] ELSE NoResult

Compute ==
  /\ pc = "compute"
  /\ pc' = "idle"
  /\ result' = IF ret = 0 /\ Len(edges) = EdgesNeeded THEN Measured ELSE NoResult
  /\ UNCHANGED <<shared, ret, call, world>>

Thread == \/ Begin \/ Deactivate \/ ResetToken \/ EnableInterrupt \/ Activate
          \/ Take \/ DisableInterrupt \/ Close \/ Compute

-----------------------------------------------------------------------------
(* The interrupt: capture_isr *)

\* The third edge ends the capture and gives the token; es are the edges now.
\* Mutated: the capture stays armed; or the token is given one edge early.
EndLeftArmed(es) ==
  IF Len(es) = EdgesNeeded THEN active' = active /\ sem' = 1
                           ELSE UNCHANGED <<active, sem>>
EndEarly(es) ==
  /\ active' = (Len(es) < EdgesNeeded)
  /\ sem' = IF Len(es) >= EdgesNeeded - 1 THEN 1 ELSE sem
End(es) ==
  IF Len(es) = EdgesNeeded THEN active' = FALSE /\ sem' = 1
                           ELSE UNCHANGED <<active, sem>>

Stamp == [time |-> cycle, level |-> Level, call |-> call]

Isr ==
  /\ pending >= 0
  /\ pending' = -1
  /\ IF active
     THEN /\ edges' = IF Len(edges) < EdgesNeeded THEN Append(edges, Stamp) ELSE edges
          /\ End(edges')
     ELSE UNCHANGED <<edges, active, sem>>
  /\ UNCHANGED <<intr, phase, cycle, thread>>

-----------------------------------------------------------------------------
(* The input and the clock *)

Tick ==
  /\ pending < Latency
  /\ cycle' = (cycle + 1) % Word
  /\ phase' = (phase + 1) % Period
  /\ pending' = IF pending >= 0 THEN pending + 1
                ELSE IF intr /\ phase' \in {0, High} THEN 0 ELSE -1
  /\ UNCHANGED <<thread, shared>>

Next == Thread \/ Isr \/ Tick

Spec     == Init /\ [][Next]_vars

\* The thread, the interrupt and the clock run; the wait need not time out.
TimesOut == pc = "take" /\ sem = 0
FairSpec == Spec /\ WF_vars(Thread /\ ~TimesOut) /\ WF_vars(Isr) /\ WF_vars(Tick)

-----------------------------------------------------------------------------
(* Properties *)

Edge == [time : 0..(Word - 1), level : {0, 1}, call : 0..2]

Waiting == {"enable", "activate", "take"}   \* between k_sem_reset and k_sem_take
Taken   == {"disable", "close", "compute"}  \* after k_sem_take

\* Every variable keeps its type, and an armed capture has room for an edge.
TypeOK ==
  /\ pc \in {"idle", "deactivate", "reset"} \cup Waiting \cup Taken
  /\ edges \in Seq(Edge) /\ Len(edges) <= EdgesNeeded
  /\ active \in BOOLEAN
  /\ sem \in {0, 1}
  /\ ret \in {0, -1}
  /\ intr \in BOOLEAN
  /\ pending \in -1..Latency
  /\ phase \in 0..(Period - 1)
  /\ cycle \in 0..(Word - 1)
  /\ result \in [ok : BOOLEAN, period : Nat, pulse : Nat]
  /\ call \in 0..2
  /\ active => Len(edges) < EdgesNeeded

\* A call that got the semaphore has three edges: the token is not one that a
\* late interrupt gave after an earlier call had timed out.
NoStaleToken == pc \in Taken /\ ret = 0 => Len(edges) = EdgesNeeded

\* The edges a call evaluates were all captured during that call.
FreshEdges == \A i \in DOMAIN edges : edges[i].call = call

\* Between the token and the end of the call nothing changes the edges, although
\* the interrupt may still come.
Frozen == [][(pc \in Taken /\ ret = 0 /\ pc' # "idle") => edges' = edges]_vars

\* A successful capture is off by at most the interrupt's latency, also when the
\* cycle counter wraps and whichever edge came first; Latency has to be shorter
\* than the high and the low time.
Accurate ==
  result.ok => /\ result.period \in (Period - Latency)..(Period + Latency)
               /\ result.pulse \in (High - Latency)..(High + Latency)

\* With a running input a capture succeeds, unless it times out.
CaptureSucceeds == pc = "take" ~> pc = "idle" /\ (result.ok \/ ret = -1)
=============================================================================
