----------------------------- MODULE Dut3Proofs -----------------------------
(***************************************************************************)
(* DUT3 for any voltages and signals, whichever devices fail: types hold,  *)
(* the matcher uses no device before main has set all of them, and the SPI *)
(* thread never meets one that is not set while main lives.                *)
(***************************************************************************)
EXTENDS Dut3, TLAPS

\* How far main() has come says which modules are set; one that gave up may have
\* set any of them.
SetInOrder ==
  /\ mpc = "switch" => set = {}
  /\ mpc = "fan"    => set = {"switch"}
  /\ mpc = "echo"   => set = {"switch", "fan"}
  /\ mpc = "spi"    => set = Modules \ {"spi", "match"}
  /\ mpc = "match"  => set = Modules \ {"match"}
  /\ mpc \in {"give", "loop", "adc", "drive", "asleep"} => set = Modules

\* Only a main() that has set everything gives the semaphore.
GateKept == token = 1 \/ tpc # "gate" => set = Modules

Guarded == TypeOK /\ SetInOrder /\ GateKept /\ SpiAfterInit

LEMMA GuardedInit == Init => Guarded
  BY Dut3Assumption
  DEF Init, Guarded, TypeOK, SetInOrder, GateKept, SpiAfterInit, Modules, Off, Bytes,
      Dut3Assumption

LEMMA GuardedStep == Guarded /\ [Next]_vars => Guarded'
<1> SUFFICES ASSUME Guarded, [Next]_vars PROVE Guarded'
  OBVIOUS
<1> USE DEF Guarded, TypeOK, SetInOrder, GateKept, SpiAfterInit, Modules
<1>1. CASE InitModule
  <2>1. CASE mpc' = "ended" /\ set' = set
    BY <1>1, <2>1 DEF InitModule, spi, matcher, inputs
  <2>2. CASE mpc' = Then[mpc] /\ set' = set \cup {mpc}
    <3>1. \/ mpc = "switch" /\ mpc' = "fan"
          \/ mpc = "fan" /\ mpc' = "echo"
          \/ mpc = "echo" /\ mpc' = "spi"
          \/ mpc = "spi" /\ mpc' = "match"
          \/ mpc = "match" /\ mpc' = "give"
      BY <1>1, <2>2 DEF InitModule, Then
    <3>2. /\ UNCHANGED <<sample, mirror, fan, token>>
          /\ UNCHANGED spi /\ UNCHANGED matcher /\ UNCHANGED inputs
      BY <1>1 DEF InitModule
    <3>3. set' \subseteq Modules /\ SetInOrder'
      BY <2>2, <3>1
    <3> QED BY <2>2, <3>1, <3>2, <3>3 DEF spi, matcher, inputs
  <2> QED BY <1>1, <2>1, <2>2 DEF InitModule
<1>2. CASE GiveReady
  BY <1>2 DEF GiveReady, spi, matcher, inputs
<1>3. CASE SwitchUpdate
  BY <1>3 DEF SwitchUpdate, spi, matcher, inputs
<1>4. CASE AdcDone
  BY <1>4 DEF AdcDone, spi, matcher, inputs
<1>5. CASE FanUpdate
  BY <1>5 DEF FanUpdate, Drive, spi, matcher, inputs
<1>6. CASE Wake
  BY <1>6 DEF Wake, spi, matcher, inputs
<1>7. CASE Arm
  \* main blocks only after the last initialisation, or when it has ended.
  <2>1. mpc # "ended" => set = Modules
    BY <1>7 DEF Arm, SpiMayRun, MainBlocked
  <2>2. spc' = "fault" => mpc' = "ended"
    BY <1>7, <2>1 DEF Arm, main
  <2> QED BY <1>7, <2>2 DEF Arm, main, matcher, inputs
<1>8. CASE Act
  BY <1>8 DEF Act, LedFor, Bytes, main, matcher, inputs
<1>9. CASE PassGate
  BY <1>9 DEF PassGate, Gate, main, spi, inputs
<1>10. CASE BeginCapture
  BY <1>10 DEF BeginCapture, main, spi, inputs
<1>11. CASE CaptureEnds
  BY <1>11 DEF CaptureEnds, main, spi, inputs
<1>12. CASE SetMatch
  <2>1. match' \in InRange \cup {NoSignal, Junk}
    BY <1>12 DEF SetMatch, Reproducible
  <2> QED BY <1>12, <2>1, Dut3Assumption DEF SetMatch, Dut3Assumption, main, spi, inputs
<1>13. CASE ChangeInput
  <2>1. pin' \in {0, 1} /\ volt' \in Levels /\ sig' \in Signals /\ seen' \in Signals \cup {Junk}
    BY <1>13 DEF ChangeInput
  <2> QED BY <1>13, <2>1 DEF ChangeInput, main, spi
<1>14. CASE \E b \in Bytes : SpiWrite(b)
  BY <1>14 DEF SpiWrite, main, matcher, inputs
<1>15. CASE SpiError
  BY <1>15 DEF SpiError, main, matcher, inputs
<1>16. CASE UNCHANGED vars
  BY <1>16 DEF vars, main, spi, matcher, inputs
<1> QED
  BY <1>1, <1>2, <1>3, <1>4, <1>5, <1>6, <1>7, <1>8, <1>9, <1>10, <1>11, <1>12,
     <1>13, <1>14, <1>15, <1>16
  DEF Next, Main, SpiThread, MatchThread

LEMMA GuardedAlways == Spec => []Guarded
  BY GuardedInit, GuardedStep, PTL DEF Spec

\* The three threads keep their variables well typed.
THEOREM Dut3Typed == Spec => []TypeOK
  BY GuardedAlways, PTL DEF Guarded

\* pwm_match_thread passes its semaphore only when all five initialisations
\* succeeded (main.c:20-45; pwm_match.c:115), whatever the scheduler does then.
THEOREM MatchWaits == Spec => []MatchAfterInit
<1>1. Guarded => MatchAfterInit
  BY DEF Guarded, GateKept, MatchAfterInit
<1> QED BY <1>1, GuardedAlways, PTL

\* Without a semaphore of its own, spi_cmd_thread is kept from a device that is
\* not set by main's priority alone, unless an initialisation failed (main.c:9-45).
THEOREM SpiWaits == Spec => []SpiAfterInit
  BY GuardedAlways, PTL DEF Guarded
=============================================================================
