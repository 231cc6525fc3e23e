SPECIFICATION Spec
CONSTANTS
  Second = 1000000
  Word = 4294967
  Freqs <- SlowFreqs
  Duties <- MCDuties
  Tolerances <- MCTolerances
  Errors <- MCErrors
INVARIANT PulseIsRight
CHECK_DEADLOCK FALSE
