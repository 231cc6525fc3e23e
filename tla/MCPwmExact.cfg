SPECIFICATION Spec
CONSTANTS
  Second = 1000000000
  Word = 2147483647
  Freqs <- MCFreqs
  Duties <- MCDuties
  Tolerances <- MCTolerances
  Errors <- MCErrors
INVARIANT PulseIsRight
PROPERTY TwoPointsSuffice
CHECK_DEADLOCK FALSE
