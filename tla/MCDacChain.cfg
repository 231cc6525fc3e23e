SPECIFICATION DacSpec
CONSTANTS
  Second = 1000000000
  Word = 2147483647
  Millivolts <- MCMillivolts
  Wired = "DAC_OUT1"
  Noise = 16
  Faults = TRUE
INVARIANTS WarningIsRight FanIsRight
CHECK_DEADLOCK FALSE
