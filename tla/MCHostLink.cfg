CONSTANTS
  Texts <- MCCalls
  MaxFrames = 3
  MaxPowerCuts = 1
  FlashFaults = TRUE
  WifiFaults = FALSE
  DriverFaults = FALSE
  FreshSeqs = TRUE
SPECIFICATION HostFairSpec
PROPERTIES RequestsAnswered CallsReturn BootServes
CHECK_DEADLOCK FALSE
