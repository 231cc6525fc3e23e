CONSTANTS
  Texts <- MCTexts
  MaxFrames = 3
  MaxPowerCuts = 1
  FlashFaults = FALSE
  WifiFaults = TRUE
  DriverFaults = TRUE
SPECIFICATION FairSpec
INVARIANTS TypeOK PromiseKept FlashDecides RepliesAreAnswers
PROPERTIES OnlyItsOwnLinkSwitches SwitchTakesEffect ModeKept
CHECK_DEADLOCK FALSE
