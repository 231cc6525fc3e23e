SPECIFICATION FairSpec
CONSTANTS
  Levels = {v1, v2}
  Signals = {none, f1, fast}
  InRange = {f1}
  NoSignal = none
  Junk = junk
  Faults = TRUE
INVARIANTS TypeOK MatchAfterInit SpiAfterInit
PROPERTY OutputsFollow
CHECK_DEADLOCK FALSE
