SPECIFICATION FairSpec
CONSTANTS
  Channels = {"DIO_OUT1", "DIO_IN1", "DIO_IN9"}
  Timeouts = {0, 5, 15}
  Late = 4
INVARIANT TypeOK
PROPERTY ExpectPasses
CHECK_DEADLOCK FALSE
