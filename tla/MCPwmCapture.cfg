CONSTANTS
  Period = 6
  High = 4
  Latency = 1
  Word = 9
  MinPeriod = 4
SPECIFICATION FairSpec

INVARIANTS TypeOK NoStaleToken FreshEdges Accurate
PROPERTIES Frozen CaptureSucceeds
