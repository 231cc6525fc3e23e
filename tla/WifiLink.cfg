SPECIFICATION FairSpec
CONSTANTS
  Sessions = {s1, s2}
  NoSession = NoSession
  MaxLines = 2
  Sizes = {1, 3}
  Room = 2
INVARIANTS TypeOK WholeLines
PROPERTIES RequestsAnswered Served
CHECK_DEADLOCK FALSE
