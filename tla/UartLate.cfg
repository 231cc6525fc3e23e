SPECIFICATION Spec
CONSTANTS
  MaxLines = 2
  Sizes = {2}
  Room = 2
INVARIANT AnswerIsLast
CHECK_DEADLOCK FALSE
