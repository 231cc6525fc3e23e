SPECIFICATION FairSpec
CONSTANTS
  MaxLines = 3
  Sizes = {0, 1, 2}
  Room = 2
INVARIANTS TypeOK WholeLinesOnce AnswerIsMine
PROPERTIES NoneUnheard AnswersCome
CHECK_DEADLOCK FALSE
