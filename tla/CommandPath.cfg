SPECIFICATION Spec
CONSTANTS
  LineRoom = 127
  AnswerRoom = 159
  TextRoom = 63
  NameRoom = 23
  Calls <- MCCalls
  FirstSeq = 9997
  MaxCalls = 3
  Answers <- MCAnswers
  Measures <- MCMeasures
  Pong <- MCPong
  Noise = "?"
  Nul = "0"
INVARIANTS TypeOK ParsedAsWritten VerdictIsTrue AnswerInStep
CHECK_DEADLOCK FALSE
