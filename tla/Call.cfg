SPECIFICATION Spec
CONSTANTS
  Lines <- MCLines
  Number <- MCNumber
  Text <- MCText
  Messages <- MCMessages
  Chunk = 160
  Garbage <- MCGarbage
  IntBits = 10
  NULL = NULL
CHECK_DEADLOCK FALSE
INVARIANTS TypeOK SizeAgrees RequestFaithful AnswerFaithful UsageExact CommandAnswered AnswerFits
