CONSTANTS
  r1 = r1
  r2 = r2
  r3 = r3
  i1 = i1
  i2 = i2
  a = a
  b = b
  c = c
  Calls <- MCCalls
  ReadyCalls <- MCReadyCalls
  Ids <- MCIds
  NoCall = NoCall
  NoId = NoId
  NoAnswer = NoAnswer
SPECIFICATION FairSpec
INVARIANTS
  AnswersAreOwn
PROPERTIES
  CallsEndInOrder
CHECK_DEADLOCK FALSE
