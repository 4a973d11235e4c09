\* Two posts over two client ids, three append attempts each, every handler keeps running.
CONSTANTS
  Post = {p1, p2}
  ClientId = {x, y}
  EventId <- MCEventId
  Body = {b}
  NoId = NoId
  NoRow = NoRow
  MaxAppendRetries = 3
SPECIFICATION FairSpec
INVARIANTS
  TypeOK
  ChainLinked
  OneRowPerEvent
  AnswersTellTheTruth
  VerifyBlamesOnlyRespelled
PROPERTIES
  ImplementsChain
  EveryPostAnswered
CHECK_DEADLOCK FALSE
