CONSTANTS
  Handlers = {h1, h2}
  MaxEvents = 4
  MaxFaults = 1
  MaxLengths = {4, 5}
  MaxText = 11
  MaxWords = 5
SPECIFICATION FairSpec
CHECK_DEADLOCK FALSE
INVARIANTS
  TypeOK
  TextHeard
  HeardOnce
  HeardInOrder
  StreamsCutRight
  RequestsCutRight
PROPERTIES
  SessionsGo
