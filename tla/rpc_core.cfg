SPECIFICATION Spec
CONSTANTS
  None = None
  Loop = Loop
  Workers = {w1}
  Requests <- McRequests
  RingSize = 2
  Recent = 1
  MaxRequests = 3
CHECK_DEADLOCK FALSE
INVARIANTS
  TypeOK
  AnswersLineUp
  TraceIsOneInstant
  AnswersAreTraced
PROPERTIES
  RequestsEnd
