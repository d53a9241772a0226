SPECIFICATION FairSpec
CONSTANTS
  c1 = c1
  c2 = c2
  Clients = {c1, c2}
  Kinds <- McKinds
  MaxRequests <- McMaxRequests
  Lazy = {c1}
  MaxUpdates = 1
CHECK_DEADLOCK FALSE
INVARIANTS
  RepliesInOrder
  FreshReads
  OneReplyAfterStop
PROPERTIES
  RequestAnswered
  StopEnds
