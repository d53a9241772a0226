SPECIFICATION FairSpec
CONSTANTS
  None = None
  c1 = c1
  c2 = c2
  Clients = {c1, c2}
  Requests <- McRequests
  Frames <- McFrames
  MaxFrames <- McMaxFrames
CHECK_DEADLOCK FALSE
PROPERTY
  RequestAnswered
