SPECIFICATION FairSpec
CONSTANTS
  None = None
  Blank = 0
  Values <- McValues
  Conns <- McConns
  PollInterval <- McPollInterval
  MaxBackoff <- McMaxBackoff
  ShortReads = TRUE
  FsMayHang = TRUE
  JoinMayTimeOut = TRUE
  MaxCount = 1
INVARIANTS
  NoConnectionLeak
  StopDisconnects
  StatusAgrees
PROPERTIES
  NumbersNeedReply
  StatusAnswered
  StopReturns
  Recovers
