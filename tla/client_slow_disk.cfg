SPECIFICATION FairSpec
CONSTANTS
  None = None
  Blank = 0
  Values <- McValues
  Conns <- McConns
  PollInterval <- McPollInterval
  MaxBackoff <- McMaxBackoff
  ShortReads = FALSE
  FsMayHang = TRUE
  JoinMayTimeOut = FALSE
  MaxCount = 1
PROPERTY
  PollingContinues
