SPECIFICATION Spec
CONSTANTS
  None = None
  Blank = 0
  Values <- McValues
  Conns <- McConns
  PollInterval <- McPollInterval
  MaxBackoff <- McMaxBackoff
  ShortReads = TRUE
  FsMayHang = FALSE
  JoinMayTimeOut = FALSE
  MaxCount = 1
PROPERTY
  LastGoodKept
