SPECIFICATION Spec
CONSTANTS
  Services = {"http", "shelly"}
  JoinMayTimeOut = FALSE
  MaxConns = 2
CHECK_DEADLOCK FALSE

  
PROPERTIES
  InterruptEnds
  AdvertisedIsReachable
