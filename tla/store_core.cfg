SPECIFICATION Spec
CONSTANTS
  None = None
  Samples <- McSamples
  UseAlfenEnergy = FALSE
  SaveInterval = 2
  PowerMax = 2
  JoinMayTimeOut = FALSE
  FsMayFail = FALSE
  Skews <- SteadyClock
  Epoch = 5
  MaxTime = 9
  MaxIncidents = 2
INVARIANTS
  NetBalance
  EnergyBoundedByTime
  LossBounded
  GracefulStopSavesAll
PROPERTIES
  StampIdentifiesEnergy
  ImplementsDurableCounter
