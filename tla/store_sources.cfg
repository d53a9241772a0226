SPECIFICATION FairSpec
CONSTANTS
  None = None
  Samples <- McAlfenSamples
  UseAlfenEnergy = TRUE
  SaveInterval = 2
  PowerMax = 2
  JoinMayTimeOut = FALSE
  FsMayFail = TRUE
  Skews <- SteppedBack
  Epoch = 5
  MaxTime = 7
  MaxIncidents = 2
INVARIANTS
  StateFileIntact
  IntervalsAdjoin
PROPERTIES
  CountersFollowPower
  StopTerminates
