SPECIFICATION Spec
CONSTANTS
  None = None
  Samples <- McSamples
  UseAlfenEnergy = FALSE
  SaveInterval = 2
  PowerMax = 2
  JoinMayTimeOut = TRUE
  FsMayFail = FALSE
  Skews <- SteadyClock
  Epoch = 5
  MaxTime = 8
  MaxIncidents = 1
INVARIANT
  StateFileIntact
