SPECIFICATION Spec
CONSTANTS
  None = None
  Windows <- McWindows
  Shown <- McShown
  Energies <- McEnergies
  Stamps = {1700000000}
  Pdus <- McPdus
  Identity <- McIdentity
  Time = 1700000009
CHECK_DEADLOCK FALSE
INVARIANTS
  PhasesSumToTotal
  PublishedKept
  PowerFactorFollowsPower
  
PROPERTIES
  CountersReadMonotone
