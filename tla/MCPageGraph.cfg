SPECIFICATION Spec
CONSTANTS
  OddHost = {"h-i"}
  Seed <- Root
  Site <- TheSite
  Contents <- UpToTwo
  Visit = {v1, v2}
  MaxFaults = 1
INVARIANTS
  TypeOK
  SavedIsComplete
  
  
  
CHECK_DEADLOCK FALSE
