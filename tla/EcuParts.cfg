SPECIFICATION PartsSpec
CONSTANTS
  Reading <- AnyReading
  DiagTime = 4
  Param <- Params
  Grain <- Grains
  Levels = 3
INVARIANTS
  EcuInv
  InRange
PROPERTIES
  LeavesFaultClean
  UpdateSeesFault
  Hysteresis
