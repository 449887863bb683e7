SPECIFICATION Spec
CONSTANTS
  Devices <- DeviceOrder
  Fallible <- MayFail
  MaxRpm = 4
  Ramp = 2
  RpmRequest <- Requests
  Position = {0, 7}
  Interval = 2
INVARIANTS
  NothingMovesUnasked
PROPERTIES
  FaultStopsMotion
  SpindleSettles
