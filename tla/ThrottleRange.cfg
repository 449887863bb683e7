SPECIFICATION NumericsSpec
CONSTANTS
  Lenses = {}
  Paths = {}
  Engines = {}
  Percents = {0, 44, 100, 101, 255, 300}
  Fleets = {}
  GoalLists = {}
  Scans = {}
  Span = 32
  Dims = 2
  Layers <- Network
  InputScale <- Metres8By255
  BrakeAt = 2353
  Drones = {0, 1, 2}
  Positions = {0, 1, 6}
  Variances <- SomeVariances
  Inf = Inf
  NegInf = NegInf
  NaN = NaN
  None = None
  Floor = 1
  Unit = 6
INVARIANT
  ThrottleRangeIsKept
