SPECIFICATION AlgorithmsSpec
CONSTANTS
  Lenses <- SomeLenses
  Paths <- SomePaths
  Engines <- SomeEngines
  Percents <- SomePercents
  Fleets <- SomeFleets
  GoalLists <- SomeGoals
  Scans <- SomeScans
  Span = 32
  Dims = 2
  Layers <- Network
  InputScale <- Metres8By255
  BrakeAt = 2353
  Drones = {0, 1, 2}
  Positions = {0, 1, 6}
  Variances <- SomeVariances
  Inf = Inf
  NegInf = NegInf
  NaN = NaN
  None = None
  Floor = 1
  Unit = 6
  Kp <- TiltKp
  Ki <- TiltKi
  Kd <- TiltKd
  Limit = 2
  Full = 10
  Attitudes <- SomeAttitudes
  Throttles = {4, 10}
INVARIANTS
  ToolpathIsRight
  TelemetrySurvives
  ThrottleIsAsked
  AuctionIsGreedy
  LayersAreExact
  FusionIsBounded
  IntegralHolds
PROPERTIES
  MotorsAlwaysFollow
