SPECIFICATION FairSpec
CONSTANTS
  Param <- Params
  Grain <- Grains
  Levels = 3
PROPERTY
  FullThrottleOverheats
