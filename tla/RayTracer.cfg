SPECIFICATION Spec
CONSTANTS
  Scenes <- AllScenes
  Rays <- SomeRays
  Thickness = 2
  Far = 20
  Width = 2
  Height = 3
  Spp = 1
  MaxDepth = 2
  RouletteAfter = 0
  Cores = {0, 2}
INVARIANTS
  ClosestHit
  EveryPixelSampled
  MapOutlivesTasks
