SPECIFICATION FairSpec
CONSTANTS
  N = 3
  MaxPush = 5
INVARIANTS
  RingSafe
PROPERTIES
  StopReturns
  RowsReachDisk
  ImplementsLossyFifo
