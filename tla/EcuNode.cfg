SPECIFICATION NodeSpec
CONSTANTS
  Reading <- SteadyReading
  DiagTime = 3
  Commands = {"SET_INIT", "SET_NORMAL", "SET_FAULT", "REQUEST_DIAG", "CLEAR_FAULTS", "UNKNOWN"}
  QueueSize = 2
  MaxCommands = 3
  MaxOutages = 2
INVARIANTS
  OutageIsKept
PROPERTIES
  BusOffSurfaces
  NoSilentOutage
  ClearWorks
  DiagnosticEnds
