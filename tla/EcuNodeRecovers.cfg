SPECIFICATION NodeSpec
CONSTANTS
  Reading <- SteadyReading
  DiagTime = 3
  Commands = {"CLEAR_FAULTS"}
  QueueSize = 2
  MaxCommands = 3
  MaxOutages = 1
PROPERTY
  RecoversFromBusOff
