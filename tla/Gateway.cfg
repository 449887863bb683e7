SPECIFICATION FairSpec
CONSTANTS
  HistoryMax = 1
  Topics = 2
  SocketBuf = 1
  Messages <- SomeMessages
  Frames = 2
  MaxMessages = 2
INVARIANTS
  HistoryIsNewest
  TopicsKeepStep
  DoneMeansJoined
  CommandsAnswerMessages
PROPERTIES
  QueuedIsServed
  ExitsWhenServing
