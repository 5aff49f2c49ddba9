SPECIFICATION FairSpec
CONSTANTS
  metrics = metrics
  metrics1 = metrics1
  Clients = {c1}
  Topics <- TwoTopics
  Parent <- ParentOf
  SendCap = 1
  BroadcastCap = 2
  MaxMsgs = 3
INVARIANTS NoPanic CompleteUntilDropped InOrder
PROPERTIES LostIsCleanedUp
