SPECIFICATION FairSpec
CONSTANTS
  Cap = 2
  MaxDatagrams = 4
  MaxFaults = 1
INVARIANTS AcceptedIsKept PanicOnlyAtStop
PROPERTIES KeepsOrder AcceptedIsStored
