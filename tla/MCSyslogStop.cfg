SPECIFICATION Spec
CONSTANTS
  Cap = 2
  MaxDatagrams = 2
  MaxFaults = 0
INVARIANTS StopsGracefully
