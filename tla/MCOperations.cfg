SPECIFICATION OperationsSpec
CONSTANTS
  Nil = Nil
  Budget <- MCBudget
  People = {root, eve}
  Root = root
  LoginSlots = {s1, s2}
  MaxAttempts = 2
  Boxes = {b1}
  IncidentIds = {1, 2, 3}
  Checks = {1, 2}
  api = api
  api2 = api2
  Names = {api, api2}
  Within <- MCWithin
  SvcHosts = {h1}
  SvcIds = {1, 2}
  g1 = g1
  Gauges = {g1}
  KindOf <- MCKindOf
  Types = {"switch"}
  Readings = {3, 5}
  Levels = {4}
  ChannelSets <- MCChannelSets
  RuleIds = {1, 2}
  NoticeIds = {1, 2, 3}
  Evals = {1, 2}
  Blades = {blade}
  Parts = {1, 2}
  Supplies = {2}
  Mentions <- MCMentions
  HwSlots = {1, 2}
INVARIANTS
  OperationsTypeOK
  GuessesBounded
  DownIsReported
  
  OneRecentAlert
  FewHardwareAlarms
PROPERTIES
  OwnerGetsIn
  RecoveryClosesIncident
CHECK_DEADLOCK FALSE
