SPECIFICATION FairSpec
CONSTANTS
  r1 = r1
  r2 = r2
  a1 = a1
  a2 = a2
  Rules = {r1}
  Assets = {a1}
  Pinned = {}
  PinnedTo <- NonePinned
  Evals = {e1, e2}
  Cooldown = 1
  MaxAlerts = 8
  MaxChanges = 2
  MaxUserActs = 1
  MaxFaults = 1
INVARIANTS DuplicatesBounded
PROPERTIES QuietPeriod RecoveredIsResolved BreachIsAlerted
