SPECIFICATION Spec
CONSTANTS
  r1 = r1
  r2 = r2
  a1 = a1
  a2 = a2
  Rules = {r1}
  Assets = {a1}
  Pinned = {r1}
  PinnedTo <- PinnedToA1
  Evals = {e1}
  Cooldown = 2
  MaxAlerts = 3
  MaxChanges = 2
  MaxUserActs = 1
  MaxFaults = 0
PROPERTIES SameAlertWaits
