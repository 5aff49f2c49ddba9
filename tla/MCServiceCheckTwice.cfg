SPECIFICATION FairSpec
CONSTANTS
  c1 = c1
  c2 = c2
  Checks = {c1}
  Runs = {r1, r2}
  Workers = 1
  Verdicts <- TwoVerdicts
  Covers <- Distinct
  MaxChanges = 2
  MaxPosts = 0
  MaxUserActs = 0
  MaxFaults = 0
PROPERTIES GoodIsResolved
