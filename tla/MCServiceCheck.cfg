SPECIFICATION FairSpec
CONSTANTS
  c1 = c1
  c2 = c2
  Checks = {c1, c2}
  Runs = {r1}
  Workers = 1
  Verdicts <- TwoVerdicts
  Covers <- Distinct
  MaxChanges = 3
  MaxPosts = 1
  MaxUserActs = 1
  MaxFaults = 1
INVARIANTS TypeOK AlertTracksState
PROPERTIES GoodIsResolved DownIsAlerted RunsEnd
