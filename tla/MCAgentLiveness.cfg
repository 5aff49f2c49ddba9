SPECIFICATION FairSpec
CONSTANTS
  NoAsset = NoAsset
  Assets = {a1, a2}
  Threshold = 2
  ReportEvery = 1
  MaxMoods = 4
  MaxUserActs = 1
  MaxFaults = 1
INVARIANTS WorkingStaysOnline OneAlert OfflineIsAnnounced
PROPERTIES StatusFollows
