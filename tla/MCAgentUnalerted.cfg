SPECIFICATION FairSpec
CONSTANTS
  NoAsset = NoAsset
  Assets = {a1}
  Threshold = 2
  ReportEvery = 1
  MaxMoods = 2
  MaxUserActs = 0
  MaxFaults = 1
PROPERTIES NewlyOfflineIsAlerted
