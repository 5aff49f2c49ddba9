SPECIFICATION FairServiceSpec
CONSTANTS
  Nil = Nil
  Budget <- MCBudget
  api = api
  Names = {api}
  Within <- MCWithin
  SvcHosts = {h1}
  SvcIds = {1}
PROPERTY ServiceRecovers
CHECK_DEADLOCK FALSE
