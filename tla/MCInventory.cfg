SPECIFICATION InventorySpec
CONSTANTS
  Nil = Nil
  Budget <- MCBudget
  StockIds = {1, 2}
  StockTypes = {"server"}
  Filters <- MCFilters
  StockSlots = {1, 2}
  Files = {"good", "empty", "blank", "bad", "alien", "long", "odd"}
  Sort <- MCSort
  FileRows = 2
  ImportSlots = {1, 2}
  ContractIds = {1, 2, 3}
  Leased = {a}
  Vendors = {v}
  Ends = {1, 2}
  ContractSlots = {1, 2}
  OrgIds = {1, 2, 3, 4}
  Holdings = {a}
  OrgSlots = {1, 2}
  RackIds = {1}
  UnitIds = {1, 2}
  Devices = {a}
  RackTabs = {t1}
  RackSlots = {1, 2}
  Heights = {2, 3}
  MaxSize = 2
  Tokens = {1, 2}
  AssetIds = {1, 2, 3, 4}
  Hosts = {h1, h2}
  RegSlots = {s1, s2}
  srv = srv
  sw1 = sw1
  sw2 = sw2
  Servers = {srv}
  Switches = {sw1, sw2}
  Stranger = stranger
  Texts <- MCTexts
  Seen <- MCSeen
  NodeIds = {1, 2, 3, 4, 5, 6}
  EdgeIds = {1, 2, 3, 4, 5}
  Jobs = {1, 2}
  Places = {0, 1, 2}
  NetIds = {1, 2, 3}
  AllocIds = {1, 2, 3}
  Addresses = {x, y}
  IpTabs = {t1}
  IpSlots = {1, 2}
  Providers = {ollama, openai}
  Local = ollama
  ApiKeys = {k1}
  LlmAssets = {a1}
  LlmTabs = {t1, t2}
  SaveSlots = {1, 2}
  Runs = {r1}
INVARIANTS
  InventoryTypeOK
  AuditTrail
  ImportedOnce
  OneContract
  ShallowTree
  SlotsDisjoint
  RegistersOnce
  NoDoubles
  EditHitsItsRow
  CallsAsSaved
PROPERTY
  LldpKept
CHECK_DEADLOCK FALSE
