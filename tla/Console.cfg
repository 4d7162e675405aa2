SPECIFICATION Spec
CONSTANTS
  Opened = {"scan", "connect", "panel", "watch", "session", "board", "fleet", "record", "users"}
  MaxScans = 2
  MaxLoads = 1
  MaxFailures = 1
  Tenants = {"t1", "t2"}
  GatewayTenant = "t1"
  ReadyTenants = {"t1", "t2"}
  HostsOf <- InBoth
  MaxPicks = 2
  MaxScanEnds = 1
  Tables = {"hosts"}
  Filters = {"none", "new"}
  NoFilter = "none"
  Pages = 2
  MaxUnderWay = 2
  MaxChanges = 3
  Machines = {"a", "b"}
  MaxWatches = 2
  MaxPolls = 2
  Tabs = {"A", "B"}
  Users = {"u1", "u2"}
  Admins = {"u1"}
  Editors = {}
  MaxTokens = 3
  MaxRequests = 4
  MaxBesides = 1
  MaxActs = 3
  MaxWires = 2
  Entries = {"a", "b"}
  GroupOf <- OneEach
  Texts = {"x", "y"}
  Secrets = {"k"}
  Blank = "none"
  MaxSaves = 2
  Workers = {"w"}
  ManagedTenants = {"t"}
  Gateways = {"g"}
  WorkerOf <- OnlyWorker
  TenantOf <- OnlyTenant
  Accts = {"ed", "nu"}
  Later = {"nu"}
INVARIANTS TypeOK  OneRequestPerRow RefusedIfOvertaken
PROPERTIES OwnScanIsReported StepsAsShown PagesRecover
CHECK_DEADLOCK FALSE
