SPECIFICATION MCSpec
CONSTANTS
  MaxBlock = 4
  Sources <- MCSources
  Venues <- MCVenues
  NoVenue = "none"
  Batches <- MCBatches
  Views <- MCViews
  FirstView <- MCFirstView
  RegistryDelay = 1
  MaxVersion = 3
  Restless = {"pool"}
  Roles <- MCRoles
  Holders = {"ann", "bob", "cat"}
  NoOne = "none"
  RoleDelay = 2
  Accounts = {"gov", "ann", "bob"}
  Governance = "gov"
  InitialGuardian = "ann"
  RateLimit = 1
  AutoExpire = 2
  Heartbeat = 1
  Grace = 2
  NavBaseline = 1000
  Navs = {1000, 1006}
  Wad = 10
  Lltv = 8
  Prices = {0, 7, 10}
  Collaterals = {7, 10}
  VirtualShares = 3
  MaxAssets = 11
INVARIANTS
  GovernedAsAnnounced
  PauseBounded
  RiskRisesWhenSound
  DebtNeverUnderstated
PROPERTIES
  
  BatchTimelock
  KeysGoverned
  PauseDiscipline
