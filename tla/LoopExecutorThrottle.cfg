SPECIFICATION FairExecutorSpec
CONSTANTS
  owner = owner
  executor = executor
  forceExitExecutor = forceExitExecutor
  operator = operator
  hashA = hashA
  hashB = hashB
  Null = Null
  Owners <- MCOwners
  Executor = executor
  ForceExitExecutor = forceExitExecutor
  Keepers <- MCKeepers
  Operators <- MCOperators
  Digests <- KeeperDigests
  PolicyTerms <- NoTerms
  Hashes <- MCHashes
  ZeroHash = hashB
  Conditions <- NoConditions
  Amounts <- TokenAmounts
  InitialActivity <- MCNoActivity
  RecoveryBlocks = 1
  MaxPolicyExpiry = 0
  MaxBlock = 5
  MaxVersion = 1
  MaxPolicies = 0
  MaxDepth = 2
  Bounds <- KeeperBounds
  InitialPositions <- Leveraged
  InitialWealth <- NoWealth
  FlashFeeTier = 10000
  Unit = 100
  Lltv = 86
  VaultPrices <- Par
  CurvePrices <- Par
  DustBps = 100
  DustCap = 4
  DustFloor = 3
  AttemptWindow = 1
  MaxFailedAttempts = 2
  Donations <- OneRepayment
  Worlds <- SteadyWorld
  LastSubmission = 3
INVARIANTS
  ThrottleBoundsFailures
PROPERTIES
  ThrottleExpires
