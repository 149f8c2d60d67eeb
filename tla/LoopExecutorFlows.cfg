SPECIFICATION ExecutorSpec
CONSTANTS
  owner = owner
  executor = executor
  forceExitExecutor = forceExitExecutor
  operator = operator
  hashA = hashA
  hashB = hashB
  Null = Null
  Owners <- MCOwners
  Executor = executor
  ForceExitExecutor = forceExitExecutor
  Keepers <- MCKeepers
  Operators <- MCOperators
  Digests <- LoopDigests
  PolicyTerms <- NoTerms
  Hashes <- MCHashes
  ZeroHash = hashB
  Conditions <- NoConditions
  Amounts <- TokenAmounts
  InitialActivity <- MCNoActivity
  RecoveryBlocks = 1
  MaxPolicyExpiry = 0
  MaxBlock = 1
  MaxVersion = 1
  MaxPolicies = 0
  MaxDepth = 2
  Bounds <- LoopBounds
  InitialPositions <- FromScratch
  InitialWealth <- Equipped
  FlashFeeTier = 10000
  Unit = 100
  Lltv = 86
  VaultPrices <- Mints
  CurvePrices <- Prices
  DustBps = 100
  DustCap = 4
  DustFloor = 3
  AttemptWindow = 1
  MaxFailedAttempts = 2
  Donations <- OneDust
  Worlds <- MovingWorlds
  LastSubmission = 1
INVARIANTS
  BooksBalance
  SignedOutcome
  UnwindCostBounded
  ExecutedUnderAuthority
