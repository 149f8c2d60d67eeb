SPECIFICATION MCSpec
CONSTANTS
  Scenarios = {"all"}
  owner = owner
  executor = executor
  forceExitExecutor = forceExitExecutor
  operator = operator
  hashA = hashA
  hashB = hashB
  Null = Null
  Owners <- MCOwners
  Executor = executor
  ForceExitExecutor = forceExitExecutor
  Keepers <- MCKeepers
  Operators <- MCOperators
  Digests <- ReplayDigests
  PolicyTerms <- NoTerms
  Hashes <- MCHashes
  ZeroHash = hashA
  Conditions <- NoConditions
  Amounts <- TwoAmounts
  InitialActivity <- MCNoActivity
  RecoveryBlocks = 2
  MaxPolicyExpiry = 0
  MaxBlock = 2
  MaxVersion = 1
  MaxPolicies = 0
  MaxDepth = 2
INVARIANTS
  NoncesAccounted
  SpendWithinSignature
PROPERTIES
  PairedRelease
  ImplementsLedger
