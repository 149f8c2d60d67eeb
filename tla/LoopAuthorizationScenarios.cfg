SPECIFICATION MCSpec
CONSTANTS
  Scenarios = {"policies", "gates"}
  owner = owner
  executor = executor
  forceExitExecutor = forceExitExecutor
  operator = operator
  hashA = hashA
  hashB = hashB
  Null = Null
  Owners <- MCOwners
  Executor = executor
  ForceExitExecutor = forceExitExecutor
  Keepers <- MCKeepers
  Operators <- MCOperators
  Digests <- PolicyOrGateDigests
  PolicyTerms <- MCPolicyTerms
  Hashes <- MCHashes
  ZeroHash = hashA
  Conditions <- GateConditions
  Amounts <- OneAmount
  InitialActivity <- MCSomeActivity
  RecoveryBlocks = 2
  MaxPolicyExpiry = 1
  MaxBlock = 3
  MaxVersion = 2
  MaxPolicies = 1
  MaxDepth = 1
PROPERTIES
  AuthorityInForce
  PolicyHistory
  RiskUpGated
  RecoveryNeedsInactivity
