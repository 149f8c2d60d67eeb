SPECIFICATION Spec
CONSTANTS
  policy = policy
  Scenarios = {"commit", "rotation", "policies", "anchor"}
  None = None
  Events <- MCEvents
  StartBlock = 1
  MaxHeight = 4
  MaxReorgs = 1
  Confirmations = 1
  ReorgDepth = 4
  Batch = 2
  MaxFailures = 1
  CadenceBlocks = 8
  ServiceCadence = 1
  MinIndexerLag = 1
  HashWindow = 2
  MaxSent = 2
CHECK_DEADLOCK FALSE
INVARIANTS
  OrphansExcluded
