SPECIFICATION StalledSpec
CONSTANTS
  alice = alice
  bob = bob
  m1 = m1
  m2 = m2
  lies = lies
  works = works
  None = None
  Error = Error
  Events <- MCEvents
  StartBlock = 1
  MaxHeight = 4
  MaxReorgs = 0
  Members = {1, 2, 3}
  FamilyOf <- MCFamilyOf
  Threshold = 2
  MaxBlockLag = 1
  Faulty = {lies}
  Submitters = {alice, bob}
  FirstSubmitter = alice
  Manifests = {m1, m2}
  NodeLag = 0
  Confirmations = 0
  MaxStale = 1
  HashWindow = 2
  Setups <- HonestSetups
CHECK_DEADLOCK FALSE
INVARIANTS
  AnchorFresh
