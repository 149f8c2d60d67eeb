SPECIFICATION Spec
CONSTANTS
  None = None
  Nothing = Nothing
  Unset = Unset
  LastBlock = 3
  open = open
  exit = exit
  tab1 = tab1
  tab2 = tab2
  oracle = oracle
  curve = curve
  Tabs = {tab1, tab2}
  Types = {open}
  LastNonce = 1
  Prices = {1, 2}
  MaxQuoteAge = 1
  MaxHead = 3
  MaxVersion = 2
  MaxSent = 2
  Loose = Loose
  Critical = {oracle, curve}
  Dwell = 2
  MaxTurns = 2
  Coolings = {1}
  SourceIds = {1, 2}
  Sequencer = 1
  Addresses = {0, 1, 2}
  FreshFor = 2
  BlockSeconds = 2
  QuoteLife = 2
  Height = 4
  Holdings = {1, 2}
  Debts = {0, 1}
  MaxPolls = 2
  MaxBlocks = 3
  NoRisk = NoRisk
  Collaterals = {7, 100000}
  Leverages = {10000, 15000, 30000}
  Slippages = {0, 3, 50}
  SharePrices = {1000, 1200, 1201}
  FeeTiers = {1, 5, 30, 100}
CHECK_DEADLOCK FALSE
INVARIANTS
  DerivedRebalanceHasOneMode
