CONSTANTS
  DepositSums <- Thresholds
  TeamSizes <- Sizes
  Users <- Three
  NoOne = 0
  Referrer <- Chain
  Amounts <- OneEach
  MaxOperations = 4
  Seller = 1
  Reader = 1
  Limits <- OneOrTwo
  MaxRows = 4
SPECIFICATION Spec
INVARIANTS ScanGrantsTheHighest EarningsAddUp 
CHECK_DEADLOCK FALSE
