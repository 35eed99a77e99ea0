CONSTANTS
  Ann = Ann
  Bob = Bob
  Seller = Seller
  NoUser = NoUser
  Drill = Drill
  Rig = Rig
  Products = {Drill, Rig}
  Referrer <- MCReferrer
  Opening <- MCOpening
  Price <- MCPrice
  ProductLevel <- MCProductLevel
  LevelRows <- MCLevelRows
  Handlers = {h1}
  Jobs = {j1}
  Overlap = FALSE
  Failures = TRUE
  Users = {Ann, Bob}
  MachineIds = {m1, m2}
  MaxRuns = 1
SPECIFICATION FairSpec
CHECK_DEADLOCK FALSE
INVARIANT BalanceIsExplained
PROPERTY ExpiredIsRefunded
