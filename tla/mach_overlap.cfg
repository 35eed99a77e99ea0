CONSTANTS
  Ann = Ann
  Bob = Bob
  Seller = Seller
  NoUser = NoUser
  Drill = Drill
  Rig = Rig
  Products = {Drill, Rig}
  Referrer <- MCReferrer
  Opening <- MCOpening
  Price <- MCPrice
  ProductLevel <- MCProductLevel
  LevelRows <- MCLevelRows
  Handlers = {h1, h2}
  Jobs = {j1, j2}
  Overlap = TRUE
  Failures = TRUE
  Users = {Ann}
  MachineIds = {m1, m2}
  MaxRuns = 1
SPECIFICATION Spec
CHECK_DEADLOCK FALSE
SYMMETRY Symmetry
INVARIANTS TypeOK BalanceIsExplained ReservedIsExplained TrialUsageIsExplained TrialMoneyReturned NeverOverdrawn LevelFollowsPoints
