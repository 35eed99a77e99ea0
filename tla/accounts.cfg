CONSTANTS
  NoUser = NoUser
  NoEmail = NoEmail
  AnnsEmail = AnnsEmail
  BobsEmail = BobsEmail
  e1 = e1
  e2 = e2
  MaxId = 4
  Founders = 2
  FounderOf <- Chain
  FounderLevel <- Levels2
  FounderEmail <- Addresses
  Emails <- AllEmails
  Deposited <- NoDeposits
  Crowd <- MCCrowd
  Threshold <- MCThreshold
  PointsPerPurchase = 20
  MaxPoints = 20
  Active = {1}
  MaxCodes = 2
  Invitations <- Invited
  Connections = 2
  Handlers = {h1, h2}
SPECIFICATION Spec
SYMMETRY Symmetry
CHECK_DEADLOCK FALSE
INVARIANTS AccountsInv LevelIsEarned TeamsAgree
PROPERTY CodeDiesWithUse
