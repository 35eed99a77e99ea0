CONSTANTS
  Ann = Ann
  Bob = Bob
  NoUser = NoUser
  Users = {Ann}
  Referrer <- MCReferrer
  TeamOf <- MCTeamOf
  DepositIds = {d1, d2}
  Handlers = {h1, h2}
  Amounts <- LiveAmounts
SPECIFICATION FairSpec
CHECK_DEADLOCK FALSE
PROPERTY PaidIsCredited
