CONSTANTS
  Ann = Ann
  Bob = Bob
  NoUser = NoUser
  Users = {Ann, Bob}
  Referrer <- MCReferrer
  TeamOf <- MCTeamOf
  DepositIds = {d1, d2}
  Handlers = {h1, h2}
  Amounts <- WholeDollars
SPECIFICATION Spec
CHECK_DEADLOCK FALSE
INVARIANT LockedFundsDoNotCount
