CONSTANTS
  Ann = Ann
  Bob = Bob
  Users = {Ann}
  Opening <- OpeningAnn
  Withdraws = {w1, w2}
  Procs = {p1, p2}
  Amounts <- MCAmounts
  Overlap = TRUE
SPECIFICATION FairSpec
INVARIANTS TypeOK FundsConserved TotalTellsPayment SettledOnce BalanceNeverNegative
PROPERTY EveryRequestIsAnswered
