CONSTANTS
  Ann = Ann
  Bob = Bob
  Users = {Ann}
  Opening <- OpeningAnn
  Withdraws = {w1}
  Procs = {p1}
  Amounts <- MCAmounts
  Overlap = FALSE
SPECIFICATION Spec
INVARIANT NothingLockedOnceApproved
