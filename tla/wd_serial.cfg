CONSTANTS
  Ann = Ann
  Bob = Bob
  Users = {Ann, Bob}
  Opening <- OpeningBoth
  Withdraws = {w1, w2, w3}
  Procs = {p1, p2}
  Amounts <- MCAmounts
  Overlap = FALSE
SPECIFICATION Spec
SYMMETRY Symmetry
INVARIANT ReservedIsExplained
PROPERTY ImplementsContract
