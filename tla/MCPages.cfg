SPECIFICATION Spec
CONSTANTS
  Rows = {a, b, c}
  Transactions = {t1, t2, t3}
  Limits = {1, 2}
  MaxTime = 2
  None = None
SYMMETRY Symmetry
INVARIANTS TypeOK SkippedOnlyForKnownReasons RepeatedOnlyForKnownReasons
CHECK_DEADLOCK FALSE
